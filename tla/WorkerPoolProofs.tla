-------------------------- MODULE WorkerPoolProofs --------------------------
(***************************************************************************)
(* For every number of workers and of clients, every set of tasks and all  *)
(* capacities: no task runs twice, accepted tasks are lost only by         *)
(* overlapping pushes on the global deque, the statistics agree with the   *)
(* deques, and the pool is freed under no worker.                          *)
(***************************************************************************)
EXTENDS WorkerPool, FiniteSetTheorems, TLAPS

-----------------------------------------------------------------------------
(* The constants, the deques and their slots.                               *)

LEMMA Basics ==
  /\ Workers \subseteq Threads /\ Clients \subseteq Threads
  /\ Workers \subseteq Queues /\ Global \in Queues /\ Global \notin Workers
  /\ Workers \cap Clients = {}
  /\ \A q \in Queues : q \in Workers \/ q = Global
  /\ \A p \in Threads : p \in Workers \/ p \in Clients
  /\ Workers \subseteq Nat /\ Queues \subseteq Nat
BY PoolAssumption DEF Workers, Threads, Queues, Global

LEMMA CapPositive ==
  \A q \in Queues : Cap(q) \in Nat \ {0}
BY PoolAssumption DEF Cap

LEMMA ThreadsFinite == IsFiniteSet(Threads) /\ IsFiniteSet(Workers)
<1>1. IsFiniteSet(Workers)
  BY PoolAssumption, FS_Interval DEF Workers
<1> QED BY <1>1, PoolAssumption, FS_Union DEF Threads

(* Quotient and remainder by a positive number. *)
LEMMA DivModFacts ==
  ASSUME NEW n \in Nat \ {0}, NEW i \in Int
  PROVE  /\ i % n \in 0 .. n - 1
         /\ i \div n \in Int
         /\ i = n * (i \div n) + (i % n)
OBVIOUS

(* Every index has a slot. *)
LEMMA SlotInRange ==
  ASSUME NEW q \in Queues, NEW i \in Nat
  PROVE  Slot(q, i) \in Slots(q)
BY CapPositive, DivModFacts DEF Slot, Slots

(* Indices less than one capacity apart lie in different slots. *)
LEMMA ModDistinct ==
  ASSUME NEW n \in Nat \ {0}, NEW i \in Nat, NEW j \in Nat, i < j, j < i + n
  PROVE  i % n # j % n
<1>1. SUFFICES ASSUME i % n = j % n PROVE FALSE
  OBVIOUS
<1> DEFINE a == i \div n
           b == j \div n
           m == i % n
<1>2. /\ a \in Int /\ b \in Int /\ m \in Int
      /\ i = n * a + m
      /\ j = n * b + m
  BY <1>1, DivModFacts
<1> HIDE DEF a, b, m
<1>3. j - i = n * b - n * a
  BY <1>2
<1>4. n * b - n * a = n * (b - a)
  BY <1>2
<1>5. CASE b - a <= 0
  <2>1. n * (b - a) <= 0
    BY <1>2, <1>5
  <2> QED BY <1>3, <1>4, <2>1
<1>6. CASE b - a >= 1
  <2>1. n * (b - a) >= n
    BY <1>2, <1>6
  <2> QED BY <1>3, <1>4, <2>1
<1> QED BY <1>2, <1>5, <1>6

LEMMA SlotDistinct ==
  ASSUME NEW q \in Queues, NEW i \in Nat, NEW j \in Nat, i # j,
         i < j + Cap(q), j < i + Cap(q)
  PROVE  Slot(q, i) # Slot(q, j)
<1>1. CASE i < j
  BY <1>1, CapPositive, ModDistinct DEF Slot
<1>2. CASE j < i
  BY <1>2, CapPositive, ModDistinct DEF Slot
<1> QED BY <1>1, <1>2

(* What is waiting are tasks, so that there are finitely many. *)
LEMMA QueuedFinite ==
  ASSUME TypeOK, WindowInv
  PROVE  Queued \subseteq Tasks /\ IsFiniteSet(Queued) /\ Cardinality(Queued) \in Nat
<1>1. ASSUME NEW q \in Queues, NEW i \in top[q] .. bottom[q] - 1
      PROVE  items[q][Slot(q, i)] \in Tasks
  BY <1>1 DEF WindowInv, Ends
<1>2. Queued \subseteq Tasks
  BY <1>1 DEF Queued, QueuedIn
<1> QED BY <1>2, PoolAssumption, FS_Subset, FS_CardinalityType

(* The counters of the statistics are numbers. *)
LEMMA CountsFinite ==
  /\ IsFiniteSet({p \in Threads : At(p, "count")})
  /\ IsFiniteSet({w \in Workers : Between(w)})
  /\ Cardinality({p \in Threads : At(p, "count")}) \in Nat
  /\ Cardinality({w \in Workers : Between(w)}) \in Nat
<1>1. {p \in Threads : At(p, "count")} \subseteq Threads /\ {w \in Workers : Between(w)} \subseteq Workers
  OBVIOUS
<1> QED BY <1>1, ThreadsFinite, FS_Subset, FS_CardinalityType

-----------------------------------------------------------------------------
(* Steps that move threads between labels at which they hold nothing.       *)

(* The parts of the invariant about tasks and deques, when the deques stay. *)
LEMMA DequesKept ==
  ASSUME PoolInv, UNCHANGED <<dequeVars, runs>>,
         Unplaced' \subseteq Unplaced,
         \A p \in Threads : Pending(p)' => arg'[p] \notin fresh',
         \A p \in Threads : Pending(p)' \/ pc'[p] \in {"push_publish", "count"} => arg'[p] \in Tasks,
         \A p, q \in Threads : Pending(p)' /\ Pending(q)' /\ arg'[p] = arg'[q] => p = q,
         \A q \in Queues : Ends(q)' \subseteq Ends(q),
         \A p \in Threads : pc'[p] = "push_put" => idx'[p] < top[Global] + Cap(Global),
         \A w \in Workers : pc'[w] = "steal_cas" =>
           pc[w] = "steal_cas" /\ idx'[w] = idx[w] /\ task'[w] = task[w] /\ victim'[w] = victim[w]
  PROVE  UnplacedInv' /\ PlacedInv' /\ WindowInv' /\ ThiefInv' /\ RunOnce' /\ Queued' = Queued
<1> USE Basics
<1>1. /\ RunOnce /\ UnplacedInv /\ PlacedInv /\ WindowInv /\ ThiefInv
  BY DEF PoolInv, PoolSafe
<1>2. UNCHANGED <<top, bottom, items, runs>>
  BY DEF dequeVars
<1>3. UnplacedInv'
  <2>1. \A x \in Unplaced' :
        /\ runs'[x] = 0
        /\ \A q \in Queues : \A s \in Slots(q) : items'[q][s] # x
        /\ \A w \in Workers : pc'[w] = "steal_cas" => task'[w] # x
    BY <1>1, <1>2 DEF UnplacedInv, At
  <2> QED BY <2>1 DEF UnplacedInv, At
<1>4. PlacedInv'
  BY <1>1, <1>2 DEF PlacedInv
<1>5. WindowInv'
  BY <1>1, <1>2 DEF WindowInv, At
<1>6. ThiefInv'
  <2>2. \A w \in Workers : Winning(w)' =>
          /\ Winning(w) /\ idx'[w] = idx[w] /\ task'[w] = task[w] /\ victim'[w] = victim[w]
    BY <1>2 DEF Winning, At
  <2>3. \A w \in Workers : At(w, "steal_cas")' => idx'[w] <= top'[victim'[w]] /\ task'[w] \in Tasks
    BY <1>1, <1>2 DEF ThiefInv, At
  <2>4. \A w \in Workers : Winning(w)' =>
           /\ runs'[task'[w]] = 0
           /\ \A q \in Queues : \A s \in Slots(q) :
                items'[q][s] = task'[w] => q = victim'[w] /\ s = Slot(q, idx'[w])
    BY <1>1, <1>2, <2>2 DEF ThiefInv
  <2>5. \A v, w \in Workers :
           Winning(v)' /\ Winning(w)' /\ task'[v] = task'[w] => victim'[v] = victim'[w]
    <3>1. SUFFICES ASSUME NEW v \in Workers, NEW w \in Workers,
                          Winning(v)', Winning(w)', task'[v] = task'[w]
                   PROVE  victim'[v] = victim'[w]
      OBVIOUS
    <3>2. Winning(v) /\ task'[v] = task[v] /\ victim'[v] = victim[v]
      BY <2>2, <3>1
    <3>3. Winning(w) /\ task'[w] = task[w] /\ victim'[w] = victim[w]
      BY <2>2, <3>1
    <3>4. Winning(v) /\ Winning(w) /\ task[v] = task[w] => victim[v] = victim[w]
      BY <1>1 DEF ThiefInv
    <3>5. task[v] = task[w]
      BY <3>1, <3>2, <3>3
    <3>6. victim[v] = victim[w]
      BY <3>2, <3>3, <3>4, <3>5
    <3> QED BY <3>2, <3>3, <3>6
  <2> QED BY <2>3, <2>4, <2>5 DEF ThiefInv
<1>7. Queued' = Queued
  BY <1>2 DEF Queued, QueuedIn
<1>8. RunOnce'
  BY <1>1, <1>2 DEF RunOnce
<1> QED BY <1>3, <1>4, <1>5, <1>6, <1>7, <1>8

(* No thread enters or leaves a push on the global deque or a steal. *)
LEMMA QuietStep ==
  ASSUME PoolInv, TypeOK', PhaseInv', FreedAfterExit',
         UNCHANGED <<dequeVars, statVars, fresh, accepted, runs, arg>>,
         raced => raced',
         \A t \in Threads :
           \/ pc'[t] = pc[t]
           \/ /\ pc'[t] \notin {"steal_cas", "push_put", "push_publish", "count"}
              /\ pc[t] \notin {"push_put", "push_publish", "count"}
              /\ Pending(t)' => Pending(t)
              /\ t \in Workers => (Between(t)' <=> Between(t)),
         \A t \in Threads : pc'[t] \in {"push_put", "push_publish", "steal_cas"} => idx'[t] = idx[t],
         \A w \in Workers : pc'[w] = "steal_cas" => task'[w] = task[w] /\ victim'[w] = victim[w]
  PROVE  PoolInv'
<1> USE Basics
<1>1. /\ TypeOK /\ RunOnce /\ LostOnlyByRace /\ TasksAccounted
      /\ UnplacedInv /\ PlacedInv /\ WindowInv /\ ThiefInv
      /\ ~raced => CleanInv
  BY DEF PoolInv, PoolSafe
<1>2. UNCHANGED <<top, bottom, items, total_submitted, total_completed, fresh, accepted, runs, arg>>
  BY DEF dequeVars, statVars
<1>3. \A t \in Threads : /\ pc'[t] = "push_put" <=> pc[t] = "push_put"
                         /\ pc'[t] = "push_publish" <=> pc[t] = "push_publish"
                         /\ pc'[t] = "count" <=> pc[t] = "count"
                         /\ pc'[t] = "steal_cas" => pc[t] = "steal_cas"
                         /\ Pending(t)' => Pending(t)
                         /\ t \in Workers => (Between(t)' <=> Between(t))
  BY DEF Pending, Between
<1>4. Unplaced' \subseteq Unplaced
  BY <1>2, <1>3 DEF Unplaced
<1>5. /\ \A p \in Threads : Pending(p)' => arg'[p] \notin fresh'
      /\ \A p \in Threads : Pending(p)' \/ pc'[p] \in {"push_publish", "count"} => arg'[p] \in Tasks
      /\ \A p, q \in Threads : Pending(p)' /\ Pending(q)' /\ arg'[p] = arg'[q] => p = q
  BY <1>1, <1>2, <1>3 DEF UnplacedInv, At
<1>6. \A q \in Queues : Ends(q)' \subseteq Ends(q)
  <2>1. SUFFICES ASSUME NEW q \in Queues, NEW e \in Ends(q)' PROVE e \in Ends(q)
    OBVIOUS
  <2>2. CASE e = bottom'[q]
    BY <2>2, <1>2 DEF Ends
  <2>3. ASSUME q = Global, NEW p \in Threads, pc'[p] = "push_put", e = idx'[p] PROVE e \in Ends(q)
    BY <2>3, <1>3 DEF Ends, At
  <2>4. ASSUME q = Global, NEW p \in Threads, pc'[p] = "push_publish", e = idx'[p] + 1 PROVE e \in Ends(q)
    <3>1. pc[p] = "push_publish" /\ e = idx[p] + 1
      BY <2>4, <1>3
    <3> QED BY <2>4, <3>1 DEF Ends, At
  <2> QED BY <2>1, <2>2, <2>3, <2>4 DEF Ends, At
<1>7. \A p \in Threads : pc'[p] = "push_put" => idx'[p] < top[Global] + Cap(Global)
  BY <1>1, <1>3 DEF WindowInv, At
<1>8. \A w \in Workers : pc'[w] = "steal_cas" =>
           pc[w] = "steal_cas" /\ idx'[w] = idx[w] /\ task'[w] = task[w] /\ victim'[w] = victim[w]
  BY <1>3
<1>9. UnplacedInv' /\ PlacedInv' /\ WindowInv' /\ ThiefInv' /\ RunOnce' /\ Queued' = Queued
  BY <1>2, <1>4, <1>5, <1>6, <1>7, <1>8, DequesKept
<1>10. \A w \in Workers : Winning(w)' => Winning(w)
  BY <1>2, <1>8 DEF Winning, At
<1>11. ~raced' => CleanInv'
  BY <1>1, <1>2, <1>3, <1>8, <1>9, <1>10 DEF CleanInv, At, PushingGlobal, Winning
<1>12. LostOnlyByRace'
  BY <1>1, <1>2, <1>9 DEF LostOnlyByRace, NoLostTask
<1>13. TasksAccounted'
  <2>1. {p \in Threads : At(p, "count")}' = {p \in Threads : At(p, "count")}
    BY <1>3 DEF At
  <2>2. {w \in Workers : Between(w)}' = {w \in Workers : Between(w)}
    BY <1>3
  <2> QED BY <1>1, <1>2, <1>9, <2>1, <2>2 DEF TasksAccounted
<1> QED BY <1>9, <1>11, <1>12, <1>13 DEF PoolInv, PoolSafe

(* One thread moves. *)
LEMMA LabelStep ==
  ASSUME PoolInv, NEW p \in Threads, NEW l \in Labels, pc' = [pc EXCEPT ![p] = l]
  PROVE  /\ pc' \in [Threads -> Labels] /\ pc'[p] = l
         /\ \A t \in Threads : t # p => pc'[t] = pc[t]
BY DEF PoolInv, PoolSafe, TypeOK

(* A step of a thread leaves the phases of the pool consistent. *)
LEMMA PhaseKept ==
  ASSUME PoolInv, NEW p \in Threads, NEW l \in Labels, pc' = [pc EXCEPT ![p] = l],
         UNCHANGED <<phase, next>>,
         pc[p] \notin {"unborn", "exited"},
         p \in Clients => l \in {"idle", "push_read", "push_put", "push_publish", "count"},
         p \in Workers => l # "idle",
         \A w \in Workers : pc'[w] \in {"steal_read", "steal_cas"} => tries'[w] <= MaxSteals
  PROVE  PhaseInv' /\ FreedAfterExit'
<1> USE Basics, LabelStep
<1>1. PhaseInv /\ FreedAfterExit /\ next \in Workers
  BY DEF PoolInv, PoolSafe, TypeOK
<1>2. \A t \in Threads : /\ pc[t] = "unborn" => pc'[t] = "unborn"
                         /\ pc[t] = "exited" => pc'[t] = "exited"
  OBVIOUS
<1>3. FreedAfterExit'
  BY <1>1, <1>2 DEF FreedAfterExit, At
<1>4. /\ \A c \in Clients : pc'[c] \in {"idle", "push_read", "push_put", "push_publish", "count"}
      /\ \A w \in Workers : pc'[w] # "idle"
  BY <1>1 DEF PhaseInv
<1>5. next .. NumWorkers - 1 \subseteq Threads /\ 0 .. next - 1 \subseteq Threads
  BY <1>1, PoolAssumption DEF Threads, Workers
<1>6. /\ phase' = "creating" => \A w \in next' .. NumWorkers - 1 : pc'[w] = "unborn"
      /\ phase' = "down" => next' = 0
      /\ phase' = "joining" => \A w \in 0 .. next' - 1 : pc'[w] = "exited"
  BY <1>1, <1>2, <1>5 DEF PhaseInv, At
<1> QED BY <1>3, <1>4, <1>6 DEF PhaseInv, At

(* pool_create, pool_shutdown, and pool_destroy. *)
LEMMA ControlStep ==
  ASSUME PoolInv, Control
  PROVE  PoolInv'
<1> USE Basics, PoolAssumption
<1>1. TypeOK /\ PhaseInv /\ FreedAfterExit
  BY DEF PoolInv, PoolSafe
<1>2. /\ next \in Workers /\ 0 \in Workers
      /\ next + 1 # NumWorkers => next + 1 \in Workers
  <2>1. next \in 0 .. NumWorkers - 1
    BY <1>1 DEF TypeOK, Workers
  <2> QED BY <2>1 DEF Workers
<1>3. CASE CreateWorker
  <2>0. /\ next \in Workers /\ pc' = [pc EXCEPT ![next] = "loop"] /\ pc[next] = "unborn"
        /\ "loop" \in Labels
    BY <1>1, <1>3 DEF CreateWorker, Goto, TypeOK, PhaseInv, At, Workers, Labels
  <2>1. /\ pc' \in [Threads -> Labels] /\ pc'[next] = "loop"
        /\ \A t \in Threads : t # next => pc'[t] = pc[t]
    BY <2>0, LabelStep
  <2>2. /\ UNCHANGED <<is_running, should_exit, top, bottom, items, task, arg, idx, victim, tries>>
        /\ UNCHANGED <<total_submitted, total_completed, fresh, accepted, runs, raced>>
    BY <1>3 DEF CreateWorker, dequeVars, statVars, ghostVars
  <2>3. /\ phase = "creating"
        /\ \/ phase' = "up" /\ next' = 0
           \/ phase' = "creating" /\ next' = next + 1 /\ next' \in Workers
        /\ 0 \in Workers
    <3>1. phase = "creating"
      BY <1>3 DEF CreateWorker
    <3>2. CASE next + 1 = NumWorkers
      <4>1. phase' = "up" /\ next' = 0
        BY <1>3, <3>2 DEF CreateWorker
      <4> QED BY <1>2, <3>1, <4>1
    <3>3. CASE next + 1 # NumWorkers
      BY <1>2, <1>3, <3>1, <3>3 DEF CreateWorker
    <3> QED BY <3>2, <3>3
  <2>4. TypeOK'
    BY <1>1, <2>1, <2>2, <2>3 DEF TypeOK, PhaseNames
  <2>5. FreedAfterExit'
    BY <2>3 DEF FreedAfterExit
  <2>6. PhaseInv'
    <3>1. /\ \A c \in Clients : pc'[c] \in {"idle", "push_read", "push_put", "push_publish", "count"}
          /\ \A w \in Workers : pc'[w] # "idle"
          /\ \A w \in Workers : pc'[w] \in {"steal_read", "steal_cas"} => tries'[w] <= MaxSteals
      BY <1>1, <2>0, <2>1, <2>2 DEF PhaseInv
    <3>2. ASSUME phase' = "creating", NEW w \in next' .. NumWorkers - 1 PROVE pc'[w] = "unborn"
      <4>1. w \in Workers /\ w # next /\ w \in next .. NumWorkers - 1
        BY <2>0, <2>3, <3>2 DEF Workers
      <4> QED BY <1>1, <2>1, <2>3, <4>1 DEF PhaseInv, At
    <3> QED BY <2>3, <3>1, <3>2 DEF PhaseInv, At
  <2> QED BY <2>0, <2>1, <2>2, <2>4, <2>5, <2>6, QuietStep
          DEF dequeVars, statVars, Pending, Between
<1>4. ASSUME pc' = pc, UNCHANGED <<is_running, should_exit>> \/ ShutdownBegin \/ ShutdownSignal,
             UNCHANGED <<dequeVars, localVars, statVars, ghostVars>>,
             phase' \in PhaseNames, next' \in Workers, phase' # "creating",
             phase' = "down" => next' = 0,
             phase' = "joining" => \A w \in 0 .. next' - 1 : At(w, "exited"),
             phase' = "freed" => \A w \in Workers : At(w, "exited")
      PROVE  PoolInv'
  <2>1. /\ UNCHANGED <<top, bottom, items, task, arg, idx, victim, tries>>
        /\ UNCHANGED <<total_submitted, total_completed, fresh, accepted, runs, raced>>
    BY <1>4 DEF dequeVars, statVars, ghostVars, localVars
  <2>2. is_running' \in BOOLEAN /\ should_exit' \in [Workers -> BOOLEAN]
    BY <1>1, <1>4 DEF TypeOK, ShutdownBegin, ShutdownSignal
  <2>3. TypeOK'
    BY <1>1, <1>4, <2>1, <2>2 DEF TypeOK
  <2>4. FreedAfterExit'
    BY <1>4 DEF FreedAfterExit, At
  <2>5. PhaseInv'
    BY <1>1, <1>4, <2>1 DEF PhaseInv, At
  <2> QED BY <1>4, <2>1, <2>3, <2>4, <2>5, QuietStep DEF dequeVars, statVars
<1>5. CASE CreateFails
  BY <1>2, <1>4, <1>5 DEF CreateFails, PhaseNames, localVars
<1>6. CASE ShutdownBegin
  BY <1>2, <1>4, <1>6 DEF ShutdownBegin, PhaseNames, localVars
<1>7. CASE ShutdownSignal
  <2>1. phase' \in {"signalling", "down"} /\ next' \in Workers /\ (phase' = "down" => next' = 0)
    BY <1>2, <1>7 DEF ShutdownSignal
  <2> QED BY <1>4, <1>7, <2>1 DEF ShutdownSignal, PhaseNames, localVars
<1>8. CASE DestroyBegin
  <2>1. phase' = "joining" /\ next' = 0
    BY <1>1, <1>8 DEF DestroyBegin, PhaseInv
  <2>2. 0 .. 0 - 1 = {}
    OBVIOUS
  <2> QED BY <1>2, <1>4, <1>8, <2>1, <2>2 DEF DestroyBegin, PhaseNames, localVars
<1>9. CASE DestroyJoin
  <2>1. /\ phase = "joining" /\ At(next, "exited") /\ next \in Workers
        /\ \A w \in 0 .. next - 1 : At(w, "exited")
    BY <1>1, <1>9 DEF DestroyJoin, PhaseInv, TypeOK
  <2>2. \A w \in 0 .. next : At(w, "exited")
    <3>1. \A w \in 0 .. next : w \in 0 .. next - 1 \/ w = next
      BY <2>1 DEF Workers
    <3> QED BY <2>1, <3>1
  <2>3. CASE next + 1 = NumWorkers
    <3>1. 0 .. next = Workers /\ 0 \in Workers
      BY <2>1, <2>3 DEF Workers
    <3> QED BY <1>4, <1>9, <2>2, <2>3, <3>1 DEF DestroyJoin, PhaseNames, localVars
  <2>4. CASE next + 1 # NumWorkers
    <3>1. next + 1 \in Workers /\ 0 .. (next + 1) - 1 = 0 .. next
      BY <2>1, <2>4 DEF Workers
    <3> QED BY <1>4, <1>9, <2>1, <2>2, <2>4, <3>1 DEF DestroyJoin, PhaseNames, localVars
  <2> QED BY <2>3, <2>4
<1> QED BY <1>3, <1>5, <1>6, <1>7, <1>8, <1>9 DEF Control

(* A thread moves, holding nothing before and after, or gives up a push. *)
LEMMA ThreadQuiet ==
  ASSUME PoolInv, NEW p \in Threads, NEW l \in Labels, pc' = [pc EXCEPT ![p] = l],
         UNCHANGED <<poolVars, dequeVars, statVars, task, arg, fresh, accepted, runs>>,
         raced' \in BOOLEAN, raced => raced',
         idx' \in [Threads -> Nat], \A t \in Threads : t # p => idx'[t] = idx[t],
         victim' \in [Workers -> Queues], tries' \in [Workers -> 0 .. MaxSteals + 1],
         \A w \in Workers : w # p => victim'[w] = victim[w] /\ tries'[w] = tries[w],
         l = "steal_read" => tries'[p] <= MaxSteals,
         l \notin {"steal_cas", "push_put", "push_publish", "count"},
         pc[p] \notin {"unborn", "exited", "push_put", "push_publish", "count"},
         l \in {"push_local", "push_read"} => Pending(p),
         p \in Clients => l \in {"idle", "push_read"},
         p \in Workers => l # "idle" /\ (l \in {"running", "push_local", "push_read"} <=> Between(p))
  PROVE  PoolInv'
<1> USE Basics
<1>1. TypeOK /\ PhaseInv
  BY DEF PoolInv, PoolSafe
<1>2. /\ pc' \in [Threads -> Labels] /\ pc'[p] = l
      /\ \A t \in Threads : t # p => pc'[t] = pc[t]
  BY LabelStep
<1>3. /\ UNCHANGED <<phase, next, is_running, should_exit, top, bottom, items, task, arg>>
      /\ UNCHANGED <<total_submitted, total_completed, fresh, accepted, runs>>
  BY DEF poolVars, dequeVars, statVars
<1>4. TypeOK'
  BY <1>1, <1>2, <1>3 DEF TypeOK
<1>5. \A w \in Workers : pc'[w] \in {"steal_read", "steal_cas"} => tries'[w] <= MaxSteals
  BY <1>1, <1>2 DEF PhaseInv
<1>6. PhaseInv' /\ FreedAfterExit'
  BY <1>3, <1>5, PhaseKept
<1>7. \A t \in Threads :
        \/ pc'[t] = pc[t]
        \/ /\ pc'[t] \notin {"steal_cas", "push_put", "push_publish", "count"}
           /\ pc[t] \notin {"push_put", "push_publish", "count"}
           /\ Pending(t)' => Pending(t)
           /\ t \in Workers => (Between(t)' <=> Between(t))
  BY <1>2 DEF Pending, Between
<1>8. \A t \in Threads : pc'[t] \in {"push_put", "push_publish", "steal_cas"} => idx'[t] = idx[t]
  BY <1>2
<1>9. \A w \in Workers : pc'[w] = "steal_cas" => task'[w] = task[w] /\ victim'[w] = victim[w]
  BY <1>2, <1>3
<1> QED BY <1>3, <1>4, <1>6, <1>7, <1>8, <1>9, QuietStep DEF dequeVars, statVars

(* The loop of a worker, and the failures of a pop, a steal and a push. *)
LEMMA WorkerLoopStep ==
  ASSUME PoolInv, NEW w \in Workers, WorkerLoop(w)
  PROVE  PoolInv'
<1> USE Basics
<1>1. TypeOK
  BY DEF PoolInv, PoolSafe
<1> DEFINE l == IF should_exit[w] THEN "exited" ELSE "pop"
<1>2. pc' = [pc EXCEPT ![w] = l] /\ l \in {"exited", "pop"} /\ l \in Labels /\ pc[w] = "loop"
  BY DEF WorkerLoop, Goto, At, Labels
<1>3. UNCHANGED <<poolVars, dequeVars, statVars, task, arg, fresh, accepted, runs, raced, idx, victim, tries>>
  BY DEF WorkerLoop, ghostVars
<1> HIDE DEF l
<1>4. l \notin {"running", "push_local", "push_read"} /\ ~Between(w)
  BY <1>2 DEF Between
<1> QED BY <1>1, <1>2, <1>3, <1>4, ThreadQuiet DEF TypeOK

LEMMA NextTryStep ==
  ASSUME PoolInv, NEW w \in Workers, pc[w] \in {"steal_read", "steal_cas"},
         NextTry(w, tries[w] + 1),
         UNCHANGED <<poolVars, dequeVars, statVars, task, arg, fresh, accepted, runs, raced, idx>>
  PROVE  PoolInv'
<1> USE Basics
<1>1. TypeOK /\ tries[w] <= MaxSteals /\ tries[w] \in 0 .. MaxSteals + 1 /\ MaxSteals = 3
  BY DEF PoolInv, PoolSafe, PhaseInv, TypeOK, MaxSteals
<1>2. /\ tries' = [tries EXCEPT ![w] = tries[w] + 1]
      /\ tries[w] + 1 \in 0 .. MaxSteals + 1
  BY <1>1 DEF NextTry
<1>3. tries' \in [Workers -> 0 .. MaxSteals + 1] /\ tries'[w] = tries[w] + 1
      /\ \A u \in Workers : u # w => tries'[u] = tries[u]
  BY <1>1, <1>2 DEF TypeOK
<1>4. CASE pc' = [pc EXCEPT ![w] = "loop"] /\ UNCHANGED victim
  <2>1. "loop" \in Labels /\ "loop" \notin {"running", "push_local", "push_read"} /\ ~Between(w)
    BY DEF Labels, Between
  <2> QED BY ZenonT(60), <1>1, <1>3, <1>4, <2>1, ThreadQuiet DEF TypeOK
<1>5. ASSUME pc' = [pc EXCEPT ![w] = "steal_read"], tries[w] + 1 <= MaxSteals,
             NEW v \in Workers, victim' = [victim EXCEPT ![w] = v]
      PROVE  PoolInv'
  <2>1. "steal_read" \in Labels /\ "steal_read" \notin {"running", "push_local", "push_read"} /\ ~Between(w)
    BY DEF Labels, Between
  <2>2. victim' \in [Workers -> Queues] /\ \A u \in Workers : u # w => victim'[u] = victim[u]
    BY <1>1, <1>5 DEF TypeOK
  <2>3. /\ raced' \in BOOLEAN /\ idx' \in [Threads -> Nat]
        /\ \A u \in Workers : u # w => victim'[u] = victim[u] /\ tries'[u] = tries[u]
        /\ tries'[w] <= MaxSteals
    BY <1>1, <1>3, <1>5, <2>2 DEF TypeOK
  <2>4. /\ w \in Threads /\ w \notin Clients
        /\ pc[w] \notin {"unborn", "exited", "push_put", "push_publish", "count"}
        /\ "steal_read" \notin {"steal_cas", "push_put", "push_publish", "count", "push_local", "push_read", "idle"}
        /\ \A t \in Threads : t # w => idx'[t] = idx[t]
        /\ raced => raced'
    OBVIOUS
  <2>5. /\ "steal_read" \in {"push_local", "push_read"} => Pending(w)
        /\ "steal_read" \in {"running", "push_local", "push_read"} <=> Between(w)
    BY <2>1
  <2> HIDE Basics
  <2> QED BY <1>3, <1>5, <2>1, <2>2, <2>3, <2>4, <2>5, ThreadQuiet
<1>6. \/ pc' = [pc EXCEPT ![w] = "loop"] /\ UNCHANGED victim
      \/ /\ pc' = [pc EXCEPT ![w] = "steal_read"] /\ ~(tries[w] + 1 > MaxSteals)
         /\ \E v \in Workers : victim' = [victim EXCEPT ![w] = v]
  BY DEF NextTry, Goto
<1>7. ~(tries[w] + 1 > MaxSteals) => tries[w] + 1 <= MaxSteals
  BY <1>1
<1> QED BY <1>4, <1>5, <1>6, <1>7

LEMMA PopEmptyStep ==
  ASSUME PoolInv, NEW w \in Workers, WorkerPop(w), Empty(w)
  PROVE  PoolInv'
<1> USE Basics
<1>1. TypeOK /\ 0 \in 0 .. MaxSteals + 1 /\ 0 <= MaxSteals
  BY DEF PoolInv, PoolSafe, MaxSteals
<1>2. /\ pc[w] = "pop" /\ pc' = [pc EXCEPT ![w] = "steal_read"] /\ "steal_read" \in Labels
      /\ tries' = [tries EXCEPT ![w] = 0] /\ victim' = [victim EXCEPT ![w] = Global]
      /\ "steal_read" \notin {"running", "push_local", "push_read"} /\ ~Between(w)
  BY DEF WorkerPop, Goto, At, Labels, Between
<1>3. UNCHANGED <<poolVars, dequeVars, statVars, task, arg, fresh, accepted, runs, raced, idx>>
  BY DEF WorkerPop, dequeVars
<1>4. /\ victim' \in [Workers -> Queues] /\ \A u \in Workers : u # w => victim'[u] = victim[u]
      /\ tries' \in [Workers -> 0 .. MaxSteals + 1] /\ \A u \in Workers : u # w => tries'[u] = tries[u]
      /\ tries'[w] <= MaxSteals
  BY <1>1, <1>2 DEF TypeOK
<1>5. /\ raced' \in BOOLEAN /\ idx' \in [Threads -> Nat]
      /\ \A u \in Workers : u # w => victim'[u] = victim[u] /\ tries'[u] = tries[u]
  BY <1>1, <1>3, <1>4 DEF TypeOK
<1> QED BY ZenonT(60), <1>2, <1>3, <1>4, <1>5, ThreadQuiet

LEMMA LocalFullStep ==
  ASSUME PoolInv, NEW w \in Workers, SubmitLocal(w), Full(w)
  PROVE  PoolInv'
<1> USE Basics
<1>1. TypeOK
  BY DEF PoolInv, PoolSafe
<1>2. /\ pc[w] = "push_local" /\ pc' = [pc EXCEPT ![w] = "push_read"] /\ "push_read" \in Labels
      /\ Pending(w) /\ Between(w)
  BY DEF SubmitLocal, Goto, At, Labels, Between, Pending
<1>3. UNCHANGED <<poolVars, dequeVars, statVars, task, arg, fresh, accepted, runs, raced, idx, victim, tries>>
  BY DEF SubmitLocal, dequeVars, ghostVars
<1> QED BY <1>1, <1>2, <1>3, ThreadQuiet DEF TypeOK

LEMMA GlobalFullStep ==
  ASSUME PoolInv, NEW p \in Threads, SubmitGlobalRead(p), Full(Global)
  PROVE  PoolInv'
<1> USE Basics
<1>1. TypeOK
  BY DEF PoolInv, PoolSafe
<1> DEFINE l == IF p \in Clients THEN "idle" ELSE "running"
<1>2. /\ pc[p] = "push_read" /\ pc' = [pc EXCEPT ![p] = l]
      /\ l \in Labels /\ l \in {"idle", "running"}
      /\ p \in Clients => l = "idle"
      /\ p \in Workers => l = "running" /\ Between(p)
  BY DEF SubmitGlobalRead, SubmitReturn, Goto, At, Labels, Between
<1>3. UNCHANGED <<poolVars, dequeVars, statVars, task, arg, fresh, accepted, runs, victim, tries>>
  BY DEF SubmitGlobalRead
<1>4. /\ raced' \in BOOLEAN /\ (raced => raced')
  BY <1>1 DEF SubmitGlobalRead, TypeOK
<1>5. idx' \in [Threads -> Nat] /\ \A t \in Threads : t # p => idx'[t] = idx[t]
  BY <1>1 DEF SubmitGlobalRead, TypeOK
<1> HIDE DEF l
<1> QED BY <1>1, <1>2, <1>3, <1>4, <1>5, ThreadQuiet DEF TypeOK

-----------------------------------------------------------------------------
(* Steps of pool_submit and of a worker that leave the deques alone.        *)

LEMMA EndsKept ==
  ASSUME UNCHANGED bottom,
         \A t \in Threads : pc'[t] \in {"push_put", "push_publish"} => pc'[t] = pc[t] /\ idx'[t] = idx[t]
  PROVE  \A q \in Queues : Ends(q)' \subseteq Ends(q)
<1>1. SUFFICES ASSUME NEW q \in Queues, NEW e \in Ends(q)' PROVE e \in Ends(q)
  OBVIOUS
<1>2. CASE e = bottom'[q]
  BY <1>2 DEF Ends
<1>3. ASSUME q = Global, NEW p \in Threads, pc'[p] = "push_put", e = idx'[p] PROVE e \in Ends(q)
  BY <1>3 DEF Ends, At
<1>4. ASSUME q = Global, NEW p \in Threads, pc'[p] = "push_publish", e = idx'[p] + 1 PROVE e \in Ends(q)
  <2>1. pc[p] = "push_publish" /\ e = idx[p] + 1
    BY <1>4
  <2> QED BY <1>4, <2>1 DEF Ends, At
<1> QED BY <1>1, <1>2, <1>3, <1>4 DEF Ends, At

LEMMA CleanKept ==
  ASSUME CleanInv, UNCHANGED <<dequeVars, runs>>, Queued' = Queued,
         \A t \in Threads : pc'[t] \in {"push_put", "push_publish", "count"} =>
           pc'[t] = pc[t] /\ idx'[t] = idx[t] /\ arg'[t] = arg[t],
         \A w \in Workers : pc'[w] = "steal_cas" =>
           pc[w] = "steal_cas" /\ idx'[w] = idx[w] /\ task'[w] = task[w] /\ victim'[w] = victim[w]
  PROVE  CleanInv'
<1>1. UNCHANGED <<top, bottom, items, runs>>
  BY DEF dequeVars
<1>2. \A w \in Workers : Winning(w)' =>
        Winning(w) /\ task'[w] = task[w] /\ victim'[w] = victim[w]
  BY <1>1 DEF Winning, At
<1>3. /\ \A p, q \in Threads : PushingGlobal(p)' /\ PushingGlobal(q)' => p = q
      /\ \A p \in Threads : PushingGlobal(p)' => idx'[p] = bottom'[Global]
  BY <1>1 DEF CleanInv, PushingGlobal
<1>4. \A p \in Threads : At(p, "push_publish")' =>
        items'[Global][Slot(Global, bottom'[Global])] = arg'[p]
  BY <1>1 DEF CleanInv, At
<1>5. \A w \in Workers : Winning(w)' =>
      /\ top'[victim'[w]] < bottom'[victim'[w]]
      /\ task'[w] = items'[victim'[w]][Slot(victim'[w], top'[victim'[w]])]
  BY <1>1, <1>2 DEF CleanInv
<1>6. \A p \in Threads : At(p, "count")' => arg'[p] \in Queued' \/ runs'[arg'[p]] > 0
  BY <1>1 DEF CleanInv, At
<1>7. \A q \in Queues : top'[q] <= bottom'[q]
  BY <1>1 DEF CleanInv
<1> QED BY <1>3, <1>4, <1>5, <1>6, <1>7 DEF CleanInv

(* pool_submit begins. *)
LEMMA CheckStep ==
  ASSUME PoolInv, NEW p \in Threads, NEW x \in Tasks, SubmitCheck(p, x)
  PROVE  PoolInv'
<1> USE Basics
<1>1. /\ TypeOK /\ RunOnce /\ LostOnlyByRace /\ TasksAccounted /\ PhaseInv /\ FreedAfterExit
      /\ UnplacedInv /\ PlacedInv /\ WindowInv /\ ThiefInv
      /\ ~raced => CleanInv
  BY DEF PoolInv, PoolSafe
<1>2. /\ x \in fresh /\ fresh' = fresh \ {x}
      /\ UNCHANGED <<phase, next, is_running, should_exit, top, bottom, items, task, idx, victim, tries>>
      /\ UNCHANGED <<total_submitted, total_completed, accepted, runs, raced>>
  BY DEF SubmitCheck, poolVars, dequeVars, statVars
<1>3. CASE is_running
  <2> DEFINE l == IF p \in Clients THEN "push_read" ELSE "push_local"
  <2>1. /\ arg' = [arg EXCEPT ![p] = x] /\ pc' = [pc EXCEPT ![p] = l]
        /\ l \in Labels /\ l \in {"push_local", "push_read"} /\ (p \in Clients => l = "push_read")
        /\ p \in Clients => pc[p] = "idle"
        /\ p \in Workers => pc[p] = "running"
    BY <1>3 DEF SubmitCheck, Goto, At, Labels
  <2> HIDE DEF l
  <2>2. /\ pc' \in [Threads -> Labels] /\ pc'[p] = l
        /\ \A t \in Threads : t # p => pc'[t] = pc[t]
    BY <2>1, LabelStep
  <2>3. /\ arg' \in [Threads -> Tasks \cup {NoTask}] /\ arg'[p] = x
        /\ \A t \in Threads : t # p => arg'[t] = arg[t]
    BY <1>1, <2>1 DEF TypeOK
  <2>4. TypeOK'
    BY <1>1, <1>2, <2>2, <2>3 DEF TypeOK
  <2>5. \A w \in Workers : pc'[w] \in {"steal_read", "steal_cas"} => tries'[w] <= MaxSteals
    BY <1>1, <1>2, <2>1, <2>2 DEF PhaseInv
  <2>6. PhaseInv' /\ FreedAfterExit'
    BY <1>2, <2>1, <2>5, PhaseKept
  <2>7. \A t \in Threads : t # p => (Pending(t)' <=> Pending(t))
    BY <2>2 DEF Pending
  <2>8. Unplaced' \subseteq Unplaced
    BY <1>2, <2>3, <2>7 DEF Unplaced
  <2>9. /\ \A t \in Threads : Pending(t)' => arg'[t] \notin fresh'
        /\ \A t \in Threads : Pending(t)' \/ pc'[t] \in {"push_publish", "count"} => arg'[t] \in Tasks
    BY <1>1, <1>2, <2>1, <2>2, <2>3, <2>7 DEF UnplacedInv
  <2>10. \A t, u \in Threads : Pending(t)' /\ Pending(u)' /\ arg'[t] = arg'[u] => t = u
    BY <1>1, <1>2, <2>3, <2>7 DEF UnplacedInv
  <2>11. \A t \in Threads : pc'[t] \in {"push_put", "push_publish", "count", "steal_cas"} =>
           pc'[t] = pc[t] /\ idx'[t] = idx[t] /\ arg'[t] = arg[t]
    BY <1>2, <2>1, <2>2, <2>3
  <2>12. \A q \in Queues : Ends(q)' \subseteq Ends(q)
    BY <1>2, <2>11, EndsKept
  <2>13. \A t \in Threads : pc'[t] = "push_put" => idx'[t] < top[Global] + Cap(Global)
    BY <1>1, <2>11 DEF WindowInv, At
  <2>14. \A w \in Workers : pc'[w] = "steal_cas" =>
           pc[w] = "steal_cas" /\ idx'[w] = idx[w] /\ task'[w] = task[w] /\ victim'[w] = victim[w]
    BY <1>2, <2>11
  <2>15. UnplacedInv' /\ PlacedInv' /\ WindowInv' /\ ThiefInv' /\ RunOnce' /\ Queued' = Queued
    BY <1>2, <2>8, <2>9, <2>10, <2>12, <2>13, <2>14, DequesKept DEF dequeVars
  <2>16. ~raced' => CleanInv'
    BY <1>1, <1>2, <2>11, <2>14, <2>15, CleanKept DEF dequeVars
  <2>17. LostOnlyByRace'
    BY <1>1, <1>2, <2>15 DEF LostOnlyByRace, NoLostTask
  <2>18. TasksAccounted'
    <3>1. {t \in Threads : At(t, "count")}' = {t \in Threads : At(t, "count")}
      BY <2>1, <2>2 DEF At
    <3>2. {w \in Workers : Between(w)}' = {w \in Workers : Between(w)}
      BY <2>1, <2>2 DEF Between
    <3> QED BY <1>1, <1>2, <2>15, <3>1, <3>2 DEF TasksAccounted
  <2> QED BY <2>4, <2>6, <2>15, <2>16, <2>17, <2>18 DEF PoolInv, PoolSafe
<1>4. CASE ~is_running
  <2>1. UNCHANGED <<arg, pc>>
    BY <1>4 DEF SubmitCheck
  <2>2. TypeOK'
    BY <1>1, <1>2, <2>1 DEF TypeOK
  <2>3. PhaseInv' /\ FreedAfterExit'
    BY <1>1, <1>2, <2>1 DEF PhaseInv, FreedAfterExit, At
  <2>4. \A t \in Threads : Pending(t)' <=> Pending(t)
    BY <2>1 DEF Pending
  <2>5. Unplaced' \subseteq Unplaced
    BY <1>2, <2>1, <2>4 DEF Unplaced
  <2>6. /\ \A t \in Threads : Pending(t)' => arg'[t] \notin fresh'
        /\ \A t \in Threads : Pending(t)' \/ pc'[t] \in {"push_publish", "count"} => arg'[t] \in Tasks
        /\ \A t, u \in Threads : Pending(t)' /\ Pending(u)' /\ arg'[t] = arg'[u] => t = u
    BY <1>1, <1>2, <2>1, <2>4 DEF UnplacedInv
  <2>7. \A q \in Queues : Ends(q)' \subseteq Ends(q)
    BY <1>2, <2>1, EndsKept
  <2>8. \A t \in Threads : pc'[t] = "push_put" => idx'[t] < top[Global] + Cap(Global)
    BY <1>1, <1>2, <2>1 DEF WindowInv, At
  <2>9. UnplacedInv' /\ PlacedInv' /\ WindowInv' /\ ThiefInv' /\ RunOnce' /\ Queued' = Queued
    BY <1>2, <2>1, <2>5, <2>6, <2>7, <2>8, DequesKept DEF dequeVars
  <2>10. ~raced' => CleanInv'
    BY <1>1, <1>2, <2>1, <2>9, CleanKept DEF dequeVars
  <2>11. LostOnlyByRace'
    BY <1>1, <1>2, <2>9 DEF LostOnlyByRace, NoLostTask
  <2>12. TasksAccounted'
    BY <1>1, <1>2, <2>1, <2>9 DEF TasksAccounted, At, Between
  <2> QED BY <2>2, <2>3, <2>9, <2>10, <2>11, <2>12 DEF PoolInv, PoolSafe
<1> QED BY <1>3, <1>4

(* The loads of a push on the global deque, which is not full. *)
LEMMA GlobalReadStep ==
  ASSUME PoolInv, NEW p \in Threads, SubmitGlobalRead(p), ~Full(Global)
  PROVE  PoolInv'
<1> USE Basics
<1>1. /\ TypeOK /\ RunOnce /\ LostOnlyByRace /\ TasksAccounted /\ PhaseInv
      /\ UnplacedInv /\ WindowInv
      /\ ~raced => CleanInv
  BY DEF PoolInv, PoolSafe
<1>2. /\ pc[p] = "push_read" /\ pc' = [pc EXCEPT ![p] = "push_put"] /\ "push_put" \in Labels
      /\ idx' = [idx EXCEPT ![p] = bottom[Global]]
      /\ raced' = (raced \/ \E q \in Threads : PushingGlobal(q))
      /\ UNCHANGED <<phase, next, is_running, should_exit, top, bottom, items, task, arg, victim, tries>>
      /\ UNCHANGED <<total_submitted, total_completed, fresh, accepted, runs>>
  BY DEF SubmitGlobalRead, Goto, At, Labels, poolVars, dequeVars, statVars
<1>3. /\ pc' \in [Threads -> Labels] /\ pc'[p] = "push_put"
      /\ \A t \in Threads : t # p => pc'[t] = pc[t]
  BY <1>2, LabelStep
<1>4. /\ idx' \in [Threads -> Nat] /\ idx'[p] = bottom[Global]
      /\ \A t \in Threads : t # p => idx'[t] = idx[t]
  BY <1>1, <1>2 DEF TypeOK
<1>5. TypeOK'
  BY <1>1, <1>2, <1>3, <1>4 DEF TypeOK
<1>6. PhaseInv' /\ FreedAfterExit'
  <2>1. \A w \in Workers : pc'[w] \in {"steal_read", "steal_cas"} => tries'[w] <= MaxSteals
    BY <1>1, <1>2, <1>3 DEF PhaseInv
  <2> QED BY <1>2, <2>1, PhaseKept
<1>7. \A t \in Threads : Pending(t)' <=> Pending(t)
  BY <1>2, <1>3 DEF Pending
<1>8. Unplaced' \subseteq Unplaced
  BY <1>2, <1>7 DEF Unplaced
<1>9. /\ \A t \in Threads : Pending(t)' => arg'[t] \notin fresh'
      /\ \A t \in Threads : Pending(t)' \/ pc'[t] \in {"push_publish", "count"} => arg'[t] \in Tasks
      /\ \A t, u \in Threads : Pending(t)' /\ Pending(u)' /\ arg'[t] = arg'[u] => t = u
  BY <1>1, <1>2, <1>3, <1>7 DEF UnplacedInv
<1>10. \A q \in Queues : Ends(q)' \subseteq Ends(q)
  <2>1. SUFFICES ASSUME NEW q \in Queues, NEW e \in Ends(q)' PROVE e \in Ends(q)
    OBVIOUS
  <2>2. CASE e = bottom'[q]
    BY <1>2, <2>2 DEF Ends
  <2>3. ASSUME q = Global, NEW t \in Threads, pc'[t] = "push_put", e = idx'[t] PROVE e \in Ends(q)
    <3>1. CASE t = p
      BY <1>4, <2>3, <3>1 DEF Ends
    <3>2. CASE t # p
      BY <1>3, <1>4, <2>3, <3>2 DEF Ends, At
    <3> QED BY <3>1, <3>2
  <2>4. ASSUME q = Global, NEW t \in Threads, pc'[t] = "push_publish", e = idx'[t] + 1 PROVE e \in Ends(q)
    <3>1. pc[t] = "push_publish" /\ e = idx[t] + 1
      BY <1>3, <1>4, <2>4
    <3> QED BY <2>4, <3>1 DEF Ends, At
  <2> QED BY <2>1, <2>2, <2>3, <2>4 DEF Ends, At
<1>11. \A t \in Threads : pc'[t] = "push_put" => idx'[t] < top[Global] + Cap(Global)
  <2>1. bottom[Global] < top[Global] + Cap(Global)
    <3>1. bottom[Global] \in Nat /\ top[Global] \in Nat /\ Cap(Global) \in Nat
      BY <1>1, CapPositive DEF TypeOK
    <3> QED BY <3>1 DEF Full
  <2> QED BY <1>1, <1>3, <1>4, <2>1 DEF WindowInv, At
<1>12. \A w \in Workers : pc'[w] = "steal_cas" =>
         pc[w] = "steal_cas" /\ idx'[w] = idx[w] /\ task'[w] = task[w] /\ victim'[w] = victim[w]
  BY <1>2, <1>3, <1>4
<1>13. UnplacedInv' /\ PlacedInv' /\ WindowInv' /\ ThiefInv' /\ RunOnce' /\ Queued' = Queued
  BY <1>2, <1>8, <1>9, <1>10, <1>11, <1>12, DequesKept DEF dequeVars
<1>14. ~raced' => CleanInv'
  <2>1. SUFFICES ASSUME ~raced' PROVE CleanInv'
    OBVIOUS
  <2>2. CleanInv /\ \A t \in Threads : ~PushingGlobal(t)
    BY <1>1, <1>2, <2>1
  <2>3. \A t \in Threads : PushingGlobal(t)' => t = p
    BY <1>3, <2>2 DEF PushingGlobal
  <2>4. /\ \A t, u \in Threads : PushingGlobal(t)' /\ PushingGlobal(u)' => t = u
        /\ \A t \in Threads : PushingGlobal(t)' => idx'[t] = bottom'[Global]
        /\ \A t \in Threads : pc'[t] # "push_publish"
    BY <1>2, <1>3, <1>4, <2>2, <2>3 DEF PushingGlobal
  <2>5. \A w \in Workers : Winning(w)' => Winning(w)
    BY <1>2, <1>12 DEF Winning, At
  <2>6. \A w \in Workers : Winning(w)' =>
        /\ top'[victim'[w]] < bottom'[victim'[w]]
        /\ task'[w] = items'[victim'[w]][Slot(victim'[w], top'[victim'[w]])]
    BY <1>2, <2>2, <2>5 DEF CleanInv
  <2>7. \A t \in Threads : At(t, "count")' => arg'[t] \in Queued' \/ runs'[arg'[t]] > 0
    BY <1>2, <1>3, <1>13, <2>2 DEF CleanInv, At
  <2>8. \A q \in Queues : top'[q] <= bottom'[q]
    BY <1>2, <2>2 DEF CleanInv
  <2> QED BY <2>4, <2>6, <2>7, <2>8 DEF CleanInv, At
<1>15. LostOnlyByRace'
  BY <1>1, <1>2, <1>13 DEF LostOnlyByRace, NoLostTask
<1>16. TasksAccounted'
  <2>1. {t \in Threads : At(t, "count")}' = {t \in Threads : At(t, "count")}
    BY <1>2, <1>3 DEF At
  <2>2. {w \in Workers : Between(w)}' = {w \in Workers : Between(w)}
    BY <1>2, <1>3 DEF Between
  <2> QED BY <1>1, <1>2, <1>13, <2>1, <2>2 DEF TasksAccounted
<1> QED BY <1>5, <1>6, <1>13, <1>14, <1>15, <1>16 DEF PoolInv, PoolSafe

(* pool_submit counts the task and returns true, and a task returns. *)
LEMMA CountStep ==
  ASSUME PoolInv, NEW p \in Threads, SubmitCount(p)
  PROVE  PoolInv'
<1> USE Basics
<1>1. /\ TypeOK /\ RunOnce /\ LostOnlyByRace /\ TasksAccounted /\ PhaseInv
      /\ UnplacedInv /\ WindowInv
      /\ ~raced => CleanInv
  BY DEF PoolInv, PoolSafe
<1> DEFINE l == IF p \in Clients THEN "idle" ELSE "running"
<1>2. /\ pc[p] = "count" /\ pc' = [pc EXCEPT ![p] = l] /\ l \in Labels /\ l \in {"idle", "running"}
      /\ (p \in Clients => l = "idle") /\ (p \in Workers => l = "running")
      /\ total_submitted' = total_submitted + 1 /\ accepted' = accepted \cup {arg[p]}
      /\ UNCHANGED <<phase, next, is_running, should_exit, top, bottom, items, task, arg, idx, victim, tries>>
      /\ UNCHANGED <<total_completed, fresh, runs, raced>>
  BY DEF SubmitCount, SubmitReturn, Goto, At, Labels, poolVars, dequeVars
<1> HIDE DEF l
<1>3. /\ pc' \in [Threads -> Labels] /\ pc'[p] = l
      /\ \A t \in Threads : t # p => pc'[t] = pc[t]
  BY <1>2, LabelStep
<1>4. arg[p] \in Tasks
  BY <1>1, <1>2 DEF UnplacedInv
<1>5. TypeOK'
  <2>1. total_submitted' \in Nat /\ accepted' \in SUBSET Tasks
    BY <1>1, <1>2, <1>4 DEF TypeOK
  <2> QED BY <1>1, <1>2, <1>3, <2>1 DEF TypeOK
<1>6. PhaseInv' /\ FreedAfterExit'
  <2>1. \A w \in Workers : pc'[w] \in {"steal_read", "steal_cas"} => tries'[w] <= MaxSteals
    BY <1>1, <1>2, <1>3 DEF PhaseInv
  <2> QED BY <1>2, <2>1, PhaseKept
<1>7. \A t \in Threads : Pending(t)' <=> Pending(t)
  BY <1>2, <1>3 DEF Pending
<1>8. Unplaced' \subseteq Unplaced
  BY <1>2, <1>7 DEF Unplaced
<1>9. /\ \A t \in Threads : Pending(t)' => arg'[t] \notin fresh'
      /\ \A t \in Threads : Pending(t)' \/ pc'[t] \in {"push_publish", "count"} => arg'[t] \in Tasks
      /\ \A t, u \in Threads : Pending(t)' /\ Pending(u)' /\ arg'[t] = arg'[u] => t = u
  BY <1>1, <1>2, <1>3, <1>7 DEF UnplacedInv
<1>10. \A t \in Threads : pc'[t] \in {"push_put", "push_publish", "count", "steal_cas"} => t # p /\ pc'[t] = pc[t]
  BY <1>2, <1>3
<1>11. \A q \in Queues : Ends(q)' \subseteq Ends(q)
  BY <1>2, <1>10, EndsKept
<1>12. \A t \in Threads : pc'[t] = "push_put" => idx'[t] < top[Global] + Cap(Global)
  BY <1>1, <1>2, <1>10 DEF WindowInv, At
<1>13. UnplacedInv' /\ PlacedInv' /\ WindowInv' /\ ThiefInv' /\ RunOnce' /\ Queued' = Queued
  BY <1>2, <1>8, <1>9, <1>10, <1>11, <1>12, DequesKept DEF dequeVars
<1>14. ~raced' => CleanInv'
  BY <1>1, <1>2, <1>10, <1>13, CleanKept DEF dequeVars
<1>15. LostOnlyByRace'
  <2>1. ~raced => arg[p] \in Queued \/ runs[arg[p]] > 0
    BY <1>1, <1>2 DEF CleanInv, At
  <2> QED BY <1>1, <1>2, <1>13, <2>1 DEF LostOnlyByRace, NoLostTask
<1>16. TasksAccounted'
  <2> DEFINE S == {t \in Threads : At(t, "count")}
  <2>1. S' = S \ {p} /\ p \in S
    BY <1>2, <1>3 DEF At
  <2>2. {w \in Workers : Between(w)}' = {w \in Workers : Between(w)}
    BY <1>2, <1>3 DEF Between
  <2>3. Cardinality(S \ {p}) = Cardinality(S) - 1 /\ Cardinality(S) \in Nat
    BY <2>1, CountsFinite, FS_RemoveElement
  <2>4. total_submitted \in Nat
    BY <1>1 DEF TypeOK
  <2>5. total_submitted' + Cardinality(S)' = total_submitted + Cardinality(S)
    <3>1. Cardinality(S)' = Cardinality(S) - 1
      BY <2>1, <2>3
    <3> HIDE DEF S
    <3> QED BY <1>2, <2>3, <2>4, <3>1
  <2> QED BY <1>1, <1>2, <1>13, <2>2, <2>5 DEF TasksAccounted
<1> QED BY <1>5, <1>6, <1>13, <1>14, <1>15, <1>16 DEF PoolInv, PoolSafe

LEMMA FinishStep ==
  ASSUME PoolInv, NEW p \in Workers, WorkerFinish(p)
  PROVE  PoolInv'
<1> USE Basics
<1>1. /\ TypeOK /\ RunOnce /\ LostOnlyByRace /\ TasksAccounted /\ PhaseInv
      /\ UnplacedInv /\ WindowInv
      /\ ~raced => CleanInv
  BY DEF PoolInv, PoolSafe
<1>2. /\ pc[p] = "running" /\ pc' = [pc EXCEPT ![p] = "loop"] /\ "loop" \in Labels
      /\ total_completed' = total_completed + 1
      /\ task' = [task EXCEPT ![p] = NoTask]
      /\ UNCHANGED <<phase, next, is_running, should_exit, top, bottom, items, arg, idx, victim, tries>>
      /\ UNCHANGED <<total_submitted, accepted, fresh, runs, raced>>
  BY DEF WorkerFinish, Goto, At, Labels, poolVars, dequeVars, ghostVars
<1>3. /\ pc' \in [Threads -> Labels] /\ pc'[p] = "loop"
      /\ \A t \in Threads : t # p => pc'[t] = pc[t]
  BY <1>2, LabelStep
<1>4. task' \in [Workers -> Tasks \cup {NoTask}] /\ \A w \in Workers : w # p => task'[w] = task[w]
  BY <1>1, <1>2 DEF TypeOK
<1>5. TypeOK'
  <2>1. total_completed' \in Nat
    BY <1>1, <1>2 DEF TypeOK
  <2> QED BY <1>1, <1>2, <1>3, <1>4, <2>1 DEF TypeOK
<1>6. PhaseInv' /\ FreedAfterExit'
  <2>1. \A w \in Workers : pc'[w] \in {"steal_read", "steal_cas"} => tries'[w] <= MaxSteals
    BY <1>1, <1>2, <1>3 DEF PhaseInv
  <2> QED BY <1>2, <2>1, PhaseKept
<1>7. \A t \in Threads : Pending(t)' <=> Pending(t)
  BY <1>2, <1>3 DEF Pending
<1>8. Unplaced' \subseteq Unplaced
  BY <1>2, <1>7 DEF Unplaced
<1>9. /\ \A t \in Threads : Pending(t)' => arg'[t] \notin fresh'
      /\ \A t \in Threads : Pending(t)' \/ pc'[t] \in {"push_publish", "count"} => arg'[t] \in Tasks
      /\ \A t, u \in Threads : Pending(t)' /\ Pending(u)' /\ arg'[t] = arg'[u] => t = u
  BY <1>1, <1>2, <1>3, <1>7 DEF UnplacedInv
<1>10. \A t \in Threads : pc'[t] \in {"push_put", "push_publish", "count", "steal_cas"} => t # p /\ pc'[t] = pc[t]
  BY <1>2, <1>3
<1>11. \A q \in Queues : Ends(q)' \subseteq Ends(q)
  BY <1>2, <1>10, EndsKept
<1>12. \A t \in Threads : pc'[t] = "push_put" => idx'[t] < top[Global] + Cap(Global)
  BY <1>1, <1>2, <1>10 DEF WindowInv, At
<1>13. \A w \in Workers : pc'[w] = "steal_cas" =>
         pc[w] = "steal_cas" /\ idx'[w] = idx[w] /\ task'[w] = task[w] /\ victim'[w] = victim[w]
  BY <1>2, <1>4, <1>10
<1>14. UnplacedInv' /\ PlacedInv' /\ WindowInv' /\ ThiefInv' /\ RunOnce' /\ Queued' = Queued
  BY <1>2, <1>8, <1>9, <1>11, <1>12, <1>13, DequesKept DEF dequeVars
<1>15. ~raced' => CleanInv'
  BY <1>1, <1>2, <1>10, <1>13, <1>14, CleanKept DEF dequeVars
<1>16. LostOnlyByRace'
  BY <1>1, <1>2, <1>14 DEF LostOnlyByRace, NoLostTask
<1>17. TasksAccounted'
  <2> DEFINE S == {w \in Workers : Between(w)}
  <2>1. S' = S \ {p} /\ p \in S
    BY <1>2, <1>3 DEF Between
  <2>2. {t \in Threads : At(t, "count")}' = {t \in Threads : At(t, "count")}
    BY <1>2, <1>3 DEF At
  <2>3. Cardinality(S \ {p}) = Cardinality(S) - 1 /\ Cardinality(S) \in Nat
    BY <2>1, CountsFinite, FS_RemoveElement
  <2>4. total_completed \in Nat /\ Cardinality(Queued) \in Nat
    BY <1>1, QueuedFinite DEF TypeOK
  <2>5. Cardinality(Queued) + total_completed' + Cardinality(S)' = Cardinality(Queued) + total_completed + Cardinality(S)
    <3>1. Cardinality(S)' = Cardinality(S) - 1
      BY <2>1, <2>3
    <3> HIDE DEF S
    <3> QED BY <1>2, <2>3, <2>4, <3>1
  <2> QED BY <1>1, <1>2, <1>14, <2>2, <2>5 DEF TasksAccounted
<1> QED BY <1>5, <1>6, <1>14, <1>15, <1>16, <1>17 DEF PoolInv, PoolSafe

-----------------------------------------------------------------------------
(* Pushes.                                                                  *)

(* A task that was being submitted is written into a slot. *)
LEMMA TaskWritten ==
  ASSUME PoolInv, NEW p \in Threads, Pending(p), NEW q \in Queues, NEW s \in Slots(q),
         items' = [items EXCEPT ![q][s] = arg[p]],
         NEW l \in {"push_publish", "count"}, pc' = [pc EXCEPT ![p] = l],
         UNCHANGED <<top, runs, arg, idx, task, victim, fresh>>
  PROVE  /\ \A r \in Queues : items'[r] \in [Slots(r) -> Tasks \cup {NoTask}]
         /\ items'[q][s] = arg[p]
         /\ \A r \in Queues : \A m \in Slots(r) : r # q \/ m # s => items'[r][m] = items[r][m]
         /\ arg[p] \in Tasks /\ runs[arg[p]] = 0
         /\ \A r \in Queues : \A m \in Slots(r) : items[r][m] # arg[p]
         /\ UnplacedInv' /\ PlacedInv' /\ ThiefInv' /\ RunOnce'
<1> USE Basics
<1>1. TypeOK /\ UnplacedInv /\ PlacedInv /\ ThiefInv /\ RunOnce
  BY DEF PoolInv, PoolSafe
<1>2. DOMAIN items = Queues /\ \A r \in Queues : items[r] \in [Slots(r) -> Tasks \cup {NoTask}]
  BY <1>1 DEF TypeOK, Slots
<1>3. arg[p] \in Unplaced /\ arg[p] \in Tasks /\ arg[p] \notin fresh
  BY <1>1 DEF UnplacedInv, Unplaced
<1>4. /\ runs[arg[p]] = 0
      /\ \A r \in Queues : \A m \in Slots(r) : items[r][m] # arg[p]
      /\ \A w \in Workers : pc[w] = "steal_cas" => task[w] # arg[p]
  BY <1>1, <1>3 DEF UnplacedInv, At
<1>5. /\ DOMAIN items' = Queues
      /\ items'[q] = [items[q] EXCEPT ![s] = arg[p]]
      /\ \A r \in Queues : r # q => items'[r] = items[r]
  BY <1>2
<1>6. items'[q] \in [Slots(q) -> Tasks \cup {NoTask}] /\ items'[q][s] = arg[p]
      /\ \A m \in Slots(q) : m # s => items'[q][m] = items[q][m]
  BY <1>2, <1>3, <1>5
<1>7. /\ \A r \in Queues : items'[r] \in [Slots(r) -> Tasks \cup {NoTask}]
      /\ \A r \in Queues : \A m \in Slots(r) : r # q \/ m # s => items'[r][m] = items[r][m]
  BY <1>2, <1>5, <1>6
<1>8. /\ l \in Labels /\ pc'[p] = l
      /\ \A t \in Threads : t # p => pc'[t] = pc[t]
  BY LabelStep DEF Labels
<1>9. /\ ~Pending(p)'
      /\ \A t \in Threads : t # p => (Pending(t)' <=> Pending(t))
  BY <1>8 DEF Pending
<1>10. Unplaced' \subseteq Unplaced /\ arg[p] \notin Unplaced'
  BY <1>1, <1>3, <1>9 DEF Unplaced, UnplacedInv
<1>11. \A w \in Workers : pc'[w] = "steal_cas" => pc[w] = "steal_cas"
  BY <1>8
<1>12. UnplacedInv'
  <2>1. \A t \in Threads : Pending(t)' => arg'[t] \notin fresh'
    BY <1>1, <1>9 DEF UnplacedInv
  <2>2. \A t \in Threads : Pending(t)' \/ pc'[t] \in {"push_publish", "count"} => arg'[t] \in Tasks
    BY <1>1, <1>3, <1>8, <1>9 DEF UnplacedInv
  <2>3. \A t, u \in Threads : Pending(t)' /\ Pending(u)' /\ arg'[t] = arg'[u] => t = u
    BY <1>1, <1>9 DEF UnplacedInv
  <2>4. ASSUME NEW x \in Unplaced' PROVE runs'[x] = 0
    BY <1>1, <1>10, <2>4 DEF UnplacedInv
  <2>5. ASSUME NEW x \in Unplaced', NEW r \in Queues, NEW m \in Slots(r) PROVE items'[r][m] # x
    <3>1. x \in Unplaced /\ x # arg[p]
      BY <1>10, <2>5
    <3>2. items[r][m] # x
      BY <1>1, <2>5, <3>1 DEF UnplacedInv
    <3>3. items'[r][m] = items[r][m] \/ items'[r][m] = arg[p]
      BY <1>6, <1>7, <2>5
    <3> QED BY <3>1, <3>2, <3>3
  <2>6. ASSUME NEW x \in Unplaced', NEW w \in Workers, pc'[w] = "steal_cas" PROVE task'[w] # x
    BY <1>1, <1>10, <1>11, <2>6 DEF UnplacedInv, At
  <2> QED BY <2>1, <2>2, <2>3, <2>4, <2>5, <2>6 DEF UnplacedInv, At
<1>13. PlacedInv'
  <2>1. SUFFICES ASSUME NEW r1 \in Queues, NEW r2 \in Queues, NEW m1 \in Slots(r1), NEW m2 \in Slots(r2),
                        items'[r1][m1] = items'[r2][m2], items'[r1][m1] # NoTask
                 PROVE  r1 = r2 /\ m1 = m2
    BY DEF PlacedInv
  <2>2. CASE (r1 # q \/ m1 # s) /\ (r2 # q \/ m2 # s)
    <3>1. items[r1][m1] = items[r2][m2] /\ items[r1][m1] # NoTask
      BY <1>7, <2>1, <2>2
    <3> QED BY <1>1, <3>1 DEF PlacedInv
  <2>3. CASE r1 = q /\ m1 = s /\ (r2 # q \/ m2 # s)
    BY <1>4, <1>6, <1>7, <2>1, <2>3
  <2>4. CASE r2 = q /\ m2 = s /\ (r1 # q \/ m1 # s)
    BY <1>4, <1>6, <1>7, <2>1, <2>4
  <2> QED BY <2>2, <2>3, <2>4
<1>14. ThiefInv'
  <2>1. \A w \in Workers : Winning(w)' => Winning(w) /\ task[w] # arg[p]
    BY <1>4, <1>11 DEF Winning, At
  <2>2. \A w \in Workers : At(w, "steal_cas")' => idx'[w] <= top'[victim'[w]] /\ task'[w] \in Tasks
    BY <1>1, <1>11 DEF ThiefInv, At
  <2>3. ASSUME NEW w \in Workers, Winning(w)' PROVE runs'[task'[w]] = 0
    BY <1>1, <2>1, <2>3 DEF ThiefInv
  <2>4. ASSUME NEW w \in Workers, Winning(w)', NEW r \in Queues, NEW m \in Slots(r), items'[r][m] = task'[w]
        PROVE  r = victim'[w] /\ m = Slot(r, idx'[w])
    <3>1. items[r][m] = task[w] /\ Winning(w)
      BY <1>6, <1>7, <2>1, <2>4
    <3> QED BY <1>1, <3>1 DEF ThiefInv
  <2>5. \A v, w \in Workers :
          Winning(v)' /\ Winning(w)' /\ task'[v] = task'[w] => victim'[v] = victim'[w]
    <3>1. \A v, w \in Workers : Winning(v) /\ Winning(w) /\ task[v] = task[w] => victim[v] = victim[w]
      BY <1>1 DEF ThiefInv
    <3> QED BY <2>1, <3>1
  <2> QED BY <2>2, <2>3, <2>4, <2>5 DEF ThiefInv
<1>15. RunOnce'
  BY <1>1 DEF RunOnce
<1> QED BY <1>3, <1>4, <1>6, <1>7, <1>12, <1>13, <1>14, <1>15

(* What is waiting, by deque and index. *)
LEMMA QueuedMember ==
  ASSUME NEW x
  PROVE  x \in Queued <=> \E q \in Queues : \E i \in top[q] .. bottom[q] - 1 : x = items[q][Slot(q, i)]
BY DEF Queued, QueuedIn

(* A worker pushes on its own deque, which is not full. *)
LEMMA LocalPushStep ==
  ASSUME PoolInv, NEW w \in Workers, SubmitLocal(w), ~Full(w)
  PROVE  PoolInv'
<1> USE Basics
<1>1. /\ TypeOK /\ LostOnlyByRace /\ TasksAccounted /\ PhaseInv
      /\ UnplacedInv /\ WindowInv /\ PlacedInv
      /\ ~raced => CleanInv
  BY DEF PoolInv, PoolSafe
<1> DEFINE s == Slot(w, bottom[w])
           y == arg[w]
<1>2. /\ pc[w] = "push_local" /\ pc' = [pc EXCEPT ![w] = "count"] /\ "count" \in Labels /\ Pending(w)
      /\ items' = [items EXCEPT ![w][s] = y]
      /\ bottom' = [bottom EXCEPT ![w] = bottom[w] + 1]
      /\ UNCHANGED <<phase, next, is_running, should_exit, top, task, arg, idx, victim, tries>>
      /\ UNCHANGED <<total_submitted, total_completed, fresh, accepted, runs, raced>>
  BY DEF SubmitLocal, Write, Goto, At, Labels, Pending, poolVars, statVars, ghostVars
<1>3. /\ bottom[w] \in Nat /\ top[w] \in Nat /\ Cap(w) \in Nat \ {0} /\ bottom[w] < top[w] + Cap(w)
  <2>1. /\ bottom[w] \in Nat /\ top[w] \in Nat /\ Cap(w) \in Nat \ {0}
    BY <1>1, CapPositive DEF TypeOK
  <2> QED BY <2>1 DEF Full
<1>4. s \in Slots(w)
  BY <1>3, SlotInRange
<1>5. /\ pc' \in [Threads -> Labels] /\ pc'[w] = "count"
      /\ \A t \in Threads : t # w => pc'[t] = pc[t]
  BY <1>2, LabelStep
<1>6. /\ bottom' \in [Queues -> Nat] /\ bottom'[w] = bottom[w] + 1
      /\ \A q \in Queues : q # w => bottom'[q] = bottom[q]
  <2>1. bottom \in [Queues -> Nat] /\ w \in Queues /\ bottom[w] + 1 \in Nat
    BY SMTT(30), <1>1, <1>3 DEF TypeOK
  <2> QED BY <1>2, <2>1
<1> HIDE DEF s
<1>7. /\ \A r \in Queues : items'[r] \in [Slots(r) -> Tasks \cup {NoTask}]
      /\ items'[w][s] = y
      /\ \A r \in Queues : \A m \in Slots(r) : r # w \/ m # s => items'[r][m] = items[r][m]
      /\ y \in Tasks /\ runs[y] = 0
      /\ \A r \in Queues : \A m \in Slots(r) : items[r][m] # y
      /\ UnplacedInv' /\ PlacedInv' /\ ThiefInv' /\ RunOnce'
  BY <1>2, <1>4, TaskWritten
<1> HIDE DEF y
<1>8. TypeOK'
  <2>1. DOMAIN items' = Queues
    BY <1>1, <1>2 DEF TypeOK
  <2> QED BY <1>1, <1>2, <1>5, <1>6, <1>7, <2>1 DEF TypeOK, Slots
<1>9. PhaseInv' /\ FreedAfterExit'
  <2>1. \A u \in Workers : pc'[u] \in {"steal_read", "steal_cas"} => tries'[u] <= MaxSteals
    BY <1>1, <1>2, <1>5 DEF PhaseInv
  <2> QED BY <1>2, <2>1, PhaseKept
<1>10. \A t \in Threads : pc'[t] \in {"push_put", "push_publish", "steal_cas"} => t # w /\ pc'[t] = pc[t]
  BY <1>5
(* Below bottom nothing changes. *)
<1>11. ASSUME NEW q \in Queues, NEW i \in Nat, i >= top[q], i < bottom[q]
       PROVE  items'[q][Slot(q, i)] = items[q][Slot(q, i)]
  <2>1. Slot(q, i) \in Slots(q)
    BY <1>11, SlotInRange
  <2>2. CASE q = w
    <3>1. i # bottom[w] /\ i < bottom[w] + Cap(w) /\ bottom[w] < i + Cap(w)
      BY <1>3, <1>11, <2>2
    <3>2. Slot(w, i) # s
      BY <1>3, <3>1, SlotDistinct DEF s
    <3> QED BY <1>7, <2>1, <2>2, <3>2
  <2>3. CASE q # w
    BY <1>7, <2>1, <2>3
  <2> QED BY <2>2, <2>3
<1>12. WindowInv'
  <2>1. ASSUME NEW q \in Queues, q # w PROVE Ends(q)' \subseteq Ends(q)
    <3>1. SUFFICES ASSUME NEW e \in Ends(q)' PROVE e \in Ends(q)
      OBVIOUS
    <3>2. CASE e = bottom'[q]
      BY <1>6, <2>1, <3>2 DEF Ends
    <3>3. ASSUME q = Global, NEW t \in Threads, pc'[t] = "push_put", e = idx'[t] PROVE e \in Ends(q)
      BY <1>2, <1>10, <3>3 DEF Ends, At
    <3>4. ASSUME q = Global, NEW t \in Threads, pc'[t] = "push_publish", e = idx'[t] + 1 PROVE e \in Ends(q)
      BY <1>2, <1>10, <3>4 DEF Ends, At
    <3> QED BY <3>1, <3>2, <3>3, <3>4 DEF Ends, At
  <2>2. ASSUME NEW q \in Queues, NEW e \in Ends(q)'
        PROVE  /\ e <= top'[q] + Cap(q)
               /\ \A i \in top'[q] .. e - 1 :
                    items'[q][Slot(q, i)] \in Tasks /\ runs'[items'[q][Slot(q, i)]] = 0
    <3>1. CASE q # w
      <4>1. /\ e <= top[q] + Cap(q)
            /\ \A i \in top[q] .. e - 1 :
                    items[q][Slot(q, i)] \in Tasks /\ runs[items[q][Slot(q, i)]] = 0
        BY <1>1, <2>1, <2>2, <3>1 DEF WindowInv
      <4>2. \A i \in top[q] .. e - 1 : i \in Nat
        BY SMTT(30), <1>1 DEF TypeOK
      <4>3. \A i \in top[q] .. e - 1 : items'[q][Slot(q, i)] = items[q][Slot(q, i)]
        BY <1>7, <3>1, <4>2, SlotInRange
      <4> QED BY <1>2, <4>1, <4>3
    <3>2. CASE q = w
      <4>1. e = bottom[w] + 1 /\ bottom[w] \in Ends(w)
        BY <1>6, <2>2, <3>2 DEF Ends
      <4>2. e <= top'[w] + Cap(w)
        BY <1>2, <1>3, <4>1
      <4>3. ASSUME NEW i \in top[w] .. e - 1
            PROVE  items'[w][Slot(w, i)] \in Tasks /\ runs'[items'[w][Slot(w, i)]] = 0
        <5>1. CASE i = bottom[w]
          BY <1>2, <1>7, <5>1 DEF s
        <5>2. CASE i # bottom[w]
          <6>1. i \in Nat /\ i >= top[w] /\ i < bottom[w] /\ i \in top[w] .. bottom[w] - 1
            BY <1>3, <4>1, <4>3, <5>2
          <6>2. items'[w][Slot(w, i)] = items[w][Slot(w, i)]
            BY <1>11, <6>1
          <6>3. items[w][Slot(w, i)] \in Tasks /\ runs[items[w][Slot(w, i)]] = 0
            BY <1>1, <4>1, <6>1 DEF WindowInv
          <6> QED BY <1>2, <6>2, <6>3
        <5> QED BY <5>1, <5>2
      <4> QED BY <1>2, <3>2, <4>2, <4>3
    <3> QED BY <3>1, <3>2
  <2>3. \A t \in Threads : At(t, "push_put")' => idx'[t] < top'[Global] + Cap(Global)
    BY <1>1, <1>2, <1>10 DEF WindowInv, At
  <2> QED BY <2>2, <2>3 DEF WindowInv
<1>13. ASSUME ~raced PROVE Queued' = Queued \cup {y} /\ y \notin Queued
  <2>1. CleanInv /\ top[w] <= bottom[w]
    BY <1>1, <1>13 DEF CleanInv
  <2>2. \A q \in Queues : top[q] \in Nat /\ bottom[q] \in Nat
    BY <1>1 DEF TypeOK
  <2>3. ASSUME NEW x \in Queued PROVE x \in Queued' /\ x # y
    <3>1. PICK q \in Queues : \E i \in top[q] .. bottom[q] - 1 : x = items[q][Slot(q, i)]
      BY <2>3, QueuedMember
    <3>2. PICK i \in top[q] .. bottom[q] - 1 : x = items[q][Slot(q, i)]
      BY <3>1
    <3>3. i \in Nat /\ i >= top[q] /\ i < bottom[q] /\ i \in top'[q] .. bottom'[q] - 1
      <4>1. bottom'[q] = bottom[q] \/ bottom'[q] = bottom[q] + 1
        BY <1>6
      <4> QED BY <1>2, <2>2, <4>1
    <3>4. x = items'[q][Slot(q, i)] /\ x # y
      BY <1>7, <1>11, <3>2, <3>3, SlotInRange
    <3>5. x \in QueuedIn(q)'
      BY <3>3, <3>4 DEF QueuedIn
    <3> QED BY <3>4, <3>5 DEF Queued
  <2>4. y \in Queued'
    <3>1. bottom[w] \in top'[w] .. bottom'[w] - 1
      BY <1>2, <1>3, <1>6, <2>1
    <3>2. y = items'[w][Slot(w, bottom[w])]
      BY <1>7 DEF s
    <3> QED BY <3>1, <3>2 DEF Queued, QueuedIn
  <2>5. ASSUME NEW x \in Queued' PROVE x \in Queued \/ x = y
    <3>1. PICK q \in Queues : \E i \in top'[q] .. bottom'[q] - 1 : x = items'[q][Slot(q, i)]
      BY <2>5 DEF Queued, QueuedIn
    <3>2. PICK i \in top'[q] .. bottom'[q] - 1 : x = items'[q][Slot(q, i)]
      BY <3>1
    <3>3. CASE q = w /\ i = bottom[w]
      BY <1>7, <3>2, <3>3 DEF s
    <3>4. CASE ~(q = w /\ i = bottom[w])
      <4>1. i \in Nat /\ i >= top[q] /\ i < bottom[q] /\ i \in top[q] .. bottom[q] - 1
        <5>1. CASE q = w
          BY <1>2, <1>6, <2>2, <3>4, <5>1
        <5>2. CASE q # w
          BY <1>2, <1>6, <2>2, <5>2
        <5> QED BY <5>1, <5>2
      <4> QED BY <1>11, <3>2, <4>1, QueuedMember
    <3> QED BY <3>3, <3>4
  <2> QED BY <2>3, <2>4, <2>5
<1>14. ~raced' => CleanInv'
  <2>1. SUFFICES ASSUME ~raced' PROVE CleanInv'
    OBVIOUS
  <2>2. CleanInv /\ Queued' = Queued \cup {y}
    BY <1>1, <1>2, <1>13, <2>1
  <2>3. bottom'[Global] = bottom[Global]
    BY <1>6
  <2>4. /\ \A t, u \in Threads : PushingGlobal(t)' /\ PushingGlobal(u)' => t = u
        /\ \A t \in Threads : PushingGlobal(t)' => idx'[t] = bottom'[Global]
    BY <1>2, <1>10, <2>2, <2>3 DEF CleanInv, PushingGlobal
  <2>5. \A t \in Threads : At(t, "push_publish")' =>
          items'[Global][Slot(Global, bottom'[Global])] = arg'[t]
    <3>1. Slot(Global, bottom[Global]) \in Slots(Global)
      BY <1>1, SlotInRange DEF TypeOK
    <3> QED BY <1>2, <1>7, <1>10, <2>2, <2>3, <3>1 DEF CleanInv, At
  <2>6. \A q \in Queues : top'[q] <= bottom'[q]
    <3>1. \A q \in Queues : top[q] \in Nat /\ bottom[q] \in Nat /\ top[q] <= bottom[q]
      BY <1>1, <2>2 DEF TypeOK, CleanInv
    <3> QED BY <1>2, <1>6, <3>1
  <2>7. ASSUME NEW u \in Workers, Winning(u)'
        PROVE  /\ top'[victim'[u]] < bottom'[victim'[u]]
               /\ task'[u] = items'[victim'[u]][Slot(victim'[u], top'[victim'[u]])]
    <3>1. Winning(u)
      BY <1>2, <1>10, <2>7 DEF Winning, At
    <3> DEFINE v == victim[u]
    <3>2. v \in Queues /\ top[v] \in Nat /\ bottom[v] \in Nat
      BY <1>1 DEF TypeOK
    <3>3. top[v] < bottom[v] /\ task[u] = items[v][Slot(v, top[v])]
      BY <2>2, <3>1 DEF CleanInv
    <3> HIDE DEF v
    <3>4. items'[v][Slot(v, top[v])] = items[v][Slot(v, top[v])]
      BY <1>11, <3>2, <3>3
    <3>5. bottom'[v] = bottom[v] \/ bottom'[v] = bottom[v] + 1
      BY <1>6, <3>2
    <3>6. top[v] < bottom'[v]
      BY <3>2, <3>3, <3>5
    <3> QED BY <1>2, <3>3, <3>4, <3>6 DEF v
  <2>8. \A t \in Threads : At(t, "count")' => arg'[t] \in Queued' \/ runs'[arg'[t]] > 0
    BY <1>2, <1>5, <2>2 DEF CleanInv, At, y
  <2> QED BY <2>4, <2>5, <2>6, <2>7, <2>8 DEF CleanInv
<1>15. LostOnlyByRace'
  BY <1>1, <1>2, <1>13 DEF LostOnlyByRace, NoLostTask
<1>16. TasksAccounted'
  <2>1. SUFFICES ASSUME ~raced' PROVE TasksAccounted'
    BY DEF TasksAccounted
  <2> DEFINE S == {t \in Threads : At(t, "count")}
             B == {u \in Workers : Between(u)}
  <2>2. S' = S \cup {w} /\ w \notin S
    BY <1>2, <1>5 DEF At
  <2>3. B' = B
    BY <1>2, <1>5 DEF Between
  <2>4. Cardinality(S \cup {w}) = Cardinality(S) + 1 /\ Cardinality(S) \in Nat /\ Cardinality(B) \in Nat
    BY <2>2, CountsFinite, FS_AddElement
  <2>5. Queued' = Queued \cup {y} /\ y \notin Queued
    BY <1>2, <1>13, <2>1
  <2>6. Cardinality(Queued \cup {y}) = Cardinality(Queued) + 1 /\ Cardinality(Queued) \in Nat
    BY <1>1, <2>5, QueuedFinite, FS_AddElement
  <2>7. total_submitted + Cardinality(S) = Cardinality(Queued) + total_completed + Cardinality(B)
    BY <1>1, <1>2, <2>1 DEF TasksAccounted
  <2>8. /\ Cardinality(S') = Cardinality(S) + 1 /\ Cardinality(B') = Cardinality(B)
        /\ Cardinality(Queued') = Cardinality(Queued) + 1
    BY <2>2, <2>3, <2>4, <2>5, <2>6
  <2>9. total_submitted \in Nat /\ total_completed \in Nat
    BY <1>1 DEF TypeOK
  <2> HIDE DEF S, B
  <2>10. total_submitted' + Cardinality(S') = Cardinality(Queued') + total_completed' + Cardinality(B')
    BY <1>2, <2>4, <2>6, <2>7, <2>8, <2>9
  <2> QED BY <2>10 DEF TasksAccounted, S, B
<1> QED BY <1>7, <1>8, <1>9, <1>12, <1>14, <1>15, <1>16 DEF PoolInv, PoolSafe

(* The write of a push on the global deque, however stale its index. *)
LEMMA GlobalPutStep ==
  ASSUME PoolInv, NEW p \in Threads, SubmitGlobalPut(p)
  PROVE  PoolInv'
<1> USE Basics
<1>1. /\ TypeOK /\ LostOnlyByRace /\ TasksAccounted /\ PhaseInv
      /\ UnplacedInv /\ WindowInv /\ PlacedInv
      /\ ~raced => CleanInv
  BY DEF PoolInv, PoolSafe
<1> DEFINE s == Slot(Global, idx[p])
           y == arg[p]
<1>2. /\ pc[p] = "push_put" /\ pc' = [pc EXCEPT ![p] = "push_publish"] /\ "push_publish" \in Labels
      /\ Pending(p) /\ items' = [items EXCEPT ![Global][s] = y]
      /\ UNCHANGED <<phase, next, is_running, should_exit, top, bottom, task, arg, idx, victim, tries>>
      /\ UNCHANGED <<total_submitted, total_completed, fresh, accepted, runs, raced>>
  BY DEF SubmitGlobalPut, Write, Goto, At, Labels, Pending, poolVars, statVars, ghostVars
<1>3. /\ bottom[Global] \in Nat /\ top[Global] \in Nat /\ Cap(Global) \in Nat \ {0} /\ idx[p] \in Nat
      /\ idx[p] < top[Global] + Cap(Global)
  BY <1>1, <1>2, CapPositive DEF TypeOK, WindowInv, At
<1>4. s \in Slots(Global)
  BY <1>3, SlotInRange
<1>5. /\ pc' \in [Threads -> Labels] /\ pc'[p] = "push_publish"
      /\ \A t \in Threads : t # p => pc'[t] = pc[t]
  BY <1>2, LabelStep
<1> HIDE DEF s
<1>6. /\ \A r \in Queues : items'[r] \in [Slots(r) -> Tasks \cup {NoTask}]
      /\ items'[Global][s] = y
      /\ \A r \in Queues : \A m \in Slots(r) : r # Global \/ m # s => items'[r][m] = items[r][m]
      /\ y \in Tasks /\ runs[y] = 0
      /\ \A r \in Queues : \A m \in Slots(r) : items[r][m] # y
      /\ UnplacedInv' /\ PlacedInv' /\ ThiefInv' /\ RunOnce'
  BY <1>2, <1>4, TaskWritten
<1>7. TypeOK'
  <2>1. DOMAIN items' = Queues
    BY <1>1, <1>2 DEF TypeOK
  <2> QED BY <1>1, <1>2, <1>5, <1>6, <2>1 DEF TypeOK, Slots
<1>8. PhaseInv' /\ FreedAfterExit'
  <2>1. \A u \in Workers : pc'[u] \in {"steal_read", "steal_cas"} => tries'[u] <= MaxSteals
    BY <1>1, <1>2, <1>5 DEF PhaseInv
  <2> QED BY <1>2, <2>1, PhaseKept
<1>9. \A t \in Threads : pc'[t] \in {"push_put", "count", "steal_cas"} => t # p /\ pc'[t] = pc[t]
  BY <1>5
<1>10. WindowInv'
  <2>1. ASSUME NEW q \in Queues, NEW e \in Ends(q)' PROVE e \in Ends(q) \/ (q = Global /\ e = idx[p] + 1)
    <3>2. CASE e = bottom'[q]
      BY <1>2, <3>2 DEF Ends
    <3>3. ASSUME q = Global, NEW t \in Threads, pc'[t] = "push_put", e = idx'[t] PROVE e \in Ends(q)
      BY <1>2, <1>9, <3>3 DEF Ends, At
    <3>4. ASSUME q = Global, NEW t \in Threads, pc'[t] = "push_publish", e = idx'[t] + 1
          PROVE  e \in Ends(q) \/ e = idx[p] + 1
      BY <1>2, <1>5, <3>4 DEF Ends, At
    <3> QED BY <2>1, <3>2, <3>3, <3>4 DEF Ends, At
  <2>2. ASSUME NEW q \in Queues, NEW i \in Nat,
               items[q][Slot(q, i)] \in Tasks /\ runs[items[q][Slot(q, i)]] = 0
        PROVE  items'[q][Slot(q, i)] \in Tasks /\ runs'[items'[q][Slot(q, i)]] = 0
    <3>1. Slot(q, i) \in Slots(q)
      BY SlotInRange
    <3>2. items'[q][Slot(q, i)] = items[q][Slot(q, i)] \/ items'[q][Slot(q, i)] = y
      BY <1>6, <3>1
    <3> QED BY <1>2, <1>6, <2>2, <3>2
  <2>3. \A q \in Queues : top[q] \in Nat
    BY <1>1 DEF TypeOK
  <2>4. ASSUME NEW q \in Queues, NEW e \in Ends(q)
        PROVE  /\ e <= top'[q] + Cap(q)
               /\ \A i \in top'[q] .. e - 1 :
                    items'[q][Slot(q, i)] \in Tasks /\ runs'[items'[q][Slot(q, i)]] = 0
    <3>1. \A i \in top[q] .. e - 1 : i \in Nat
      BY <2>3
    <3>2. /\ e <= top[q] + Cap(q)
          /\ \A i \in top[q] .. e - 1 :
                    items[q][Slot(q, i)] \in Tasks /\ runs[items[q][Slot(q, i)]] = 0
      BY <1>1, <2>4 DEF WindowInv
    <3> QED BY <1>2, <2>2, <3>1, <3>2
  <2>5. /\ idx[p] + 1 <= top'[Global] + Cap(Global)
        /\ \A i \in top'[Global] .. (idx[p] + 1) - 1 :
             items'[Global][Slot(Global, i)] \in Tasks /\ runs'[items'[Global][Slot(Global, i)]] = 0
    <3>1. idx[p] + 1 <= top'[Global] + Cap(Global)
      BY <1>2, <1>3
    <3>2. idx[p] \in Ends(Global)
      BY <1>2 DEF Ends, At
    <3>3. ASSUME NEW i \in top'[Global] .. (idx[p] + 1) - 1
          PROVE  items'[Global][Slot(Global, i)] \in Tasks /\ runs'[items'[Global][Slot(Global, i)]] = 0
      <4>1. i = idx[p] \/ i \in top'[Global] .. idx[p] - 1
        BY <1>2, <1>3, <3>3
      <4>2. CASE i = idx[p]
        BY <1>2, <1>6, <4>2 DEF s
      <4>3. CASE i \in top'[Global] .. idx[p] - 1
        BY <2>4, <3>2, <4>3
      <4> QED BY <4>1, <4>2, <4>3
    <3> QED BY <3>1, <3>3
  <2>6. \A t \in Threads : At(t, "push_put")' => idx'[t] < top'[Global] + Cap(Global)
    BY <1>1, <1>2, <1>9 DEF WindowInv, At
  <2> QED BY <2>1, <2>4, <2>5, <2>6 DEF WindowInv
(* With no other push under way the slot is the one at bottom. *)
<1>11. ASSUME ~raced, NEW q \in Queues, NEW i \in Nat, i >= top[q], i < bottom[q]
       PROVE  items'[q][Slot(q, i)] = items[q][Slot(q, i)]
  <2>1. Slot(q, i) \in Slots(q) /\ idx[p] = bottom[Global]
    BY <1>1, <1>2, <1>11, SlotInRange DEF CleanInv, PushingGlobal
  <2>2. CASE q = Global
    <3>1. i # idx[p] /\ i < idx[p] + Cap(Global) /\ idx[p] < i + Cap(Global)
      BY <1>3, <1>11, <2>1, <2>2
    <3>2. Slot(Global, i) # s
      BY <1>3, <3>1, SlotDistinct DEF s
    <3> QED BY <1>6, <2>1, <2>2, <3>2
  <2>3. CASE q # Global
    BY <1>6, <2>1, <2>3
  <2> QED BY <2>2, <2>3
<1>12. ASSUME ~raced PROVE Queued' = Queued
  <2>1. \A q \in Queues : top[q] \in Nat /\ bottom[q] \in Nat
    BY <1>1 DEF TypeOK
  <2>2. \A q \in Queues : \A i \in top[q] .. bottom[q] - 1 : i \in Nat /\ i >= top[q] /\ i < bottom[q]
    BY <2>1
  <2>3. \A q \in Queues : \A i \in top[q] .. bottom[q] - 1 : items'[q][Slot(q, i)] = items[q][Slot(q, i)]
    BY <1>11, <1>12, <2>2
  <2>4. \A q \in Queues : QueuedIn(q)' = QueuedIn(q)
    BY <1>2, <2>3 DEF QueuedIn
  <2> QED BY <2>4 DEF Queued
<1>13. ~raced' => CleanInv'
  <2>1. SUFFICES ASSUME ~raced' PROVE CleanInv'
    OBVIOUS
  <2>2. ~raced /\ CleanInv /\ Queued' = Queued /\ idx[p] = bottom[Global]
    BY <1>1, <1>2, <1>12, <2>1 DEF CleanInv, PushingGlobal
  <2>3. \A t \in Threads : PushingGlobal(t)' => t = p
    BY <1>2, <1>5, <2>2 DEF CleanInv, PushingGlobal
  <2>4. /\ \A t, u \in Threads : PushingGlobal(t)' /\ PushingGlobal(u)' => t = u
        /\ \A t \in Threads : PushingGlobal(t)' => idx'[t] = bottom'[Global]
    BY <1>2, <2>2, <2>3
  <2>5. \A t \in Threads : At(t, "push_publish")' =>
          items'[Global][Slot(Global, bottom'[Global])] = arg'[t]
    <3>1. items'[Global][Slot(Global, bottom'[Global])] = arg'[p]
      BY <1>2, <1>6, <2>2 DEF s
    <3>2. \A t \in Threads : At(t, "push_publish")' => t = p
      BY <2>3 DEF PushingGlobal, At
    <3> QED BY <3>1, <3>2
  <2>6. \A q \in Queues : top'[q] <= bottom'[q]
    BY <1>2, <2>2 DEF CleanInv
  <2>7. ASSUME NEW u \in Workers, Winning(u)'
        PROVE  /\ top'[victim'[u]] < bottom'[victim'[u]]
               /\ task'[u] = items'[victim'[u]][Slot(victim'[u], top'[victim'[u]])]
    <3>1. Winning(u)
      BY <1>2, <1>9, <2>7 DEF Winning, At
    <3> DEFINE v == victim[u]
    <3>2. v \in Queues /\ top[v] \in Nat /\ bottom[v] \in Nat
      BY <1>1 DEF TypeOK
    <3>3. top[v] < bottom[v] /\ task[u] = items[v][Slot(v, top[v])]
      BY <2>2, <3>1 DEF CleanInv
    <3> HIDE DEF v
    <3>4. items'[v][Slot(v, top[v])] = items[v][Slot(v, top[v])]
      <4>1. top[v] >= top[v]
        BY <3>2
      <4> QED BY <1>11, <2>2, <3>2, <3>3, <4>1
    <3> QED BY <1>2, <3>3, <3>4 DEF v
  <2>8. \A t \in Threads : At(t, "count")' => arg'[t] \in Queued' \/ runs'[arg'[t]] > 0
    BY <1>2, <1>9, <2>2 DEF CleanInv, At
  <2> QED BY <2>4, <2>5, <2>6, <2>7, <2>8 DEF CleanInv
<1>14. LostOnlyByRace'
  BY <1>1, <1>2, <1>12 DEF LostOnlyByRace, NoLostTask
<1>15. TasksAccounted'
  <2>1. {t \in Threads : At(t, "count")}' = {t \in Threads : At(t, "count")}
    BY <1>2, <1>5 DEF At
  <2>2. {w \in Workers : Between(w)}' = {w \in Workers : Between(w)}
    BY <1>2, <1>5 DEF Between
  <2> QED BY <1>1, <1>2, <1>12, <2>1, <2>2 DEF TasksAccounted
<1> QED BY <1>6, <1>7, <1>8, <1>10, <1>13, <1>14, <1>15 DEF PoolInv, PoolSafe

(* The store of bottom that ends a push on the global deque. *)
LEMMA GlobalPublishStep ==
  ASSUME PoolInv, NEW p \in Threads, SubmitGlobalPublish(p)
  PROVE  PoolInv'
<1> USE Basics
<1>1. /\ TypeOK /\ LostOnlyByRace /\ TasksAccounted /\ PhaseInv /\ RunOnce
      /\ UnplacedInv /\ WindowInv /\ PlacedInv /\ ThiefInv
      /\ ~raced => CleanInv
  BY DEF PoolInv, PoolSafe
<1> DEFINE y == arg[p]
           g == Global
<1>2. /\ pc[p] = "push_publish" /\ pc' = [pc EXCEPT ![p] = "count"] /\ "count" \in Labels
      /\ bottom' = [bottom EXCEPT ![g] = idx[p] + 1]
      /\ UNCHANGED <<phase, next, is_running, should_exit, top, items, task, arg, idx, victim, tries>>
      /\ UNCHANGED <<total_submitted, total_completed, fresh, accepted, runs, raced>>
  BY DEF SubmitGlobalPublish, Goto, At, Labels, poolVars, statVars, ghostVars
<1>3. /\ pc' \in [Threads -> Labels] /\ pc'[p] = "count"
      /\ \A t \in Threads : t # p => pc'[t] = pc[t]
  BY <1>2, LabelStep
<1>4. /\ bottom' \in [Queues -> Nat] /\ bottom'[g] = idx[p] + 1
      /\ \A q \in Queues : q # g => bottom'[q] = bottom[q]
  <2>1. bottom \in [Queues -> Nat] /\ idx[p] + 1 \in Nat
    BY <1>1 DEF TypeOK
  <2> QED BY <1>2, <2>1
<1>5. y \in Tasks
  BY <1>1, <1>2 DEF UnplacedInv
<1>6. TypeOK'
  BY <1>1, <1>2, <1>3, <1>4 DEF TypeOK
<1>7. PhaseInv' /\ FreedAfterExit'
  <2>1. \A u \in Workers : pc'[u] \in {"steal_read", "steal_cas"} => tries'[u] <= MaxSteals
    BY <1>1, <1>2, <1>3 DEF PhaseInv
  <2> QED BY <1>2, <2>1, PhaseKept
<1>8. \A t \in Threads : pc'[t] \in {"push_put", "push_publish", "steal_cas"} => t # p /\ pc'[t] = pc[t]
  BY <1>3
<1>9. /\ \A t \in Threads : Pending(t)' <=> Pending(t)
      /\ \A w \in Workers : Winning(w)' <=> Winning(w)
      /\ \A w \in Workers : At(w, "steal_cas")' <=> At(w, "steal_cas")
  BY <1>2, <1>3 DEF Pending, Winning, At
<1>10. Unplaced' = Unplaced
  BY <1>2, <1>9 DEF Unplaced
<1>11. UnplacedInv'
  BY <1>1, <1>2, <1>3, <1>5, <1>9, <1>10 DEF UnplacedInv
<1>12. PlacedInv' /\ RunOnce'
  BY <1>1, <1>2 DEF PlacedInv, RunOnce
<1>13. ThiefInv'
  BY <1>1, <1>2, <1>9 DEF ThiefInv
<1>14. WindowInv'
  <2>1. ASSUME NEW q \in Queues, NEW e \in Ends(q)' PROVE e \in Ends(q)
    <3>1. CASE q # Global
      BY <1>4, <2>1, <3>1 DEF Ends
    <3>2. CASE q = Global /\ e = idx[p] + 1
      BY <1>2, <3>2 DEF Ends, At
    <3>3. ASSUME q = Global, NEW t \in Threads, pc'[t] = "push_put", e = idx'[t] PROVE e \in Ends(q)
      BY <1>2, <1>8, <3>3 DEF Ends, At
    <3>4. ASSUME q = Global, NEW t \in Threads, pc'[t] = "push_publish", e = idx'[t] + 1
          PROVE  e \in Ends(q)
      BY <1>2, <1>8, <3>4 DEF Ends, At
    <3> QED BY <1>4, <2>1, <3>1, <3>2, <3>3, <3>4 DEF Ends, At
  <2>2. \A t \in Threads : At(t, "push_put")' => idx'[t] < top'[Global] + Cap(Global)
    BY <1>1, <1>2, <1>8 DEF WindowInv, At
  <2> QED BY <1>1, <1>2, <2>1, <2>2 DEF WindowInv
<1>15. \A q \in Queues : top[q] \in Nat /\ bottom[q] \in Nat
  BY <1>1 DEF TypeOK
<1>16. ASSUME ~raced
       PROVE  /\ idx[p] = bottom[g] /\ bottom'[g] = bottom[g] + 1 /\ top[g] <= bottom[g]
              /\ y = items[g][Slot(g, bottom[g])]
              /\ bottom[g] + 1 <= top[g] + Cap(g)
  <2>1. idx[p] = bottom[g] /\ top[g] <= bottom[g] /\ y = items[g][Slot(g, bottom[g])]
    BY <1>1, <1>2, <1>16 DEF CleanInv, PushingGlobal, At
  <2>2. idx[p] + 1 \in Ends(g)
    BY <1>2 DEF Ends, At
  <2>3. idx[p] + 1 <= top[g] + Cap(g)
    BY <1>1, <2>2 DEF WindowInv
  <2> QED BY <1>4, <2>1, <2>3
<1> HIDE DEF y
<1>17. ASSUME ~raced PROVE Queued' = Queued \cup {y} /\ y \notin Queued
  <2>1. ASSUME NEW x \in Queued PROVE x \in Queued' /\ x # y
    <3>1. PICK q \in Queues : \E i \in top[q] .. bottom[q] - 1 : x = items[q][Slot(q, i)]
      BY <2>1, QueuedMember
    <3>2. PICK i \in top[q] .. bottom[q] - 1 : x = items[q][Slot(q, i)]
      BY <3>1
    <3>3. i \in Nat /\ i >= top[q] /\ i < bottom[q] /\ i \in top'[q] .. bottom'[q] - 1
      <4>1. bottom'[q] = bottom[q] \/ bottom'[q] = bottom[q] + 1
        BY <1>4, <1>16, <1>17
      <4> QED BY <1>2, <1>15, <4>1
    <3>4. x # y
      <4>1. Slot(q, i) \in Slots(q) /\ Slot(g, bottom[g]) \in Slots(g)
        BY <1>15, <3>3, SlotInRange
      <4>2. CASE q # g
        BY <1>1, <1>5, <1>16, <1>17, <3>2, <4>1, <4>2, PoolAssumption DEF PlacedInv
      <4>3. CASE q = g
        <5>1. i # bottom[g] /\ i < bottom[g] + Cap(g) /\ bottom[g] < i + Cap(g)
          BY <1>15, <1>16, <1>17, <3>3, <4>3, CapPositive
        <5>2. Slot(g, i) # Slot(g, bottom[g])
          BY <1>15, <3>3, <5>1, SlotDistinct
        <5> QED BY <1>1, <1>5, <1>16, <1>17, <3>2, <4>1, <4>3, <5>2, PoolAssumption DEF PlacedInv
      <4> QED BY <4>2, <4>3
    <3>5. x \in QueuedIn(q)'
      BY <1>2, <3>2, <3>3 DEF QueuedIn
    <3> QED BY <3>4, <3>5 DEF Queued
  <2>2. y \in Queued'
    <3>1. bottom[g] \in top'[g] .. bottom'[g] - 1
      BY <1>2, <1>15, <1>16, <1>17
    <3>2. y \in QueuedIn(g)'
      BY <1>2, <1>16, <1>17, <3>1 DEF QueuedIn
    <3> QED BY <3>2 DEF Queued
  <2>3. ASSUME NEW x \in Queued' PROVE x \in Queued \/ x = y
    <3>1. PICK q \in Queues : x \in QueuedIn(q)'
      BY <2>3 DEF Queued
    <3>2. PICK i \in top'[q] .. bottom'[q] - 1 : x = items'[q][Slot(q, i)]
      BY <3>1 DEF QueuedIn
    <3>3. CASE q = g /\ i = bottom[g]
      BY <1>2, <1>16, <1>17, <3>2, <3>3
    <3>4. CASE ~(q = g /\ i = bottom[g])
      <4>1. i \in top[q] .. bottom[q] - 1
        <5>1. CASE q = g
          BY <1>2, <1>15, <1>16, <1>17, <3>4, <5>1
        <5>2. CASE q # g
          BY <1>2, <1>4, <1>15, <5>2
        <5> QED BY <5>1, <5>2
      <4> QED BY <1>2, <3>2, <4>1, QueuedMember
    <3> QED BY <3>3, <3>4
  <2> QED BY <2>1, <2>2, <2>3
<1>18. ~raced' => CleanInv'
  <2>1. SUFFICES ASSUME ~raced' PROVE CleanInv'
    OBVIOUS
  <2>2. ~raced /\ CleanInv /\ Queued' = Queued \cup {y} /\ bottom'[g] = bottom[g] + 1
    BY <1>1, <1>2, <1>16, <1>17, <2>1
  <2>3. \A t \in Threads : ~PushingGlobal(t)' /\ ~At(t, "push_publish")'
    BY <1>2, <1>3, <2>2 DEF CleanInv, PushingGlobal, At
  <2>4. \A q \in Queues : bottom'[q] = bottom[q] \/ bottom'[q] = bottom[q] + 1
    BY <1>4, <2>2
  <2>5. \A q \in Queues : top'[q] <= bottom'[q]
    <3>1. \A q \in Queues : top[q] <= bottom[q]
      BY <2>2 DEF CleanInv
    <3> QED BY <1>2, <1>15, <2>4, <3>1
  <2>6. ASSUME NEW u \in Workers, Winning(u)'
        PROVE  /\ top'[victim'[u]] < bottom'[victim'[u]]
               /\ task'[u] = items'[victim'[u]][Slot(victim'[u], top'[victim'[u]])]
    <3>1. /\ Winning(u) /\ victim[u] \in Queues
      BY <1>1, <1>9, <2>6 DEF TypeOK
    <3>2. top[victim[u]] < bottom[victim[u]] /\ task[u] = items[victim[u]][Slot(victim[u], top[victim[u]])]
      BY <2>2, <3>1 DEF CleanInv
    <3>3. top[victim[u]] < bottom'[victim[u]]
      <4> DEFINE v == victim[u]
      <4>1. top[v] \in Nat /\ bottom[v] \in Nat /\ top[v] < bottom[v]
            /\ (bottom'[v] = bottom[v] \/ bottom'[v] = bottom[v] + 1)
        BY <1>15, <2>4, <3>1, <3>2
      <4> HIDE DEF v
      <4>2. top[v] < bottom'[v]
        BY <4>1
      <4> QED BY <4>2 DEF v
    <3> QED BY <1>2, <3>2, <3>3
  <2>7. \A t \in Threads : At(t, "count")' => arg'[t] \in Queued' \/ runs'[arg'[t]] > 0
    BY <1>2, <1>3, <2>2 DEF CleanInv, At, y
  <2> QED BY <2>3, <2>5, <2>6, <2>7 DEF CleanInv
<1>19. LostOnlyByRace'
  BY <1>1, <1>2, <1>17 DEF LostOnlyByRace, NoLostTask
<1>20. TasksAccounted'
  <2>1. SUFFICES ASSUME ~raced' PROVE TasksAccounted'
    BY DEF TasksAccounted
  <2> DEFINE S == {t \in Threads : At(t, "count")}
             B == {u \in Workers : Between(u)}
  <2>2. S' = S \cup {p} /\ p \notin S
    BY <1>2, <1>3 DEF At
  <2>3. B' = B
    BY <1>2, <1>3 DEF Between
  <2>4. Cardinality(S \cup {p}) = Cardinality(S) + 1 /\ Cardinality(S) \in Nat /\ Cardinality(B) \in Nat
    BY <2>2, CountsFinite, FS_AddElement
  <2>5. Queued' = Queued \cup {y} /\ y \notin Queued
    BY <1>2, <1>17, <2>1
  <2>6. Cardinality(Queued \cup {y}) = Cardinality(Queued) + 1 /\ Cardinality(Queued) \in Nat
    BY <1>1, <2>5, QueuedFinite, FS_AddElement
  <2>7. total_submitted + Cardinality(S) = Cardinality(Queued) + total_completed + Cardinality(B)
    BY <1>1, <1>2, <2>1 DEF TasksAccounted
  <2>8. /\ Cardinality(S') = Cardinality(S) + 1 /\ Cardinality(B') = Cardinality(B)
        /\ Cardinality(Queued') = Cardinality(Queued) + 1
    BY <2>2, <2>3, <2>4, <2>5, <2>6
  <2>9. total_submitted \in Nat /\ total_completed \in Nat
    BY <1>1 DEF TypeOK
  <2> HIDE DEF S, B
  <2>10. total_submitted' + Cardinality(S') = Cardinality(Queued') + total_completed' + Cardinality(B')
    BY <1>2, <2>4, <2>6, <2>7, <2>8, <2>9
  <2> QED BY <2>10 DEF TasksAccounted, S, B
<1> QED BY <1>6, <1>7, <1>11, <1>12, <1>13, <1>14, <1>18, <1>19, <1>20 DEF PoolInv, PoolSafe

-----------------------------------------------------------------------------
(* Pops and steals.                                                         *)

(* A worker takes x out of a deque and starts it: no other worker can win x, *)
(* and x is not below any end that its deque can be given.                   *)
LEMMA TaskTaken ==
  ASSUME PoolInv, NEW w \in Workers, pc[w] \in {"pop", "steal_cas"},
         NEW x \in Tasks, runs[x] = 0, x \notin Unplaced,
         pc' = [pc EXCEPT ![w] = "running"],
         runs' = [runs EXCEPT ![x] = runs[x] + 1],
         task' = [task EXCEPT ![w] = x],
         tries' \in [Workers -> 0 .. MaxSteals + 1], \A u \in Workers : u # w => tries'[u] = tries[u],
         UNCHANGED <<phase, next, is_running, should_exit, items, arg, idx, victim>>,
         UNCHANGED <<total_submitted, total_completed, fresh, accepted, raced>>,
         top' \in [Queues -> Nat], bottom' \in [Queues -> Nat],
         \A q \in Queues : top[q] <= top'[q] /\ bottom'[q] <= bottom[q],
         bottom'[Global] = bottom[Global],
         \A q \in Queues : \A e \in Ends(q)' : \A i \in top'[q] .. e - 1 : items[q][Slot(q, i)] # x,
         \A u \in Workers : u # w /\ Winning(u)' => Winning(u) /\ task[u] # x,
         ~raced => x \in Queued,
         ~raced => \A q \in Queues : top'[q] <= bottom'[q],
         ~raced => \A q \in Queues : \A i \in top[q] .. bottom[q] - 1 :
                     i \in top'[q] .. bottom'[q] - 1 \/ items[q][Slot(q, i)] = x
  PROVE  PoolInv'
<1> USE Basics
<1>1. /\ TypeOK /\ LostOnlyByRace /\ TasksAccounted /\ PhaseInv /\ RunOnce
      /\ UnplacedInv /\ WindowInv /\ PlacedInv /\ ThiefInv
      /\ ~raced => CleanInv
  BY DEF PoolInv, PoolSafe
<1>2. "running" \in Labels
  BY DEF Labels
<1>3. /\ pc' \in [Threads -> Labels] /\ pc'[w] = "running"
      /\ \A t \in Threads : t # w => pc'[t] = pc[t]
  BY <1>2, LabelStep
<1>4. /\ runs' \in [Tasks -> Nat] /\ runs'[x] = 1
      /\ \A y \in Tasks : y # x => runs'[y] = runs[y]
  BY <1>1 DEF TypeOK
<1>5. /\ task' \in [Workers -> Tasks \cup {NoTask}]
      /\ \A u \in Workers : u # w => task'[u] = task[u]
  BY <1>1 DEF TypeOK
<1>6. TypeOK'
  BY <1>1, <1>3, <1>4, <1>5 DEF TypeOK
<1>7. PhaseInv' /\ FreedAfterExit'
  <2>1. \A u \in Workers : pc'[u] \in {"steal_read", "steal_cas"} => tries'[u] <= MaxSteals
    BY <1>1, <1>3 DEF PhaseInv
  <2> QED BY <1>2, <2>1, PhaseKept
<1>8. \A t \in Threads : pc'[t] \in {"push_put", "push_publish", "count", "steal_cas"} => t # w /\ pc'[t] = pc[t]
  BY <1>3
<1>9. \A t \in Threads : Pending(t)' <=> Pending(t)
  BY <1>3 DEF Pending
<1>10. Unplaced' = Unplaced
  <2>1. {t \in Threads : Pending(t)}' = {t \in Threads : Pending(t)}
    BY <1>9
  <2> QED BY ZenonT(60), <2>1 DEF Unplaced
<1>11. Unplaced \subseteq Tasks
  BY <1>1 DEF Unplaced, UnplacedInv, TypeOK
<1>12. UnplacedInv'
  <2>1. /\ \A t \in Threads : Pending(t)' => arg'[t] \notin fresh'
        /\ \A t \in Threads : Pending(t)' \/ pc'[t] \in {"push_publish", "count"} => arg'[t] \in Tasks
        /\ \A t, u \in Threads : Pending(t)' /\ Pending(u)' /\ arg'[t] = arg'[u] => t = u
    BY <1>1, <1>8, <1>9 DEF UnplacedInv
  <2>2. \A y \in Unplaced' :
          /\ runs'[y] = 0
          /\ \A q \in Queues : \A s \in Slots(q) : items'[q][s] # y
    BY <1>1, <1>4, <1>10, <1>11 DEF UnplacedInv
  <2>3. \A y \in Unplaced' : \A u \in Workers : At(u, "steal_cas")' => task'[u] # y
    BY <1>1, <1>5, <1>8, <1>10 DEF UnplacedInv, At
  <2> QED BY <2>1, <2>2, <2>3 DEF UnplacedInv
<1>13. PlacedInv' /\ RunOnce'
  <2>1. PlacedInv'
    BY <1>1 DEF PlacedInv
  <2>2. \A y \in Tasks : runs'[y] <= 1
    BY <1>1, <1>4 DEF RunOnce
  <2> QED BY <2>1, <2>2 DEF RunOnce
<1>14. \A q \in Queues : /\ top[q] \in Nat /\ bottom[q] \in Nat /\ top'[q] \in Nat /\ bottom'[q] \in Nat
                         /\ Cap(q) \in Nat
  BY <1>1, CapPositive DEF TypeOK
<1>15. ASSUME NEW q \in Queues, NEW e \in Ends(q)' PROVE e \in Int /\ \E f \in Ends(q) : f \in Int /\ e <= f
  <2>1. CASE e = bottom'[q]
    BY <1>14, <2>1 DEF Ends
  <2>2. ASSUME q = Global, NEW t \in Threads, pc'[t] = "push_put", e = idx'[t]
        PROVE  e \in Int /\ e \in Ends(q)
    BY <1>1, <1>8, <2>2 DEF Ends, At, TypeOK
  <2>3. ASSUME q = Global, NEW t \in Threads, pc'[t] = "push_publish", e = idx'[t] + 1
        PROVE  e \in Int /\ e \in Ends(q)
    <3>1. idx[t] \in Nat
      BY <1>1 DEF TypeOK
    <3> QED BY <1>8, <2>3, <3>1 DEF Ends, At
  <2>4. e = bottom'[q] \/ (e \in Int /\ e \in Ends(q))
    <3>1. CASE q # Global
      BY <1>15, <3>1 DEF Ends
    <3>2. CASE q = Global
      <4>1. \/ e = bottom'[q]
            \/ \E t \in Threads : pc'[t] = "push_put" /\ e = idx'[t]
            \/ \E t \in Threads : pc'[t] = "push_publish" /\ e = idx'[t] + 1
        BY <1>15, <3>2 DEF Ends, At
      <4> QED BY <2>2, <2>3, <3>2, <4>1
    <3> QED BY <3>1, <3>2
  <2>5. CASE e \in Int /\ e \in Ends(q)
    <3>1. e <= e
      BY <2>5
    <3> QED BY <2>5, <3>1
  <2> QED BY <2>1, <2>4, <2>5
<1>16. WindowInv'
  <2>1. ASSUME NEW q \in Queues, NEW e \in Ends(q)'
        PROVE  /\ e <= top'[q] + Cap(q)
               /\ \A i \in top'[q] .. e - 1 :
                    items'[q][Slot(q, i)] \in Tasks /\ runs'[items'[q][Slot(q, i)]] = 0
    <3>1. e \in Int
      BY <1>15, <2>1
    <3>2. PICK f \in Ends(q) : f \in Int /\ e <= f
      BY <1>15, <2>1
    <3>3. /\ f <= top[q] + Cap(q)
          /\ \A i \in top[q] .. f - 1 : items[q][Slot(q, i)] \in Tasks /\ runs[items[q][Slot(q, i)]] = 0
      BY <1>1, <3>2 DEF WindowInv
    <3>4. e <= top'[q] + Cap(q)
      <4>1. top[q] <= top'[q]
        OBVIOUS
      <4> QED BY <1>14, <3>1, <3>2, <3>3, <4>1
    <3>5. ASSUME NEW i \in top'[q] .. e - 1
          PROVE  items'[q][Slot(q, i)] \in Tasks /\ runs'[items'[q][Slot(q, i)]] = 0
      <4>1. i \in top[q] .. f - 1
        <5>1. top[q] <= top'[q] /\ top[q] \in Int /\ top'[q] \in Int
          <6>1. top[q] <= top'[q]
            OBVIOUS
          <6>2. top[q] \in Int /\ top'[q] \in Int
            BY <1>14
          <6> QED BY <6>1, <6>2
        <5>2. i \in Int /\ top'[q] <= i /\ i <= e - 1
          BY <1>14, <3>1, <3>5
        <5>3. top[q] <= i
          BY <5>1, <5>2
        <5>4. i <= f - 1
          BY <3>1, <3>2, <5>2
        <5> QED BY <3>2, <5>2, <5>3, <5>4, <5>1
      <4>2. items[q][Slot(q, i)] # x
        BY <2>1, <3>5
      <4> QED BY <1>4, <3>3, <4>1, <4>2
    <3> QED BY <3>4, <3>5
  <2>2. \A t \in Threads : At(t, "push_put")' => idx'[t] < top'[Global] + Cap(Global)
    <3>1. SUFFICES ASSUME NEW t \in Threads, pc'[t] = "push_put" PROVE idx[t] < top'[Global] + Cap(Global)
      BY DEF At
    <3>2. idx[t] < top[Global] + Cap(Global) /\ idx[t] \in Nat /\ top[Global] <= top'[Global]
      BY <1>1, <1>8, <3>1 DEF WindowInv, At, TypeOK
    <3> QED BY <1>14, <3>2
  <2> QED BY <2>1, <2>2 DEF WindowInv
<1>17. \A u \in Workers : Winning(u)' => Winning(u) /\ task[u] # x /\ u # w /\ task'[u] = task[u]
  BY <1>3, <1>5 DEF Winning, At
<1>18. ThiefInv'
  <2>1. ASSUME NEW u \in Workers, At(u, "steal_cas")' PROVE idx'[u] <= top'[victim'[u]] /\ task'[u] \in Tasks
    <3>1. idx[u] <= top[victim[u]] /\ task[u] \in Tasks /\ u # w
      BY <1>1, <1>8, <2>1 DEF ThiefInv, At
    <3>2. victim[u] \in Queues /\ idx[u] \in Nat
      BY <1>1 DEF TypeOK
    <3>3. idx[u] <= top'[victim[u]]
      <4>1. top[victim[u]] <= top'[victim[u]]
        BY <3>2
      <4> QED BY <1>14, <3>1, <3>2, <4>1
    <3> QED BY <1>5, <3>1, <3>3
  <2>2. \A u \in Workers : Winning(u)' => runs'[task'[u]] = 0
    <3>1. \A u \in Workers : Winning(u) => task[u] \in Tasks /\ runs[task[u]] = 0
      BY <1>1 DEF ThiefInv, Winning
    <3> QED BY <1>4, <1>17, <3>1
  <2>3. \A u \in Workers : Winning(u)' =>
          \A q \in Queues : \A s \in Slots(q) :
            items'[q][s] = task'[u] => q = victim'[u] /\ s = Slot(q, idx'[u])
    BY <1>1, <1>17 DEF ThiefInv
  <2>4. \A u, v \in Workers : Winning(u)' /\ Winning(v)' /\ task'[u] = task'[v] => victim'[u] = victim'[v]
    <3>1. \A u, v \in Workers : Winning(u) /\ Winning(v) /\ task[u] = task[v] => victim[u] = victim[v]
      BY <1>1 DEF ThiefInv
    <3> QED BY <1>17, <3>1
  <2> QED BY <2>1, <2>2, <2>3, <2>4 DEF ThiefInv
<1>19. ASSUME ~raced PROVE Queued' = Queued \ {x}
  <2>1. ASSUME NEW y \in Queued, y # x PROVE y \in Queued'
    <3>1. PICK q \in Queues : y \in QueuedIn(q)
      BY <2>1 DEF Queued
    <3>2. PICK i \in top[q] .. bottom[q] - 1 : y = items[q][Slot(q, i)]
      BY <3>1 DEF QueuedIn
    <3>3. i \in top'[q] .. bottom'[q] - 1
      BY <1>19, <2>1, <3>2
    <3>4. y \in QueuedIn(q)'
      BY <3>2, <3>3 DEF QueuedIn
    <3> QED BY <3>4 DEF Queued
  <2>2. ASSUME NEW y \in Queued' PROVE y \in Queued /\ y # x
    <3>1. PICK q \in Queues : y \in QueuedIn(q)'
      BY <2>2 DEF Queued
    <3>2. PICK i \in top'[q] .. bottom'[q] - 1 : y = items[q][Slot(q, i)]
      BY <3>1 DEF QueuedIn
    <3>3. bottom'[q] \in Ends(q)'
      BY DEF Ends
    <3>4. y # x
      BY <3>2, <3>3
    <3>5. i \in top[q] .. bottom[q] - 1
      <4>1. top[q] <= top'[q] /\ bottom'[q] <= bottom[q]
        OBVIOUS
      <4> QED BY <1>14, <3>2, <4>1
    <3> QED BY <3>2, <3>4, <3>5, QueuedMember
  <2> QED BY <2>1, <2>2
<1>20. ~raced' => CleanInv'
  <2>1. SUFFICES ASSUME ~raced PROVE CleanInv'
    OBVIOUS
  <2>2. CleanInv /\ Queued' = Queued \ {x}
    BY <1>1, <1>19, <2>1
  <2>3. /\ \A t, u \in Threads : PushingGlobal(t)' /\ PushingGlobal(u)' => t = u
        /\ \A t \in Threads : PushingGlobal(t)' => idx'[t] = bottom'[Global]
    BY <1>8, <2>2 DEF CleanInv, PushingGlobal
  <2>4. \A t \in Threads : At(t, "push_publish")' =>
          items'[Global][Slot(Global, bottom'[Global])] = arg'[t]
    BY <1>8, <2>2 DEF CleanInv, At
  <2>5. \A q \in Queues : top'[q] <= bottom'[q]
    BY <2>1
  <2>6. ASSUME NEW u \in Workers, Winning(u)'
        PROVE  /\ top'[victim'[u]] < bottom'[victim'[u]]
               /\ task'[u] = items'[victim'[u]][Slot(victim'[u], top'[victim'[u]])]
    <3> DEFINE v == victim[u]
    <3>1. Winning(u) /\ task[u] # x /\ task'[u] = task[u] /\ v \in Queues
      BY <1>1, <1>17, <2>6 DEF TypeOK
    <3>2. top'[v] = idx[u] /\ top[v] = idx[u]
      BY <2>6, <3>1 DEF Winning
    <3>3. top[v] < bottom[v] /\ task[u] = items[v][Slot(v, top[v])]
      BY <2>2, <3>1 DEF CleanInv
    <3> HIDE DEF v
    <3>4. top[v] \in top[v] .. bottom[v] - 1
      BY <1>14, <3>1, <3>3
    <3>5. top[v] \in top'[v] .. bottom'[v] - 1
      BY <2>1, <3>1, <3>3, <3>4
    <3>6. top'[v] < bottom'[v]
      BY <1>14, <3>1, <3>2, <3>5
    <3> QED BY <3>1, <3>2, <3>3, <3>6 DEF v
  <2>7. \A t \in Threads : At(t, "count")' => arg'[t] \in Queued' \/ runs'[arg'[t]] > 0
    <3>1. SUFFICES ASSUME NEW t \in Threads, pc'[t] = "count" PROVE arg[t] \in Queued' \/ runs'[arg[t]] > 0
      BY DEF At
    <3>2. arg[t] \in Tasks /\ (arg[t] \in Queued \/ runs[arg[t]] > 0)
      BY <1>1, <1>8, <2>2, <3>1 DEF CleanInv, UnplacedInv, At
    <3> QED BY <1>4, <2>2, <3>2
  <2> QED BY <2>3, <2>4, <2>5, <2>6, <2>7 DEF CleanInv
<1>21. LostOnlyByRace'
  <2>1. SUFFICES ASSUME ~raced, NEW y \in accepted PROVE y \in Queued' \/ runs'[y] > 0
    BY DEF LostOnlyByRace, NoLostTask
  <2>2. y \in Tasks /\ (y \in Queued \/ runs[y] > 0)
    BY <1>1, <2>1 DEF LostOnlyByRace, NoLostTask, TypeOK
  <2> QED BY <1>4, <1>19, <2>1, <2>2
<1>22. TasksAccounted'
  <2>1. SUFFICES ASSUME ~raced PROVE TasksAccounted'
    BY DEF TasksAccounted
  <2> DEFINE S == {t \in Threads : At(t, "count")}
             B == {u \in Workers : Between(u)}
  <2>2. S' = S
    BY <1>3 DEF At
  <2>3. B' = B \cup {w} /\ w \notin B
    BY <1>3 DEF Between
  <2>4. Cardinality(B \cup {w}) = Cardinality(B) + 1 /\ Cardinality(S) \in Nat /\ Cardinality(B) \in Nat
    BY <2>3, CountsFinite, FS_AddElement
  <2>5. Queued' = Queued \ {x} /\ x \in Queued
    BY <1>19, <2>1
  <2>6. Cardinality(Queued \ {x}) = Cardinality(Queued) - 1 /\ Cardinality(Queued) \in Nat
    BY <1>1, <2>5, QueuedFinite, FS_RemoveElement
  <2>7. total_submitted + Cardinality(S) = Cardinality(Queued) + total_completed + Cardinality(B)
    BY <1>1, <2>1 DEF TasksAccounted
  <2>8. /\ Cardinality(S') = Cardinality(S) /\ Cardinality(B') = Cardinality(B) + 1
        /\ Cardinality(Queued') = Cardinality(Queued) - 1
    BY <2>2, <2>3, <2>4, <2>5, <2>6
  <2>9. total_submitted \in Nat /\ total_completed \in Nat
    BY <1>1 DEF TypeOK
  <2> HIDE DEF S, B
  <2>10. total_submitted' + Cardinality(S') = Cardinality(Queued') + total_completed' + Cardinality(B')
    BY <2>4, <2>6, <2>7, <2>8, <2>9
  <2> QED BY <2>10 DEF TasksAccounted, S, B
<1> QED BY <1>6, <1>7, <1>12, <1>13, <1>16, <1>18, <1>20, <1>21, <1>22 DEF PoolInv, PoolSafe

(* A worker loads the first task of a deque that is not empty. *)
LEMMA StealReadStep ==
  ASSUME PoolInv, NEW w \in Workers, pc[w] = "steal_read", ~Empty(victim[w]),
         idx' = [idx EXCEPT ![w] = top[victim[w]]],
         task' = [task EXCEPT ![w] = items[victim[w]][Slot(victim[w], top[victim[w]])]],
         Goto(w, "steal_cas"),
         UNCHANGED <<victim, tries>>,
         UNCHANGED <<poolVars, dequeVars, arg, statVars, ghostVars>>
  PROVE  PoolInv'
<1> USE Basics
<1>1. /\ TypeOK /\ RunOnce /\ LostOnlyByRace /\ TasksAccounted /\ PhaseInv
      /\ UnplacedInv /\ WindowInv /\ PlacedInv /\ ThiefInv
      /\ ~raced => CleanInv
  BY DEF PoolInv, PoolSafe
<1> DEFINE v == victim[w]
           x == items[v][Slot(v, top[v])]
<1>2. /\ pc' = [pc EXCEPT ![w] = "steal_cas"] /\ "steal_cas" \in Labels
      /\ UNCHANGED <<phase, next, is_running, should_exit, top, bottom, items, arg, victim, tries>>
      /\ UNCHANGED <<total_submitted, total_completed, accepted, fresh, runs, raced>>
  BY DEF Goto, Labels, poolVars, dequeVars, statVars, ghostVars
<1>3. /\ pc' \in [Threads -> Labels] /\ pc'[w] = "steal_cas"
      /\ \A t \in Threads : t # w => pc'[t] = pc[t]
  BY <1>2, LabelStep
<1>4. v \in Queues /\ top[v] \in Nat /\ bottom[v] \in Nat /\ top[v] < bottom[v]
  <2>1. v \in Queues /\ top[v] \in Nat /\ bottom[v] \in Nat
    BY <1>1 DEF TypeOK
  <2> QED BY <2>1 DEF Empty
<1>5. x \in Tasks /\ runs[x] = 0 /\ Slot(v, top[v]) \in Slots(v)
  <2>1. top[v] \in top[v] .. bottom[v] - 1 /\ bottom[v] \in Ends(v)
    BY <1>4 DEF Ends
  <2> QED BY <1>1, <1>4, <2>1, SlotInRange DEF WindowInv
<1>6. x \notin Unplaced
  BY <1>1, <1>4, <1>5 DEF UnplacedInv
<1>7. /\ idx' \in [Threads -> Nat] /\ idx'[w] = top[v]
      /\ \A t \in Threads : t # w => idx'[t] = idx[t]
  BY <1>1, <1>4 DEF TypeOK
<1>8. /\ task' \in [Workers -> Tasks \cup {NoTask}] /\ task'[w] = x
      /\ \A u \in Workers : u # w => task'[u] = task[u]
  BY <1>1, <1>5 DEF TypeOK
<1> HIDE DEF x
<1>9. TypeOK'
  BY <1>1, <1>2, <1>3, <1>7, <1>8 DEF TypeOK
<1>10. PhaseInv' /\ FreedAfterExit'
  <2>1. \A u \in Workers : pc'[u] \in {"steal_read", "steal_cas"} => tries'[u] <= MaxSteals
    BY <1>1, <1>2, <1>3 DEF PhaseInv
  <2> QED BY <1>2, <2>1, PhaseKept
<1>11. \A t \in Threads : Pending(t)' <=> Pending(t)
  BY <1>2, <1>3 DEF Pending
<1>12. Unplaced' = Unplaced
  <2>1. {t \in Threads : Pending(t)}' = {t \in Threads : Pending(t)}
    BY <1>11
  <2> QED BY <1>2, <2>1 DEF Unplaced
<1>13. \A t \in Threads : pc'[t] \in {"push_put", "push_publish", "count"} => t # w /\ pc'[t] = pc[t]
  BY <1>3
<1>14. UnplacedInv'
  <2>1. /\ \A t \in Threads : Pending(t)' => arg'[t] \notin fresh'
        /\ \A t \in Threads : Pending(t)' \/ pc'[t] \in {"push_publish", "count"} => arg'[t] \in Tasks
        /\ \A t, u \in Threads : Pending(t)' /\ Pending(u)' /\ arg'[t] = arg'[u] => t = u
    BY <1>1, <1>2, <1>11, <1>13 DEF UnplacedInv
  <2>2. \A y \in Unplaced' :
          /\ runs'[y] = 0
          /\ \A q \in Queues : \A s \in Slots(q) : items'[q][s] # y
    BY <1>1, <1>2, <1>12 DEF UnplacedInv
  <2>3. \A y \in Unplaced' : \A u \in Workers : At(u, "steal_cas")' => task'[u] # y
    <3>1. SUFFICES ASSUME NEW y \in Unplaced, NEW u \in Workers, pc'[u] = "steal_cas" PROVE task'[u] # y
      BY <1>12 DEF At
    <3>2. CASE u = w
      BY <1>6, <1>8, <3>1, <3>2
    <3>3. CASE u # w
      BY <1>1, <1>3, <1>8, <3>1, <3>3 DEF UnplacedInv, At
    <3> QED BY <3>2, <3>3
  <2> QED BY <2>1, <2>2, <2>3 DEF UnplacedInv
<1>15. PlacedInv' /\ RunOnce'
  BY <1>1, <1>2 DEF PlacedInv, RunOnce
<1>16. WindowInv'
  <2>1. \A q \in Queues : Ends(q)' \subseteq Ends(q)
    BY <1>2, <1>7, <1>13, EndsKept
  <2>2. \A t \in Threads : At(t, "push_put")' => idx'[t] < top'[Global] + Cap(Global)
    BY <1>1, <1>2, <1>7, <1>13 DEF WindowInv, At
  <2> QED BY <1>1, <1>2, <2>1, <2>2 DEF WindowInv
<1>17. \A u \in Workers : u # w => /\ Winning(u)' <=> Winning(u)
                                   /\ task'[u] = task[u] /\ idx'[u] = idx[u] /\ victim'[u] = victim[u]
  BY <1>2, <1>3, <1>7, <1>8 DEF Winning, At
<1>18. ThiefInv'
  <2>1. ASSUME NEW u \in Workers, At(u, "steal_cas")' PROVE idx'[u] <= top'[victim'[u]] /\ task'[u] \in Tasks
    <3>1. CASE u = w
      <4>1. top[v] <= top[v]
        BY <1>4
      <4> QED BY <1>2, <1>5, <1>7, <1>8, <3>1, <4>1
    <3>2. CASE u # w
      BY <1>1, <1>2, <1>3, <1>7, <1>8, <2>1, <3>2 DEF ThiefInv, At
    <3> QED BY <3>1, <3>2
  <2>2. ASSUME NEW q \in Queues, NEW s \in Slots(q), items[q][s] = x PROVE q = v /\ s = Slot(q, top[v])
    <3>1. x # NoTask /\ items[v][Slot(v, top[v])] = x
      BY <1>5, PoolAssumption DEF x
    <3> QED BY <1>1, <1>4, <1>5, <2>2, <3>1 DEF PlacedInv
  <2>3. ASSUME NEW u \in Workers, Winning(u)'
        PROVE  /\ runs'[task'[u]] = 0
               /\ \A q \in Queues : \A s \in Slots(q) :
                    items'[q][s] = task'[u] => q = victim'[u] /\ s = Slot(q, idx'[u])
    <3>1. CASE u = w
      BY <1>2, <1>5, <1>7, <1>8, <2>2, <3>1
    <3>2. CASE u # w
      BY <1>1, <1>2, <1>17, <2>3, <3>2 DEF ThiefInv
    <3> QED BY <3>1, <3>2
  <2>4. ASSUME NEW u \in Workers, u # w, Winning(u), task[u] = x PROVE victim[u] = v
    <3>1. items[v][Slot(v, top[v])] = x
      BY DEF x
    <3> QED BY <1>1, <1>4, <1>5, <2>4, <3>1 DEF ThiefInv
  <2>5. \A u, t \in Workers : Winning(u)' /\ Winning(t)' /\ task'[u] = task'[t] => victim'[u] = victim'[t]
    <3>1. SUFFICES ASSUME NEW u \in Workers, NEW t \in Workers, Winning(u)', Winning(t)', task'[u] = task'[t]
                   PROVE  victim[u] = victim[t]
      BY <1>2
    <3>2. CASE u # w /\ t # w
      BY <1>1, <1>17, <3>1, <3>2 DEF ThiefInv
    <3>3. CASE u # w /\ t = w
      BY <1>8, <1>17, <2>4, <3>1, <3>3
    <3>4. CASE u = w /\ t # w
      BY <1>8, <1>17, <2>4, <3>1, <3>4
    <3> QED BY <3>2, <3>3, <3>4
  <2> QED BY <2>1, <2>3, <2>5 DEF ThiefInv
<1>19. Queued' = Queued
  BY <1>2 DEF Queued, QueuedIn
<1>20. ASSUME ~raced' PROVE CleanInv'
  <2>1. CleanInv
    BY <1>1, <1>2, <1>20
  <2>2. \A t \in Threads : PushingGlobal(t)' => PushingGlobal(t) /\ idx'[t] = idx[t]
    BY <1>7, <1>13 DEF PushingGlobal
  <2>3. ASSUME NEW u \in Workers, Winning(u)'
        PROVE  /\ top'[victim'[u]] < bottom'[victim'[u]]
               /\ task'[u] = items'[victim'[u]][Slot(victim'[u], top'[victim'[u]])]
    <3>1. CASE u = w
      BY <1>2, <1>4, <1>8, <3>1 DEF x
    <3>2. CASE u # w
      BY <1>2, <1>17, <2>1, <2>3, <3>2 DEF CleanInv
    <3> QED BY <3>1, <3>2
  <2>4. \A t \in Threads : At(t, "count")' => arg'[t] \in Queued' \/ runs'[arg'[t]] > 0
    BY <1>2, <1>13, <1>19, <2>1 DEF CleanInv, At
  <2>5. \A t \in Threads : At(t, "push_publish")' => items'[Global][Slot(Global, bottom'[Global])] = arg'[t]
    BY <1>2, <1>13, <2>1 DEF CleanInv, At
  <2>6. /\ \A t, u \in Threads : PushingGlobal(t)' /\ PushingGlobal(u)' => t = u
        /\ \A t \in Threads : PushingGlobal(t)' => idx'[t] = bottom'[Global]
        /\ \A q \in Queues : top'[q] <= bottom'[q]
    BY <1>2, <2>1, <2>2 DEF CleanInv
  <2> QED BY <2>3, <2>4, <2>5, <2>6 DEF CleanInv
<1>21. LostOnlyByRace'
  BY <1>1, <1>2, <1>19 DEF LostOnlyByRace, NoLostTask
<1>22. TasksAccounted'
  <2>1. {t \in Threads : At(t, "count")}' = {t \in Threads : At(t, "count")}
    BY <1>2, <1>3 DEF At
  <2>2. {u \in Workers : Between(u)}' = {u \in Workers : Between(u)}
    BY <1>2, <1>3 DEF Between
  <2> QED BY <1>1, <1>2, <1>19, <2>1, <2>2 DEF TasksAccounted
<1> QED BY <1>9, <1>10, <1>14, <1>15, <1>16, <1>18, <1>20, <1>21, <1>22 DEF PoolInv, PoolSafe

(* The ends of the deques are numbers. *)
LEMMA EndsType ==
  ASSUME TypeOK, NEW q \in Queues, NEW e \in Ends(q)
  PROVE  e \in Int
<1> USE Basics
<1>1. bottom[q] \in Int /\ \A t \in Threads : idx[t] \in Int /\ idx[t] + 1 \in Int
  BY DEF TypeOK
<1> QED BY <1>1 DEF Ends

(* The exchange of a steal succeeds. *)
LEMMA StealWinStep ==
  ASSUME PoolInv, NEW w \in Workers, WorkerStealCas(w), top[victim[w]] = idx[w]
  PROVE  PoolInv'
<1> USE Basics
<1>1. /\ TypeOK /\ UnplacedInv /\ WindowInv /\ ThiefInv
      /\ ~raced => CleanInv
  BY DEF PoolInv, PoolSafe
<1> DEFINE v == victim[w]
           x == task[w]
<1>2. /\ pc[w] = "steal_cas" /\ pc' = [pc EXCEPT ![w] = "running"] /\ "running" \in Labels
      /\ top' = [top EXCEPT ![v] = top[v] + 1]
      /\ task' = [task EXCEPT ![w] = x]
      /\ runs' = [runs EXCEPT ![x] = runs[x] + 1]
      /\ UNCHANGED <<phase, next, is_running, should_exit, items, arg, idx, victim>>
      /\ UNCHANGED <<total_submitted, total_completed, fresh, accepted, raced>>
      /\ UNCHANGED <<tries, bottom>>
  BY DEF WorkerStealCas, Start, Goto, At, Labels, poolVars, statVars
<1>3. v \in Queues /\ top[v] \in Nat /\ idx[w] = top[v] /\ Winning(w)
  BY <1>1, <1>2 DEF TypeOK, Winning, At
<1>4. /\ x \in Tasks /\ runs[x] = 0 /\ x \notin Unplaced
      /\ \A q \in Queues : \A s \in Slots(q) : items[q][s] = x => q = v /\ s = Slot(q, idx[w])
  BY <1>1, <1>2, <1>3 DEF ThiefInv, UnplacedInv, At
<1> HIDE DEF x, v
<1>5. \A q \in Queues : top[q] \in Nat /\ bottom[q] \in Nat /\ Cap(q) \in Nat
  BY <1>1, CapPositive DEF TypeOK
<1>6. /\ top' \in [Queues -> Nat] /\ bottom' \in [Queues -> Nat]
      /\ top'[v] = top[v] + 1 /\ \A q \in Queues : q # v => top'[q] = top[q]
  <2>1. top \in [Queues -> Nat] /\ bottom \in [Queues -> Nat]
    BY <1>1 DEF TypeOK
  <2> QED BY <1>2, <1>3, <2>1, SMTT(30)
<1>7. /\ \A q \in Queues : top[q] <= top'[q] /\ bottom'[q] <= bottom[q]
      /\ bottom'[Global] = bottom[Global]
  <2>1. ASSUME NEW q \in Queues PROVE top[q] <= top'[q]
    BY <1>5, <1>6
  <2>2. ASSUME NEW q \in Queues PROVE bottom'[q] <= bottom[q]
    BY <1>2, <1>5
  <2> QED BY <1>2, <2>1, <2>2
<1>8. /\ pc'[w] = "running" /\ \A t \in Threads : t # w => pc'[t] = pc[t]
  BY <1>2, LabelStep
<1>9. ASSUME NEW q \in Queues, NEW e \in Ends(q)', NEW i \in top'[q] .. e - 1
      PROVE  items[q][Slot(q, i)] # x
  <2>1. \A r \in Queues : Ends(r)' \subseteq Ends(r)
    <3>1. \A t \in Threads : pc'[t] \in {"push_put", "push_publish"} => pc'[t] = pc[t] /\ idx'[t] = idx[t]
      BY <1>2, <1>8
    <3> QED BY <1>2, <3>1, EndsKept
  <2>2. e \in Int /\ e <= top[q] + Cap(q)
    BY <1>1, <1>9, <2>1, EndsType DEF WindowInv
  <2>3. i \in Int /\ top'[q] <= i /\ i <= e - 1
    BY <1>6, <1>9, <2>2
  <2>4. i \in Nat /\ i < top[q] + Cap(q)
    BY <1>5, <1>6, <2>2, <2>3
  <2>5. SUFFICES ASSUME items[q][Slot(q, i)] = x PROVE FALSE
    OBVIOUS
  <2>6. q = v /\ Slot(q, i) = Slot(q, top[v])
    BY <1>3, <1>4, <2>4, <2>5, SlotInRange
  <2>7. i > top[v] /\ i < top[v] + Cap(v)
    BY <1>3, <1>6, <2>3, <2>4, <2>6
  <2>8. i # top[v] /\ top[v] < i + Cap(v)
    BY <1>3, <1>5, <2>4, <2>7
  <2> QED BY <1>3, <2>4, <2>6, <2>7, <2>8, SlotDistinct
<1>10. ASSUME NEW u \in Workers, u # w, Winning(u)' PROVE Winning(u) /\ task[u] # x
  <2>1. pc[u] = "steal_cas" /\ idx[u] = top'[victim[u]] /\ victim[u] \in Queues /\ idx[u] \in Nat
    BY <1>1, <1>2, <1>8, <1>10 DEF Winning, At, TypeOK
  <2>2. victim[u] # v
    <3>1. idx[u] <= top[victim[u]]
      BY <1>1, <2>1 DEF ThiefInv, At
    <3> QED BY <1>3, <1>6, <2>1, <3>1
  <2>3. Winning(u)
    BY <1>6, <2>1, <2>2 DEF Winning, At
  <2> QED BY <1>1, <1>3, <2>2, <2>3 DEF ThiefInv, x, v
<1>11. ASSUME ~raced PROVE x = items[v][Slot(v, top[v])] /\ top[v] < bottom[v] /\ x \in Queued
  <2>1. x = items[v][Slot(v, top[v])] /\ top[v] < bottom[v]
    BY <1>1, <1>3, <1>11 DEF CleanInv, x, v
  <2>2. top[v] \in top[v] .. bottom[v] - 1
    BY <1>3, <1>5, <2>1
  <2> QED BY <1>3, <2>1, <2>2, QueuedMember
<1>12. ASSUME ~raced, NEW q \in Queues PROVE top'[q] <= bottom'[q]
  <2>1. top[q] <= bottom[q]
    BY <1>1, <1>12 DEF CleanInv
  <2>2. CASE q = v
    BY <1>2, <1>3, <1>5, <1>6, <1>11, <1>12, <2>2
  <2>3. CASE q # v
    BY <1>2, <1>6, <2>1, <2>3
  <2> QED BY <2>2, <2>3
<1>13. ASSUME ~raced, NEW q \in Queues, NEW i \in top[q] .. bottom[q] - 1
       PROVE  i \in top'[q] .. bottom'[q] - 1 \/ items[q][Slot(q, i)] = x
  <2>1. CASE q = v /\ i = top[v]
    BY <1>11, <1>13, <2>1
  <2>2. CASE q = v /\ i # top[v]
    BY <1>2, <1>3, <1>5, <1>6, <1>13, <2>2
  <2>3. CASE q # v
    BY <1>2, <1>6, <1>13, <2>3
  <2> QED BY <2>1, <2>2, <2>3
<1>14. tries' \in [Workers -> 0 .. MaxSteals + 1] /\ \A u \in Workers : u # w => tries'[u] = tries[u]
  BY <1>1, <1>2 DEF TypeOK
<1> QED BY <1>2, <1>4, <1>6, <1>7, <1>9, <1>10, <1>11, <1>12, <1>13, <1>14, TaskTaken

(* A worker pops a task of its own deque: the last one moves top. *)
LEMMA PopTakeStep ==
  ASSUME PoolInv, NEW w \in Workers, WorkerPop(w), ~Empty(w)
  PROVE  PoolInv'
<1> USE Basics
<1>1. /\ TypeOK /\ UnplacedInv /\ WindowInv /\ PlacedInv /\ ThiefInv
      /\ ~raced => CleanInv
  BY DEF PoolInv, PoolSafe
<1> DEFINE j == bottom[w] - 1
           x == items[w][Slot(w, j)]
<1>2. /\ pc[w] = "pop" /\ pc' = [pc EXCEPT ![w] = "running"] /\ "running" \in Labels
      /\ tries' = [tries EXCEPT ![w] = 0]
      /\ task' = [task EXCEPT ![w] = x]
      /\ runs' = [runs EXCEPT ![x] = runs[x] + 1]
      /\ \/ bottom[w] - top[w] = 1 /\ top' = [top EXCEPT ![w] = top[w] + 1] /\ bottom' = bottom
         \/ bottom[w] - top[w] # 1 /\ bottom' = [bottom EXCEPT ![w] = bottom[w] - 1] /\ top' = top
      /\ UNCHANGED <<phase, next, is_running, should_exit, items, arg, idx, victim>>
      /\ UNCHANGED <<total_submitted, total_completed, fresh, accepted, raced>>
  BY DEF WorkerPop, Start, Goto, At, Labels, poolVars, statVars
<1>3. /\ w \in Queues /\ w # Global
      /\ \A q \in Queues : top[q] \in Nat /\ bottom[q] \in Nat /\ Cap(q) \in Nat
  BY <1>1, CapPositive DEF TypeOK
<1>4. top[w] < bottom[w] /\ j \in Nat /\ top[w] <= j /\ bottom[w] = j + 1
  BY <1>3 DEF Empty
<1>5. Slot(w, j) \in Slots(w) /\ j \in top[w] .. bottom[w] - 1
  BY <1>3, <1>4, SlotInRange
<1>6. x \in Tasks /\ runs[x] = 0 /\ x \notin Unplaced /\ j < top[w] + Cap(w)
  <2>1. bottom[w] \in Ends(w)
    BY DEF Ends
  <2>2. x \in Tasks /\ runs[x] = 0 /\ bottom[w] <= top[w] + Cap(w)
    BY <1>1, <1>3, <1>5, <2>1 DEF WindowInv
  <2>3. x \notin Unplaced
    BY <1>1, <1>3, <1>5 DEF UnplacedInv
  <2>4. j < top[w] + Cap(w)
    BY <1>3, <1>4, <2>2
  <2> QED BY <2>2, <2>3, <2>4
<1>7. /\ \A q \in Queues : \A s \in Slots(q) : items[q][s] = x => q = w /\ s = Slot(w, j)
      /\ x \in Queued
  <2>1. x # NoTask
    BY <1>6, PoolAssumption
  <2>2. x \in Queued
    BY <1>3, <1>5, QueuedMember
  <2> QED BY <1>1, <1>3, <1>5, <2>1, <2>2 DEF PlacedInv
<1>8. x = items[w][Slot(w, j)]
  OBVIOUS
<1> HIDE DEF x, j
<1>9. /\ top' \in [Queues -> Nat] /\ bottom' \in [Queues -> Nat]
      /\ \A q \in Queues : q # w => top'[q] = top[q] /\ bottom'[q] = bottom[q]
      /\ \/ top[w] = j /\ top'[w] = j + 1 /\ bottom'[w] = j + 1
         \/ top[w] < j /\ top'[w] = top[w] /\ bottom'[w] = j
  <2>1. CASE bottom[w] - top[w] = 1 /\ top' = [top EXCEPT ![w] = top[w] + 1] /\ bottom' = bottom
    <3>1. top[w] = j
      BY <1>3, <1>4, <2>1
    <3> QED BY <1>1, <1>3, <1>4, <2>1, <3>1 DEF TypeOK
  <2>2. CASE bottom[w] - top[w] # 1 /\ bottom' = [bottom EXCEPT ![w] = bottom[w] - 1] /\ top' = top
    <3>1. top[w] < j /\ bottom[w] - 1 = j
      BY <1>3, <1>4, <2>2
    <3> QED BY <1>1, <1>3, <1>4, <2>2, <3>1 DEF TypeOK
  <2> QED BY <1>2, <2>1, <2>2
<1>10. /\ \A q \in Queues : top[q] <= top'[q] /\ bottom'[q] <= bottom[q]
       /\ bottom'[Global] = bottom[Global]
  <2>1. ASSUME NEW q \in Queues PROVE top[q] <= top'[q] /\ bottom'[q] <= bottom[q]
    <3>1. CASE q = w
      BY <1>3, <1>4, <1>9, <3>1
    <3>2. CASE q # w
      <4>1. top'[q] = top[q] /\ bottom'[q] = bottom[q]
        BY <1>9, <3>2
      <4> QED BY <1>3, <4>1
    <3> QED BY <3>1, <3>2
  <2> QED BY <1>3, <1>9, <2>1
<1>11. pc'[w] = "running" /\ \A t \in Threads : t # w => pc'[t] = pc[t]
  BY <1>2, LabelStep
<1>12. ASSUME NEW q \in Queues, NEW e \in Ends(q)', NEW i \in top'[q] .. e - 1
       PROVE  items[q][Slot(q, i)] # x
  <2>1. CASE q = w
    <3>1. e = bottom'[w] /\ e \in Int
      BY <1>3, <1>9, <1>12, <2>1 DEF Ends
    <3>2. i \in Int /\ top'[w] <= i /\ i <= e - 1
      BY <1>3, <1>9, <1>12, <2>1, <3>1
    <3>3. i \in Nat /\ top[w] <= i /\ i < j
      BY <1>3, <1>4, <1>9, <3>1, <3>2
    <3>4. i # j /\ i < j + Cap(w) /\ j < i + Cap(w)
      BY <1>3, <1>4, <1>6, <3>3
    <3>5. Slot(w, i) # Slot(w, j)
      BY <1>3, <1>4, <3>3, <3>4, SlotDistinct
    <3> QED BY <1>3, <1>7, <2>1, <3>3, <3>5, SlotInRange
  <2>2. CASE q # w
    <3>1. e \in Int
      <4>1. \A t \in Threads : idx'[t] \in Int /\ idx'[t] + 1 \in Int
        BY SMTT(30), <1>1, <1>2 DEF TypeOK
      <4>2. bottom'[q] \in Int
        BY <1>9
      <4> QED BY <1>12, <4>1, <4>2 DEF Ends
    <3>2. i \in Nat
      BY <1>9, <1>12, <3>1
    <3> QED BY <1>7, <2>2, <3>2, SlotInRange
  <2> QED BY <2>1, <2>2
<1>13. ASSUME NEW u \in Workers, u # w, Winning(u)' PROVE Winning(u) /\ task[u] # x
  <2>1. pc[u] = "steal_cas" /\ idx[u] = top'[victim[u]] /\ victim[u] \in Queues /\ idx[u] \in Nat
    BY <1>1, <1>2, <1>11, <1>13 DEF Winning, At, TypeOK
  <2>2. idx[u] <= top[victim[u]]
    BY <1>1, <2>1 DEF ThiefInv, At
  <2>3. idx[u] = top[victim[u]]
    <3>1. top[victim[u]] <= top'[victim[u]] /\ top'[victim[u]] \in Nat
      BY <1>9, <1>10, <2>1
    <3>2. top[victim[u]] \in Nat
      BY <1>3, <2>1
    <3>3. top[victim[u]] <= idx[u]
      BY <2>1, <3>1
    <3> QED BY <2>1, <2>2, <3>2, <3>3
  <2>4. Winning(u)
    BY <2>1, <2>3 DEF Winning, At
  <2>5. ASSUME task[u] = x PROVE FALSE
    <3>1. w = victim[u] /\ Slot(w, j) = Slot(w, idx[u])
      BY <1>1, <1>3, <1>5, <1>8, <2>4, <2>5 DEF ThiefInv
    <3>2. top'[w] = top[w]
      BY <2>1, <2>3, <3>1
    <3>3. top[w] < j
      BY <1>3, <1>4, <1>9, <3>2
    <3>4. idx[u] # j /\ idx[u] < j + Cap(w) /\ j < idx[u] + Cap(w)
      BY <1>3, <1>4, <1>6, <2>3, <3>1, <3>3
    <3> QED BY <1>3, <1>4, <2>1, <3>1, <3>4, SlotDistinct
  <2> QED BY <2>4, <2>5
<1>14. ASSUME ~raced, NEW q \in Queues PROVE top'[q] <= bottom'[q]
  <2>1. CASE q = w
    BY <1>3, <1>4, <1>9, <2>1
  <2>2. CASE q # w
    BY <1>1, <1>9, <1>14, <2>2 DEF CleanInv
  <2> QED BY <2>1, <2>2
<1>15. ASSUME ~raced, NEW q \in Queues, NEW i \in top[q] .. bottom[q] - 1
       PROVE  i \in top'[q] .. bottom'[q] - 1 \/ items[q][Slot(q, i)] = x
  <2>1. CASE q = w /\ i = j
    BY <1>8, <2>1
  <2>2. CASE q = w /\ i # j
    <3>1. i \in Int /\ top[w] <= i /\ i < j
      BY <1>3, <1>4, <1>15, <2>2
    <3> QED BY <1>3, <1>4, <1>9, <2>2, <3>1
  <2>3. CASE q # w
    BY <1>9, <1>15, <2>3
  <2> QED BY <2>1, <2>2, <2>3
<1>16. tries' \in [Workers -> 0 .. MaxSteals + 1] /\ \A u \in Workers : u # w => tries'[u] = tries[u]
  BY <1>1, <1>2 DEF TypeOK, MaxSteals
<1> QED BY <1>2, <1>6, <1>7, <1>9, <1>10, <1>12, <1>13, <1>14, <1>15, <1>16, TaskTaken

-----------------------------------------------------------------------------
(* The initial states. *)
LEMMA InitInv == Init => PoolInv
<1> USE Basics
<1>1. SUFFICES ASSUME Init PROVE PoolInv
  OBVIOUS
<1>2. \A q \in Queues : top[q] = 0 /\ bottom[q] = 0 /\ \A s \in Slots(q) : items[q][s] = NoTask
  BY <1>1 DEF Init, Slots
<1>3. \A p \in Threads : pc[p] = IF p \in Clients THEN "idle" ELSE "unborn"
  BY <1>1 DEF Init
<1>4. TypeOK
  <2>1. next \in Workers /\ victim \in [Workers -> Queues] /\ tries \in [Workers -> 0 .. MaxSteals + 1]
    BY <1>1, PoolAssumption DEF Init, Workers, MaxSteals
  <2>2. pc \in [Threads -> Labels]
    BY <1>1 DEF Init, Labels
  <2>3. DOMAIN items = Queues /\ \A q \in Queues : items[q] \in [0 .. Cap(q) - 1 -> Tasks \cup {NoTask}]
    BY <1>1 DEF Init
  <2> QED BY <1>1, <2>1, <2>2, <2>3 DEF Init, TypeOK, PhaseNames
<1>5. \A p \in Threads : pc[p] \notin {"steal_read", "steal_cas", "push_local", "push_read", "push_put",
                                        "push_publish", "count", "running"}
  BY <1>3
<1>6. \A q \in Queues : Ends(q) = {0}
  BY <1>2, <1>5 DEF Ends, At
<1>7. Queued = {}
  <2>1. \A q \in Queues : QueuedIn(q) = {}
    BY <1>2 DEF QueuedIn
  <2> QED BY <2>1 DEF Queued
<1>8. UnplacedInv
  <2>1. Unplaced \subseteq Tasks
    BY <1>1, <1>5 DEF Init, Unplaced, Pending
  <2> QED BY <1>1, <1>2, <1>5, <2>1, PoolAssumption DEF Init, UnplacedInv, Pending, At
<1>9. PlacedInv
  BY <1>2 DEF PlacedInv
<1>10. WindowInv
  <2>1. \A q \in Queues : Cap(q) \in Nat
    BY CapPositive
  <2>2. ASSUME NEW q \in Queues, NEW e \in Ends(q)
        PROVE  e <= top[q] + Cap(q) /\ top[q] .. e - 1 = {}
    BY <1>2, <1>6, <2>1, <2>2
  <2> QED BY <1>5, <2>2 DEF WindowInv, At
<1>11. ThiefInv
  BY <1>5 DEF ThiefInv, Winning, At
<1>12. PhaseInv
  BY <1>1, <1>3 DEF Init, PhaseInv, At, Workers
<1>13. CleanInv
  <2>1. \A q \in Queues : top[q] <= bottom[q]
    BY <1>2
  <2> QED BY <1>5, <2>1 DEF CleanInv, Winning, PushingGlobal, At
<1>14. TasksAccounted
  <2>1. {p \in Threads : At(p, "count")} = {} /\ {w \in Workers : Between(w)} = {}
    BY <1>5 DEF At, Between
  <2>2. Cardinality({}) = 0
    BY FS_EmptySet
  <2>3. total_submitted = 0 /\ total_completed = 0
    BY <1>1 DEF Init
  <2>4. /\ Cardinality({p \in Threads : At(p, "count")}) = 0
        /\ Cardinality({w \in Workers : Between(w)}) = 0 /\ Cardinality(Queued) = 0
    BY <1>7, <2>1, <2>2
  <2> QED BY <2>3, <2>4 DEF TasksAccounted
<1>15. RunOnce /\ LostOnlyByRace /\ FreedAfterExit
  BY <1>1 DEF Init, RunOnce, LostOnlyByRace, NoLostTask, FreedAfterExit
<1> QED BY <1>4, <1>8, <1>9, <1>10, <1>11, <1>12, <1>13, <1>14, <1>15 DEF PoolInv, PoolSafe

(* Every step of a worker. *)
LEMMA WorkerStepInv ==
  ASSUME PoolInv, NEW w \in Workers, WorkerStep(w)
  PROVE  PoolInv'
<1> USE Basics
<1>1. CASE WorkerLoop(w)
  BY <1>1, WorkerLoopStep
<1>2. CASE WorkerPop(w)
  BY <1>2, PopEmptyStep, PopTakeStep
<1>3. CASE WorkerStealRead(w)
  <2>1. pc[w] = "steal_read"
    BY <1>3 DEF WorkerStealRead, At
  <2>2. CASE NextTry(w, tries[w] + 1) /\ UNCHANGED <<task, idx>>
    <3>1. UNCHANGED <<poolVars, dequeVars, statVars, task, arg, fresh, accepted, runs, raced, idx>>
      BY <1>3, <2>2 DEF WorkerStealRead, ghostVars
    <3> QED BY <2>1, <2>2, <3>1, NextTryStep
  <2>3. CASE /\ ~Empty(victim[w])
             /\ idx' = [idx EXCEPT ![w] = top[victim[w]]]
             /\ task' = [task EXCEPT ![w] = items[victim[w]][Slot(victim[w], top[victim[w]])]]
             /\ Goto(w, "steal_cas")
             /\ UNCHANGED <<victim, tries>>
    <3>1. UNCHANGED <<poolVars, dequeVars, arg, statVars, ghostVars>>
      BY <1>3 DEF WorkerStealRead
    <3> QED BY <2>1, <2>3, <3>1, StealReadStep
  <2> QED BY <1>3, <2>2, <2>3 DEF WorkerStealRead
<1>4. CASE WorkerStealCas(w)
  <2>1. CASE top[victim[w]] = idx[w]
    BY <1>4, <2>1, StealWinStep
  <2>2. CASE top[victim[w]] # idx[w]
    <3>1. /\ pc[w] = "steal_cas" /\ NextTry(w, tries[w] + 1)
          /\ UNCHANGED <<poolVars, dequeVars, statVars, task, arg, fresh, accepted, runs, raced, idx>>
      BY <1>4, <2>2 DEF WorkerStealCas, At, dequeVars
    <3> QED BY <3>1, NextTryStep
  <2> QED BY <2>1, <2>2
<1>5. CASE WorkerFinish(w)
  BY <1>5, FinishStep
<1>6. CASE SubmitLocal(w)
  BY <1>6, LocalFullStep, LocalPushStep
<1>7. CASE SubmitStep(w)
  BY <1>7, GlobalFullStep, GlobalReadStep, GlobalPutStep, GlobalPublishStep, CountStep DEF SubmitStep
<1> QED BY <1>1, <1>2, <1>3, <1>4, <1>5, <1>6, <1>7 DEF WorkerStep

(* Every step of the pool. *)
LEMMA StepInv == PoolInv /\ [Next]_vars => PoolInv'
<1> USE Basics
<1>1. SUFFICES ASSUME PoolInv, [Next]_vars PROVE PoolInv'
  OBVIOUS
<1>2. CASE Control
  BY <1>1, <1>2, ControlStep
<1>3. CASE \E p \in Threads, x \in Tasks : SubmitCheck(p, x)
  BY <1>1, <1>3, CheckStep
<1>4. CASE \E w \in Workers : WorkerStep(w)
  BY <1>1, <1>4, WorkerStepInv
<1>5. CASE \E c \in Clients : SubmitStep(c)
  BY <1>1, <1>5, GlobalFullStep, GlobalReadStep, GlobalPutStep, GlobalPublishStep, CountStep DEF SubmitStep
<1>6. CASE UNCHANGED vars
  <2>1. /\ UNCHANGED <<phase, next, is_running, should_exit, top, bottom, items, pc, task, arg, idx, victim, tries>>
        /\ UNCHANGED <<total_submitted, total_completed, fresh, accepted, runs, raced>>
    BY <1>6 DEF vars, poolVars, dequeVars, localVars, statVars, ghostVars
  <2>2. TypeOK' /\ RunOnce' /\ FreedAfterExit' /\ PhaseInv'
    BY <1>1, <2>1 DEF PoolInv, PoolSafe, TypeOK, RunOnce, FreedAfterExit, PhaseInv, At
  <2>3. Queued' = Queued
    BY <2>1 DEF Queued, QueuedIn
  <2>4. LostOnlyByRace' /\ TasksAccounted'
    BY <1>1, <2>1, <2>3 DEF PoolInv, PoolSafe, LostOnlyByRace, NoLostTask, TasksAccounted, At, Between
  <2>5. UnplacedInv' /\ PlacedInv'
    BY <1>1, <2>1 DEF PoolInv, UnplacedInv, PlacedInv, Unplaced, Pending, At
  <2>6. WindowInv' /\ ThiefInv'
    <3>1. /\ \A q \in Queues : Ends(q)' = Ends(q)
          /\ \A u \in Workers : Winning(u)' = Winning(u)
      BY <2>1 DEF Ends, Winning, At
    <3>2. WindowInv'
      BY <1>1, <2>1, <3>1 DEF PoolInv, WindowInv, At
    <3>3. ThiefInv'
      BY <1>1, <2>1, <3>1 DEF PoolInv, ThiefInv, At
    <3> QED BY <3>2, <3>3
  <2>7. ~raced' => CleanInv'
    BY <1>1, <2>1, <2>3 DEF PoolInv, CleanInv, PushingGlobal, Winning, At
  <2> QED BY <2>2, <2>4, <2>5, <2>6, <2>7 DEF PoolInv, PoolSafe
<1> QED BY <1>1, <1>2, <1>3, <1>4, <1>5, <1>6 DEF Next

-----------------------------------------------------------------------------
(* The invariant of the pool holds in every reachable state: below every   *)
(* end that a push, however stale, may still give a deque lie tasks that   *)
(* have not run, no task is in two slots, and what a thief can still win   *)
(* has not run.                                                            *)
THEOREM PoolInvariant == Spec => []PoolInv
BY InitInv, StepInv, PTL DEF Spec

(* The pool is safe, from pool_create to pool_destroy: no task runs twice, *)
(* even if pushes on the global deque overlap; none that pool_submit       *)
(* accepted is lost, and the statistics account for every task, while none *)
(* overlap; and the deques are freed under no worker.                      *)
THEOREM PoolIsSafe == Spec => []PoolSafe
<1>1. PoolInv => PoolSafe
  BY DEF PoolInv
<1> QED BY <1>1, PoolInvariant, PTL
=============================================================================
