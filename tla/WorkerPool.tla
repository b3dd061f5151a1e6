----------------------------- MODULE WorkerPool -----------------------------
(***************************************************************************)
(* runtime/async/scheduler.c: the work-stealing worker pool.  Every worker *)
(* has a deque of its own; threads outside the pool, and workers whose own *)
(* deque is full, push to the global deque; idle workers steal.            *)
(*                                                                         *)
(* A push or a pop of a worker on its own deque is one step, which is what *)
(* LockFreeDeque shows of a deque with one owner.  A steal is two steps:   *)
(* the loads, and the exchange of top that may fail.  A push on the global *)
(* deque, which has no owner, keeps its loads, its write and its store     *)
(* apart.                                                                  *)
(***************************************************************************)
EXTENDS Integers, FiniteSets

CONSTANTS NumWorkers,      \* pool->num_workers
          Clients,         \* threads outside the pool that call pool_submit
          Tasks, NoTask,   \* tasks; each is submitted at most once
          Roots,           \* the tasks that clients submit; tasks submit the others
          LocalCapacity,   \* capacity of a worker's deque
          GlobalCapacity   \* capacity of the global deque

ASSUME PoolAssumption ==
  /\ NumWorkers \in Nat \ {0}
  /\ LocalCapacity \in Nat \ {0}
  /\ GlobalCapacity \in Nat \ {0}
  /\ IsFiniteSet(Tasks) /\ IsFiniteSet(Clients)
  /\ Clients \cap (0 .. NumWorkers) = {}
  /\ Roots \subseteq Tasks
  /\ NoTask \notin Tasks

Workers == 0 .. NumWorkers - 1
Global == NumWorkers
Queues == 0 .. NumWorkers
Threads == Workers \cup Clients
MaxSteals == 3

VARIABLES phase,         \* where the thread that creates and destroys the pool is
          next,          \* its loop index
          is_running,    \* pool->is_running
          should_exit,   \* worker->should_exit
          top, bottom, items,   \* the deques
          pc,            \* where each worker and each client is
          task,          \* the task a worker holds
          arg,           \* the task a thread is submitting
          idx,           \* the index a half-done push or steal has loaded
          victim, tries, \* the deque a worker steals from, its steals so far
          total_submitted, total_completed,
          fresh,         \* tasks nobody has submitted yet
          accepted,      \* tasks for which pool_submit returned true
          runs,          \* how often each task has been started
          raced          \* two pushes on the global deque have overlapped

poolVars == <<phase, next, is_running, should_exit>>
dequeVars == <<top, bottom, items>>
localVars == <<pc, task, arg, idx, victim, tries>>
statVars == <<total_submitted, total_completed>>
ghostVars == <<fresh, accepted, runs, raced>>
vars == <<poolVars, dequeVars, localVars, statVars, ghostVars>>

Cap(q) == IF q = Global THEN GlobalCapacity ELSE LocalCapacity
Slot(q, i) == i % Cap(q)
Full(q) == bottom[q] - top[q] >= Cap(q)
Empty(q) == top[q] >= bottom[q]

At(p, label) == pc[p] = label
Goto(p, label) == pc' = [pc EXCEPT ![p] = label]

Init ==
  /\ phase = "creating"
  /\ next = 0
  /\ is_running = TRUE
  /\ should_exit = [w \in Workers |-> FALSE]
  /\ top = [q \in Queues |-> 0]
  /\ bottom = [q \in Queues |-> 0]
  /\ items = [q \in Queues |-> [i \in 0 .. Cap(q) - 1 |-> NoTask]]
  /\ pc = [p \in Threads |-> IF p \in Clients THEN "idle" ELSE "unborn"]
  /\ task = [w \in Workers |-> NoTask]
  /\ arg = [p \in Threads |-> NoTask]
  /\ idx = [p \in Threads |-> 0]
  /\ victim = [w \in Workers |-> Global]
  /\ tries = [w \in Workers |-> 0]
  /\ total_submitted = 0
  /\ total_completed = 0
  /\ fresh = Tasks
  /\ accepted = {}
  /\ runs = [x \in Tasks |-> 0]
  /\ raced = FALSE

-----------------------------------------------------------------------------
(* pool_create: the loop that starts the workers. *)

CreateWorker ==
  /\ phase = "creating"
  /\ Goto(next, "loop")
  /\ IF next + 1 = NumWorkers
       THEN phase' = "up" /\ next' = 0
       ELSE next' = next + 1 /\ UNCHANGED phase
  /\ UNCHANGED <<is_running, should_exit, dequeVars, task, arg, idx, victim,
                 tries, statVars, ghostVars>>

(* pthread_create fails: the deques and the pool are freed, whether or not *)
(* other workers run already.  What they do from then on is undefined; the *)
(* model lets them find the memory as it was.                              *)
CreateFails ==
  /\ phase = "creating"
  /\ phase' = "failed"
  /\ UNCHANGED <<next, is_running, should_exit, dequeVars, localVars,
                 statVars, ghostVars>>

(* pool_shutdown *)
ShutdownBegin ==
  /\ phase = "up"
  /\ is_running' = FALSE
  /\ phase' = "signalling"
  /\ next' = 0
  /\ UNCHANGED <<should_exit, dequeVars, localVars, statVars, ghostVars>>

(* Mutation: the loop stops before the last worker. *)
ShutdownSignalOffByOne ==
  /\ phase = "signalling"
  /\ IF next + 1 >= NumWorkers
       THEN phase' = "down" /\ next' = 0 /\ UNCHANGED should_exit
       ELSE /\ should_exit' = [should_exit EXCEPT ![next] = TRUE]
            /\ next' = next + 1
            /\ UNCHANGED phase
  /\ UNCHANGED <<is_running, dequeVars, localVars, statVars, ghostVars>>

ShutdownSignal ==
  /\ phase = "signalling"
  /\ should_exit' = [should_exit EXCEPT ![next] = TRUE]
  /\ IF next + 1 = NumWorkers
       THEN phase' = "down" /\ next' = 0
       ELSE next' = next + 1 /\ UNCHANGED phase
  /\ UNCHANGED <<is_running, dequeVars, localVars, statVars, ghostVars>>

(* pool_destroy, called after the last client is done with the pool: the   *)
(* caller must not free what another thread has in hand.                   *)
DestroyBegin ==
  /\ phase = "down"
  /\ \A c \in Clients : At(c, "idle")
  /\ phase' = "joining"
  /\ UNCHANGED <<next, is_running, should_exit, dequeVars, localVars,
                 statVars, ghostVars>>

DestroyJoin ==
  /\ phase = "joining"
  /\ At(next, "exited")
  /\ IF next + 1 = NumWorkers
       THEN phase' = "freed" /\ next' = 0
       ELSE next' = next + 1 /\ UNCHANGED phase
  /\ UNCHANGED <<is_running, should_exit, dequeVars, localVars, statVars,
                 ghostVars>>

-----------------------------------------------------------------------------
(* pool_submit, by a client or by the task that a worker runs. *)

SubmitReturn(p) == Goto(p, IF p \in Clients THEN "idle" ELSE "running")

SubmitCheck(p, x) ==
  /\ IF p \in Clients
       THEN At(p, "idle") /\ x \in Roots /\ phase \in {"up", "signalling", "down"}
       ELSE At(p, "running") /\ x \notin Roots
  /\ x \in fresh
  /\ fresh' = fresh \ {x}
  /\ IF is_running
       THEN /\ arg' = [arg EXCEPT ![p] = x]
            /\ Goto(p, IF p \in Clients THEN "push_read" ELSE "push_local")
       ELSE UNCHANGED <<arg, pc>>
  /\ UNCHANGED <<poolVars, dequeVars, task, idx, victim, tries, statVars,
                 accepted, runs, raced>>

Write(q, i, x) == items' = [items EXCEPT ![q][Slot(q, i)] = x]

SubmitLocal(w) ==
  /\ At(w, "push_local")
  /\ IF Full(w)
       THEN Goto(w, "push_read") /\ UNCHANGED <<items, bottom>>
       ELSE /\ Write(w, bottom[w], arg[w])
            /\ bottom' = [bottom EXCEPT ![w] = @ + 1]
            /\ Goto(w, "count")
  /\ UNCHANGED <<poolVars, top, task, arg, idx, victim, tries, statVars,
                 ghostVars>>

(* q is between the loads and the store of a push on the global deque. *)
PushingGlobal(q) == pc[q] \in {"push_put", "push_publish"}

(* A full global deque: the task is destroyed and false returned. *)
SubmitGlobalRead(p) ==
  /\ At(p, "push_read")
  /\ idx' = [idx EXCEPT ![p] = bottom[Global]]
  /\ IF Full(Global)
       THEN SubmitReturn(p)
       ELSE Goto(p, "push_put")
  /\ raced' = (raced \/ \E q \in Threads : PushingGlobal(q))
  /\ UNCHANGED <<poolVars, dequeVars, task, arg, victim, tries, statVars,
                 fresh, accepted, runs>>

SubmitGlobalPut(p) ==
  /\ At(p, "push_put")
  /\ Write(Global, idx[p], arg[p])
  /\ Goto(p, "push_publish")
  /\ UNCHANGED <<poolVars, top, bottom, task, arg, idx, victim, tries,
                 statVars, ghostVars>>

SubmitGlobalPublish(p) ==
  /\ At(p, "push_publish")
  /\ bottom' = [bottom EXCEPT ![Global] = idx[p] + 1]
  /\ Goto(p, "count")
  /\ UNCHANGED <<poolVars, top, items, task, arg, idx, victim, tries,
                 statVars, ghostVars>>

SubmitCount(p) ==
  /\ At(p, "count")
  /\ total_submitted' = total_submitted + 1
  /\ accepted' = accepted \cup {arg[p]}
  /\ SubmitReturn(p)
  /\ UNCHANGED <<poolVars, dequeVars, task, arg, idx, victim, tries,
                 total_completed, fresh, runs, raced>>

-----------------------------------------------------------------------------
(* worker_thread_main, worker_get_task and worker_try_steal *)

WorkerLoop(w) ==
  /\ At(w, "loop")
  /\ Goto(w, IF should_exit[w] THEN "exited" ELSE "pop")
  /\ UNCHANGED <<poolVars, dequeVars, task, arg, idx, victim, tries, statVars,
                 ghostVars>>

(* task_execute starts x. *)
Start(w, x) ==
  /\ task' = [task EXCEPT ![w] = x]
  /\ runs' = [runs EXCEPT ![x] = @ + 1]
  /\ Goto(w, "running")

(* Mutation: a worker with an empty deque sleeps without trying to steal. *)
WorkerPopOnly(w) ==
  /\ At(w, "pop")
  /\ IF Empty(w)
       THEN Goto(w, "loop") /\ UNCHANGED <<top, task, runs>>
       ELSE /\ Start(w, items[w][Slot(w, bottom[w] - 1)])
            /\ top' = [top EXCEPT ![w] = @ + 1]
  /\ UNCHANGED <<poolVars, bottom, items, arg, idx, victim, tries, statVars,
                 fresh, accepted, raced>>

(* deque_pop on the worker's own deque; the last item moves top. *)
WorkerPop(w) ==
  /\ At(w, "pop")
  /\ tries' = [tries EXCEPT ![w] = 0]
  /\ IF Empty(w)
       THEN /\ victim' = [victim EXCEPT ![w] = Global]
            /\ Goto(w, "steal_read")
            /\ UNCHANGED <<top, bottom, task, runs>>
       ELSE /\ Start(w, items[w][Slot(w, bottom[w] - 1)])
            /\ IF bottom[w] - top[w] = 1
                 THEN top' = [top EXCEPT ![w] = @ + 1] /\ UNCHANGED bottom
                 ELSE bottom' = [bottom EXCEPT ![w] = @ - 1] /\ UNCHANGED top
            /\ UNCHANGED victim
  /\ UNCHANGED <<poolVars, items, arg, idx, statVars, fresh, accepted, raced>>

(* A failed steal: the next try, on a victim picked at random, or sleep. *)
NextTry(w, n) ==
  /\ tries' = [tries EXCEPT ![w] = n]
  /\ IF NumWorkers = 1 \/ n > MaxSteals
       THEN Goto(w, "loop") /\ UNCHANGED victim
       ELSE /\ \E v \in Workers \ {w} : victim' = [victim EXCEPT ![w] = v]
            /\ Goto(w, "steal_read")

(* The owner of q may be popping its last item, with bottom decremented. *)
LastInPop(q) == q # Global /\ At(q, "pop") /\ bottom[q] - top[q] = 1

(* deque_steal up to the exchange *)
WorkerStealRead(w) ==
  /\ At(w, "steal_read")
  /\ \/ /\ Empty(victim[w]) \/ LastInPop(victim[w])
        /\ NextTry(w, tries[w] + 1)
        /\ UNCHANGED <<task, idx>>
     \/ /\ ~Empty(victim[w])
        /\ idx' = [idx EXCEPT ![w] = top[victim[w]]]
        /\ task' = [task EXCEPT
              ![w] = items[victim[w]][Slot(victim[w], top[victim[w]])]]
        /\ Goto(w, "steal_cas")
        /\ UNCHANGED <<victim, tries>>
  /\ UNCHANGED <<poolVars, dequeVars, arg, statVars, ghostVars>>

(* Mutation: the result of the exchange is ignored. *)
WorkerStealCasIgnored(w) ==
  /\ At(w, "steal_cas")
  /\ top' = [top EXCEPT ![victim[w]] = idx[w] + 1]
  /\ Start(w, task[w])
  /\ UNCHANGED <<poolVars, bottom, items, arg, idx, victim, tries, statVars,
                 fresh, accepted, raced>>

WorkerStealCas(w) ==
  /\ At(w, "steal_cas")
  /\ IF top[victim[w]] = idx[w]
       THEN /\ top' = [top EXCEPT ![victim[w]] = @ + 1]
            /\ Start(w, task[w])
            /\ UNCHANGED <<victim, tries>>
       ELSE /\ NextTry(w, tries[w] + 1)
            /\ UNCHANGED <<top, task, runs>>
  /\ UNCHANGED <<poolVars, bottom, items, arg, idx, statVars, fresh, accepted, raced>>

(* The task returns; it is counted and destroyed. *)
WorkerFinish(w) ==
  /\ At(w, "running")
  /\ total_completed' = total_completed + 1
  /\ task' = [task EXCEPT ![w] = NoTask]
  /\ Goto(w, "loop")
  /\ UNCHANGED <<poolVars, dequeVars, arg, idx, victim, tries,
                 total_submitted, ghostVars>>

-----------------------------------------------------------------------------
Control ==
  \/ CreateWorker
  \/ CreateFails
  \/ ShutdownBegin
  \/ ShutdownSignal
  \/ DestroyBegin
  \/ DestroyJoin

SubmitStep(p) ==
  \/ SubmitGlobalRead(p)
  \/ SubmitGlobalPut(p)
  \/ SubmitGlobalPublish(p)
  \/ SubmitCount(p)

WorkerStep(w) ==
  \/ WorkerLoop(w)
  \/ WorkerPop(w)
  \/ WorkerStealRead(w)
  \/ WorkerStealCas(w)
  \/ WorkerFinish(w)
  \/ SubmitLocal(w)
  \/ SubmitStep(w)

Next ==
  \/ Control
  \/ \E p \in Threads, x \in Tasks : SubmitCheck(p, x)
  \/ \E w \in Workers : WorkerStep(w)
  \/ \E c \in Clients : SubmitStep(c)

(* Threads keep running, a started loop of the main thread goes on, and    *)
(* every task returns: WorkerFinish stays enabled while a task runs, and a *)
(* task can submit only finitely often.                                    *)
Fairness ==
  /\ \A w \in Workers : WF_vars(WorkerStep(w))
  /\ \A c \in Clients : WF_vars(SubmitStep(c))
  /\ WF_vars(CreateWorker)
  /\ WF_vars(ShutdownSignal)
  /\ WF_vars(DestroyJoin)

Spec == Init /\ [][Next]_vars
FairSpec == Spec /\ Fairness

-----------------------------------------------------------------------------
PhaseNames == {"creating", "up", "signalling", "down", "joining", "freed",
               "failed"}
Labels == {"idle", "unborn", "loop", "pop", "steal_read", "steal_cas",
           "running", "push_local", "push_read", "push_put", "push_publish",
           "count", "exited"}

(* Type invariant of the pool. *)
TypeOK ==
  /\ phase \in PhaseNames
  /\ next \in Workers
  /\ is_running \in BOOLEAN
  /\ should_exit \in [Workers -> BOOLEAN]
  /\ top \in [Queues -> Nat]
  /\ bottom \in [Queues -> Nat]
  /\ DOMAIN items = Queues
  /\ \A q \in Queues : items[q] \in [0 .. Cap(q) - 1 -> Tasks \cup {NoTask}]
  /\ pc \in [Threads -> Labels]
  /\ task \in [Workers -> Tasks \cup {NoTask}]
  /\ arg \in [Threads -> Tasks \cup {NoTask}]
  /\ idx \in [Threads -> Nat]
  /\ victim \in [Workers -> Queues]
  /\ tries \in [Workers -> 0 .. MaxSteals + 1]
  /\ total_submitted \in Nat
  /\ total_completed \in Nat
  /\ fresh \in SUBSET Tasks
  /\ accepted \in SUBSET Tasks
  /\ runs \in [Tasks -> Nat]
  /\ raced \in BOOLEAN

QueuedIn(q) == {items[q][Slot(q, i)] : i \in top[q] .. bottom[q] - 1}
Queued == UNION {QueuedIn(q) : q \in Queues}

(* No task is started twice: the pops and steals of two workers racing for *)
(* it cannot both win, or its Task would be freed twice.  This holds even  *)
(* if pushes on the global deque overlap.                                  *)
RunOnce == \A x \in Tasks : runs[x] <= 1

(* scheduler.h: a task for which pool_submit returned true "will be        *)
(* assigned to a worker or placed in global queue": it waits in a deque    *)
(* until a worker has started it.                                          *)
NoLostTask == \A x \in accepted : x \in Queued \/ runs[x] > 0

(* Overlapping pushes on the global deque, which its header rules out, are *)
(* the only way to lose an accepted task: not a full deque, a shutdown, a  *)
(* lost steal or a task that submits tasks.                                *)
LostOnlyByRace == ~raced => NoLostTask

(* The statistics agree with the deques: every task pushed is waiting, in  *)
(* the hands of a worker or completed.  A push is counted only after the   *)
(* task is visible, so total_completed may run ahead of total_submitted by *)
(* the pushes not counted yet and by no more.                              *)
Between(w) == pc[w] \in {"running", "push_local", "push_read", "push_put",
                         "push_publish", "count"}
TasksAccounted ==
  ~raced =>
    total_submitted + Cardinality({p \in Threads : At(p, "count")})
      = Cardinality(Queued) + total_completed
          + Cardinality({w \in Workers : Between(w)})

(* pool_destroy frees the deques and the pool only when no worker can use  *)
(* them again: all have left their loops, whatever they were doing when    *)
(* the pool was shut down.                                                 *)
FreedAfterExit ==
  phase = "freed" => \A w \in Workers : At(w, "exited")

(* Safety of the pool, from pool_create to pool_destroy: no task runs      *)
(* twice, none is lost while no two pushes on the global deque overlap,    *)
(* none is unaccounted for, nothing is freed under a worker.               *)
PoolSafe == TypeOK /\ RunOnce /\ LostOnlyByRace /\ TasksAccounted /\ FreedAfterExit

(* An accepted task is started unless the pool is shut down, or two pushes *)
(* on the global deque overlapped.                                         *)
AcceptedRuns ==
  \A x \in Tasks : (x \in accepted) ~> (runs[x] > 0 \/ ~is_running \/ raced)

(* A pool that is shut down stops: every worker leaves its loop. *)
ShutdownStops ==
  (phase = "signalling") ~> (\A w \in Workers : At(w, "exited"))
-----------------------------------------------------------------------------
(* The inductive invariant behind PoolSafe.                                *)

Slots(q) == 0 .. Cap(q) - 1

(* A submitted task that is in no deque yet. *)
Pending(p) == pc[p] \in {"push_local", "push_read", "push_put"}
Unplaced == fresh \cup {arg[p] : p \in {t \in Threads : Pending(t)}}

(* The worker holds a stolen task, and the exchange of top would succeed. *)
Winning(w) == At(w, "steal_cas") /\ idx[w] = top[victim[w]]

(* The ends that deque q has or can still be given: its bottom, and those  *)
(* that half-done pushes on the global deque will store, however stale.    *)
Ends(q) ==
  {bottom[q]} \cup
    (IF q = Global
       THEN {idx[p] : p \in {t \in Threads : At(t, "push_put")}}
              \cup {idx[p] + 1 : p \in {t \in Threads : At(t, "push_publish")}}
       ELSE {})

(* A task that is not in a deque yet has not run, was not stolen, and is   *)
(* being submitted by one thread.                                          *)
UnplacedInv ==
  /\ \A p \in Threads : Pending(p) => arg[p] \notin fresh
  /\ \A p \in Threads : Pending(p) \/ pc[p] \in {"push_publish", "count"} => arg[p] \in Tasks
  /\ \A p, q \in Threads : Pending(p) /\ Pending(q) /\ arg[p] = arg[q] => p = q
  /\ \A x \in Unplaced :
       /\ runs[x] = 0
       /\ \A q \in Queues : \A s \in Slots(q) : items[q][s] # x
       /\ \A w \in Workers : At(w, "steal_cas") => task[w] # x

(* No task is in two slots. *)
PlacedInv ==
  \A q1, q2 \in Queues : \A s1 \in Slots(q1), s2 \in Slots(q2) :
    items[q1][s1] = items[q2][s2] /\ items[q1][s1] # NoTask => q1 = q2 /\ s1 = s2

(* Up to every end that a deque can be given, its slots hold tasks that    *)
(* have not run.                                                           *)
WindowInv ==
  /\ \A q \in Queues : \A e \in Ends(q) :
       /\ e <= top[q] + Cap(q)
       /\ \A i \in top[q] .. e - 1 :
            items[q][Slot(q, i)] \in Tasks /\ runs[items[q][Slot(q, i)]] = 0
  /\ \A p \in Threads : At(p, "push_put") => idx[p] < top[Global] + Cap(Global)

(* A task that a worker may win has not run, and can only be found where   *)
(* the worker found it.                                                    *)
ThiefInv ==
  /\ \A w \in Workers : At(w, "steal_cas") => idx[w] <= top[victim[w]] /\ task[w] \in Tasks
  /\ \A w \in Workers : Winning(w) =>
       /\ runs[task[w]] = 0
       /\ \A q \in Queues : \A s \in Slots(q) :
            items[q][s] = task[w] => q = victim[w] /\ s = Slot(q, idx[w])
  /\ \A v, w \in Workers :
       Winning(v) /\ Winning(w) /\ task[v] = task[w] => victim[v] = victim[w]

(* While no two pushes on the global deque have overlapped, it is a queue  *)
(* like the others, and what was pushed is in it until it was started.     *)
CleanInv ==
  /\ \A p, q \in Threads : PushingGlobal(p) /\ PushingGlobal(q) => p = q
  /\ \A p \in Threads : PushingGlobal(p) => idx[p] = bottom[Global]
  /\ \A p \in Threads : At(p, "push_publish") => items[Global][Slot(Global, bottom[Global])] = arg[p]
  /\ \A q \in Queues : top[q] <= bottom[q]
  /\ \A w \in Workers : Winning(w) =>
       /\ top[victim[w]] < bottom[victim[w]]
       /\ task[w] = items[victim[w]][Slot(victim[w], top[victim[w]])]
  /\ \A p \in Threads : At(p, "count") => arg[p] \in Queued \/ runs[arg[p]] > 0

(* The phases of the pool and of its workers. *)
PhaseInv ==
  /\ \A c \in Clients : pc[c] \in {"idle", "push_read", "push_put", "push_publish", "count"}
  /\ \A w \in Workers : pc[w] # "idle"
  /\ \A w \in Workers : pc[w] \in {"steal_read", "steal_cas"} => tries[w] <= MaxSteals
  /\ phase = "creating" => \A w \in next .. NumWorkers - 1 : At(w, "unborn")
  /\ phase = "down" => next = 0
  /\ phase = "joining" => \A w \in 0 .. next - 1 : At(w, "exited")

(* The strengthening of PoolSafe that every step preserves. *)
PoolInv ==
  /\ PoolSafe
  /\ UnplacedInv /\ PlacedInv /\ WindowInv /\ ThiefInv /\ PhaseInv
  /\ ~raced => CleanInv
=============================================================================
