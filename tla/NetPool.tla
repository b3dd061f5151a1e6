------------------------------- MODULE NetPool -------------------------------
(***************************************************************************)
(* The network thread pool: runtime/net/threadpool.c over the injection    *)
(* queue of runtime/net/mpsc_queue.c.  Clients enqueue tasks; a worker     *)
(* moves them from the queue to its own deque, which grows, and runs tasks *)
(* of its deque or of another one.  pending_count is the futex the idle    *)
(* workers sleep on, and clients in cx_threadpool_wait too: a wake is      *)
(* limited to as many sleepers as the pool has threads, whoever they are.  *)
(*                                                                         *)
(* A task and its queue node are one value.  One action is one access to   *)
(* memory other threads write, together with accesses that commute with    *)
(* every other thread's.  The plain variable q->tail is raced on by the    *)
(* workers: its accesses are actions of their own.  Arena allocations fail *)
(* when the arena is full, which may be at any call.                       *)
(***************************************************************************)
EXTENDS Integers, Sequences, FiniteSets

CONSTANTS
    NetWorkers,   \* the threads of the pool
    NetClients,   \* threads that submit, wait, and then destroy the pool
    NetSubmits,   \* bound: tasks per client
    NetInitCap    \* capacity a deque starts with: 1024, a power of two

ASSUME NetWorkersAssumption == IsFiniteSet(NetWorkers)
ASSUME NetClientsAssumption == IsFiniteSet(NetClients)
ASSUME NetSubmitsAssumption == NetSubmits \in Nat
ASSUME NetInitCapAssumption == NetInitCap \in Nat \ {0, 1}

NetTasks == NetClients \X (1 .. NetSubmits)
Null == <<>>
Stub == <<"stub">>
NetNodes == NetTasks \cup {Stub}

VARIABLES
    q_head, q_tail, q_next,            \* the injection queue
    dq_top, dq_bottom, dq_buf, dq_cap, \* the deques; dq_buf is the current buffer
    pending_count, net_running,
    net_asleep,                        \* workers in futex_wait
    net_wpc, net_loc,                  \* program counter and locals of a worker
    net_cpc, net_sent, net_prev,       \* a client's program counter, calls, local prev;
                                       \* it is "asleep" while in futex_wait
    \* History:
    net_queued,   \* tasks whose enqueue succeeded
    net_ran,      \* how often each task ran
    net_raced,    \* q->tail was written while another worker held its old value
    net_torn,     \* a thief that can win has indexed a buffer with another one's capacity
    net_early,    \* a task was finished before its submit counted it
    net_spent,    \* waiting clients took every wake of a submit, no worker that slept did
    net_late      \* a worker went to sleep after destroy had woken the others

netQueue == <<q_head, q_tail, q_next>>
netDeques == <<dq_top, dq_bottom, dq_buf, dq_cap>>
netFlags == <<pending_count, net_running, net_asleep>>
netClient == <<net_cpc, net_sent, net_prev>>
netHistory == <<net_queued, net_ran, net_raced, net_torn, net_early, net_spent, net_late>>
netVars == <<netQueue, netDeques, netFlags, net_wpc, net_loc, netClient, netHistory>>

NetLabels == {"loop", "next", "tail", "push", "grow", "cap", "store", "pop", "top", "steal",
              "bottom", "buf", "cas", "run", "idle", "wait", "exit"}
NetClientLabels == {"submit", "link", "count", "wake", "test", "sleep", "asleep",
                    "done", "join", "joined"}
NetLocals == [tail : NetNodes, next : NetTasks \cup {Null}, task : NetTasks \cup {Null},
              t : Nat, cap : Nat, victim : NetWorkers]
NetNoLocals(w) == [tail |-> Stub, next |-> Null, task |-> Null, t |-> 0, cap |-> 0, victim |-> w]

NetAt(v, labels) == net_wpc[v] \in labels

\* The size of the buffer that is published: the capacity follows it.
NetBufCap(w) == IF NetAt(w, {"cap"}) THEN 2 * dq_cap[w] ELSE dq_cap[w]

\* The types; and bottom is below top by at most the entry a pop reserves.
NetTypeOK ==
    /\ q_head \in NetNodes /\ q_tail \in NetNodes
    /\ q_next \in [NetNodes -> NetTasks \cup {Null}]
    /\ dq_top \in [NetWorkers -> Nat] /\ dq_bottom \in [NetWorkers -> Int]
    /\ \A w \in NetWorkers : dq_bottom[w] >= dq_top[w] - 1
    /\ dq_cap \in [NetWorkers -> Nat \ {0}] /\ DOMAIN dq_buf = NetWorkers
    /\ \A w \in NetWorkers : dq_buf[w] \in [0 .. NetBufCap(w) - 1 -> NetTasks \cup {Null}]
    /\ pending_count \in Int /\ net_running \in BOOLEAN /\ net_asleep \subseteq NetWorkers
    /\ net_wpc \in [NetWorkers -> NetLabels]
    /\ net_loc \in [NetWorkers -> NetLocals]
    /\ net_cpc \in [NetClients -> NetClientLabels]
    /\ net_sent \in [NetClients -> 0 .. NetSubmits] /\ net_prev \in [NetClients -> NetNodes]
    /\ net_queued \subseteq NetTasks /\ net_ran \in [NetTasks -> Nat]
    /\ {net_raced, net_torn, net_early, net_spent, net_late} \subseteq BOOLEAN

\* A worker looks for its own entry in tp->workers; pthread_create may not yet
\* have stored it, and then the worker returns at once.
NetInit ==
    /\ q_head = Stub /\ q_tail = Stub /\ q_next = [n \in NetNodes |-> Null]
    /\ dq_top = [w \in NetWorkers |-> 0] /\ dq_bottom = [w \in NetWorkers |-> 0]
    /\ dq_buf = [w \in NetWorkers |-> [i \in 0 .. NetInitCap - 1 |-> Null]]
    /\ dq_cap = [w \in NetWorkers |-> NetInitCap]
    /\ pending_count = 0 /\ net_running = TRUE /\ net_asleep = {}
    /\ net_wpc \in [NetWorkers -> {"loop", "exit"}]
    /\ net_loc = [w \in NetWorkers |-> NetNoLocals(w)]
    /\ net_cpc = [c \in NetClients |-> "submit"] /\ net_sent = [c \in NetClients |-> 0]
    /\ net_prev = [c \in NetClients |-> Stub]
    /\ net_queued = {} /\ net_ran = [k \in NetTasks |-> 0]
    /\ net_raced = FALSE /\ net_torn = FALSE
    /\ net_early = FALSE /\ net_spent = FALSE /\ net_late = FALSE

-----------------------------------------------------------------------------
(* Clients: cx_threadpool_submit, cx_mpsc_enqueue, cx_threadpool_wait,      *)
(* cx_threadpool_destroy.                                                   *)

NetTaskOf(c) == <<c, net_sent[c]>>
NetClientGoto(c, label) == net_cpc' = [net_cpc EXCEPT ![c] = label]

\* The node is exchanged into q->head; or an allocation fails and the task
\* is dropped without a word.
NetSubmit(c) ==
    /\ net_cpc[c] = "submit" /\ net_sent[c] < NetSubmits
    /\ net_sent' = [net_sent EXCEPT ![c] = @ + 1]
    /\ LET task == <<c, net_sent[c] + 1>> IN
         \/ /\ q_head' = task /\ net_prev' = [net_prev EXCEPT ![c] = q_head]
            /\ net_queued' = net_queued \cup {task}
            /\ NetClientGoto(c, "link")
         \/ UNCHANGED <<q_head, net_prev, net_queued, net_cpc>>
    /\ UNCHANGED <<q_tail, q_next, netDeques, netFlags, net_wpc, net_loc,
                   net_ran, net_raced, net_torn, net_early, net_spent, net_late>>

NetLink(c) ==
    /\ net_cpc[c] = "link"
    /\ q_next' = [q_next EXCEPT ![net_prev[c]] = NetTaskOf(c)]
    /\ NetClientGoto(c, "count") /\ net_prev' = [net_prev EXCEPT ![c] = Stub]
    /\ UNCHANGED <<q_head, q_tail, netDeques, netFlags, net_wpc, net_loc,
                   net_sent, netHistory>>

NetCount(c) ==
    /\ net_cpc[c] = "count"
    /\ pending_count' = pending_count + 1
    /\ NetClientGoto(c, "wake")
    /\ UNCHANGED <<netQueue, netDeques, net_running, net_asleep, net_wpc, net_loc,
                   net_sent, net_prev, netHistory>>

\* cx_futex_wake(&pending_count, n_threads): whom it may wake.
NetWakeable ==
    LET sleepers == ({"worker"} \X net_asleep)
                      \cup ({"client"} \X {c \in NetClients : net_cpc[c] = "asleep"})
        count == IF Cardinality(sleepers) <= Cardinality(NetWorkers)
                   THEN Cardinality(sleepers) ELSE Cardinality(NetWorkers)
    IN {W \in SUBSET sleepers : Cardinality(W) = count}

\* The client c goes on to a label while those in W wake up.
NetWakeThen(c, label, W) ==
    /\ net_asleep' = {w \in net_asleep : <<"worker", w>> \notin W}
    /\ net_cpc' = [d \in NetClients |-> IF d = c THEN label
                                        ELSE IF <<"client", d>> \in W THEN "test"
                                        ELSE net_cpc[d]]

\* Mutation: the submit wakes nobody.
NetWakeSilent(c) ==
    /\ net_cpc[c] = "wake"
    /\ NetClientGoto(c, "submit")
    /\ UNCHANGED <<netQueue, netDeques, netFlags, net_wpc, net_loc,
                   net_sent, net_prev, netHistory>>

NetWake(c) ==
    /\ net_cpc[c] = "wake"
    /\ \E W \in NetWakeable :
         /\ NetWakeThen(c, "submit", W)
         /\ net_spent' = (net_spent \/ (net_asleep # {} /\ net_asleep' = net_asleep))
    /\ UNCHANGED <<netQueue, netDeques, pending_count, net_running, net_wpc, net_loc,
                   net_sent, net_prev, net_queued, net_ran, net_raced, net_torn,
                   net_early, net_late>>

\* cx_threadpool_wait tests the count, and while it is positive ...
NetWait(c) ==
    /\ net_cpc[c] \in {"submit", "test"}
    /\ NetClientGoto(c, IF pending_count > 0 THEN "sleep" ELSE "done")
    /\ UNCHANGED <<netQueue, netDeques, netFlags, net_wpc, net_loc,
                   net_sent, net_prev, netHistory>>

\* ... calls futex_wait(&pending_count, 0), which sleeps if the last task was
\* finished since the test: no decrement wakes it then, only a later submit.
\* Otherwise it returns at once, and the count is tested again.
NetClientSleep(c) ==
    /\ net_cpc[c] = "sleep"
    /\ \/ pending_count = 0 /\ NetClientGoto(c, "asleep")
       \/ pending_count <= 0 /\ NetClientGoto(c, "done")
    /\ UNCHANGED <<netQueue, netDeques, netFlags, net_wpc, net_loc,
                   net_sent, net_prev, netHistory>>

\* Mutation: destroy does not wake the sleeping workers.
NetDestroySilent(c) ==
    /\ \A d \in NetClients : net_cpc[d] = "done"
    /\ net_running' = FALSE
    /\ NetClientGoto(c, "join")
    /\ UNCHANGED <<netQueue, netDeques, pending_count, net_asleep, net_wpc, net_loc,
                   net_sent, net_prev, netHistory>>

\* cx_threadpool_destroy, called once, when every client is done: running is
\* cleared, and as many are woken as the pool has threads.
NetDestroy(c) ==
    /\ \A d \in NetClients : net_cpc[d] = "done"
    /\ net_running' = FALSE
    /\ \E W \in NetWakeable : NetWakeThen(c, "join", W)
    /\ UNCHANGED <<netQueue, netDeques, pending_count, net_wpc, net_loc,
                   net_sent, net_prev, netHistory>>

NetJoined(c) ==
    /\ net_cpc[c] = "join" /\ \A w \in NetWorkers : net_wpc[w] = "exit"
    /\ NetClientGoto(c, "joined")
    /\ UNCHANGED <<netQueue, netDeques, netFlags, net_wpc, net_loc,
                   net_sent, net_prev, netHistory>>

-----------------------------------------------------------------------------
(* Workers: cx_worker_main.                                                 *)

NetGoto(w, label) == net_wpc' = [net_wpc EXCEPT ![w] = label]
NetSet(w, locals) == net_loc' = [net_loc EXCEPT ![w] = locals]
NetFresh(w) == NetSet(w, NetNoLocals(w))
NetHold(w, task) == NetSet(w, [NetNoLocals(w) EXCEPT !.task = task])
NetLoc(w) == net_loc[w]

\* while (running): cx_mpsc_dequeue loads q->tail.
NetLoop(w) ==
    /\ NetAt(w, {"loop"})
    /\ IF net_running
         THEN NetGoto(w, "next") /\ NetSet(w, [NetNoLocals(w) EXCEPT !.tail = q_tail])
         ELSE NetGoto(w, "exit") /\ UNCHANGED net_loc
    /\ UNCHANGED <<netQueue, netDeques, netFlags, netClient, netHistory>>

\* tail->next is loaded, up to nine times when it is NULL.
NetDequeueNext(w) ==
    /\ NetAt(w, {"next"})
    /\ LET next == q_next[NetLoc(w).tail] IN
         /\ NetGoto(w, IF next = Null THEN "pop" ELSE "tail")
         /\ NetSet(w, [NetNoLocals(w) EXCEPT !.next = next])
    /\ UNCHANGED <<netQueue, netDeques, netFlags, netClient, netHistory>>

NetDequeueTail(w) ==
    /\ NetAt(w, {"tail"})
    /\ q_tail' = NetLoc(w).next
    /\ net_raced' = (net_raced \/ \E v \in NetWorkers \ {w} : NetAt(v, {"next", "tail"}))
    /\ NetGoto(w, "push")
    /\ NetHold(w, NetLoc(w).next)
    /\ UNCHANGED <<q_head, q_next, netDeques, netFlags, netClient,
                   net_queued, net_ran, net_torn, net_early, net_spent, net_late>>

\* cx_deque_push: bottom, top and capacity are loaded; a full deque grows.
NetPushTest(w) ==
    /\ NetAt(w, {"push"})
    /\ NetGoto(w, IF dq_bottom[w] - dq_top[w] >= dq_cap[w] - 1 THEN "grow" ELSE "store")
    /\ UNCHANGED <<netQueue, netDeques, netFlags, net_loc, netClient, netHistory>>

\* cx_deque_grow copies the live entries to a buffer of twice the size and
\* publishes the buffer; when the arena is full the task is run at once.
NetGrow(w) ==
    /\ NetAt(w, {"grow"})
    /\ \/ /\ LET old == dq_cap[w]
                 live == dq_top[w] .. dq_bottom[w] - 1
             IN dq_buf' = [dq_buf EXCEPT ![w] = [i \in 0 .. 2 * old - 1 |->
                  IF \E k \in live : k % (2 * old) = i
                    THEN dq_buf[w][(CHOOSE k \in live : k % (2 * old) = i) % old]
                    ELSE Null]]
          /\ NetGoto(w, "cap")
       \/ NetGoto(w, "run") /\ UNCHANGED dq_buf
    /\ UNCHANGED <<netQueue, dq_top, dq_bottom, dq_cap, netFlags, net_loc, netClient, netHistory>>

\* The capacity is published after the buffer.
NetGrowCap(w) ==
    /\ NetAt(w, {"cap"})
    /\ dq_cap' = [dq_cap EXCEPT ![w] = 2 * @]
    /\ NetGoto(w, "store")
    /\ UNCHANGED <<netQueue, dq_top, dq_bottom, dq_buf, netFlags, net_loc, netClient, netHistory>>

\* The entry is written, then bottom, which publishes it.
NetPushStore(w) ==
    /\ NetAt(w, {"store"})
    /\ dq_buf' = [dq_buf EXCEPT ![w][dq_bottom[w] % dq_cap[w]] = NetLoc(w).task]
    /\ dq_bottom' = [dq_bottom EXCEPT ![w] = @ + 1]
    /\ NetGoto(w, "loop") /\ NetFresh(w)
    /\ UNCHANGED <<netQueue, dq_top, dq_cap, netFlags, netClient, netHistory>>

\* cx_deque_pop: bottom is lowered, which reserves its last entry.
NetPop(w) ==
    /\ NetAt(w, {"pop"})
    /\ dq_bottom' = [dq_bottom EXCEPT ![w] = @ - 1]
    /\ NetGoto(w, "top")
    /\ UNCHANGED <<netQueue, dq_top, dq_buf, dq_cap, netFlags, net_loc, netClient, netHistory>>

\* top is loaded: more than one entry is left, or one that thieves may want
\* too, or none.
NetPopTop(w) ==
    /\ NetAt(w, {"top"})
    /\ LET t == dq_top[w]
           b == dq_bottom[w]
       IN IF t > b
            THEN /\ dq_bottom' = [dq_bottom EXCEPT ![w] = b + 1]
                 /\ NetGoto(w, "steal") /\ UNCHANGED net_loc
            ELSE /\ NetSet(w, [NetNoLocals(w) EXCEPT !.task = dq_buf[w][b % dq_cap[w]],
                                                     !.t = IF t = b THEN t ELSE 0])
                 /\ NetGoto(w, IF t = b THEN "cas" ELSE "run") /\ UNCHANGED dq_bottom
    /\ UNCHANGED <<netQueue, dq_top, dq_buf, dq_cap, netFlags, netClient, netHistory>>

\* One random victim, possibly the worker itself; cx_deque_steal loads top.
NetSteal(w) ==
    /\ NetAt(w, {"steal"})
    /\ \E v \in NetWorkers :
         IF v = w
           THEN NetGoto(w, "idle") /\ UNCHANGED net_loc
           ELSE /\ NetGoto(w, "bottom")
                /\ NetSet(w, [NetNoLocals(w) EXCEPT !.victim = v, !.t = dq_top[v]])
    /\ UNCHANGED <<netQueue, netDeques, netFlags, netClient, netHistory>>

NetStealBottom(w) ==
    /\ NetAt(w, {"bottom"})
    /\ LET v == NetLoc(w).victim IN
         IF NetLoc(w).t >= dq_bottom[v]
           THEN NetGoto(w, "idle") /\ NetFresh(w)
           ELSE NetGoto(w, "buf") /\ NetSet(w, [NetLoc(w) EXCEPT !.cap = dq_cap[v]])
    /\ UNCHANGED <<netQueue, netDeques, netFlags, netClient, netHistory>>

\* The buffer is loaded after the capacity, and the entry read from it: of a
\* buffer of another size, if one was published before or after that load.
\* Only a thief that can still win will use what it read.
NetStealBuf(w) ==
    /\ NetAt(w, {"buf"})
    /\ LET l == NetLoc(w) IN
         /\ NetSet(w, [l EXCEPT !.task = dq_buf[l.victim][l.t % l.cap], !.cap = 0])
         /\ net_torn' = (net_torn \/ (l.t = dq_top[l.victim] /\ l.cap # NetBufCap(l.victim)))
    /\ NetGoto(w, "cas")
    /\ UNCHANGED <<netQueue, netDeques, netFlags, netClient,
                   net_queued, net_ran, net_raced, net_early, net_spent, net_late>>

\* The compare-and-swap on top, of the thief and of the owner that wants its
\* last entry; the owner then puts bottom back.
NetTake(w) ==
    /\ NetAt(w, {"cas"})
    /\ LET l == NetLoc(w)
           v == l.victim
           won == dq_top[v] = l.t
       IN /\ dq_top' = IF won THEN [dq_top EXCEPT ![v] = @ + 1] ELSE dq_top
          /\ dq_bottom' = IF v = w THEN [dq_bottom EXCEPT ![w] = @ + 1] ELSE dq_bottom
          /\ IF won /\ l.task # Null
               THEN NetGoto(w, "run") /\ NetHold(w, l.task)
               ELSE NetGoto(w, IF v = w THEN "steal" ELSE "idle") /\ NetFresh(w)
    /\ UNCHANGED <<netQueue, dq_buf, dq_cap, netFlags, netClient, netHistory>>

\* The task is run and pending_count decremented.
NetRun(w) ==
    /\ NetAt(w, {"run"})
    /\ LET task == NetLoc(w).task IN
         /\ net_ran' = [net_ran EXCEPT ![task] = @ + 1]
         /\ net_early' = (net_early \/ (net_cpc[task[1]] \in {"link", "count"}
                                        /\ task = NetTaskOf(task[1])))
    /\ pending_count' = pending_count - 1
    /\ NetGoto(w, "loop") /\ NetFresh(w)
    /\ UNCHANGED <<netQueue, netDeques, net_running, net_asleep, netClient,
                   net_queued, net_raced, net_torn, net_spent, net_late>>

\* Nothing found: sleep when nothing is pending, else yield.
NetIdle(w) ==
    /\ NetAt(w, {"idle"})
    /\ NetGoto(w, IF pending_count = 0 THEN "wait" ELSE "loop")
    /\ UNCHANGED <<netQueue, netDeques, netFlags, net_loc, netClient, netHistory>>

\* Mutation: the worker sleeps whatever the count is by now.
NetFutexWaitBlind(w) ==
    /\ NetAt(w, {"wait"})
    /\ net_asleep' = net_asleep \cup {w}
    /\ NetGoto(w, "loop")
    /\ UNCHANGED <<netQueue, netDeques, pending_count, net_running, net_loc, netClient, netHistory>>

\* futex_wait(&pending_count, 0) sleeps only if the count is still 0.
NetFutexWait(w) ==
    /\ NetAt(w, {"wait"})
    /\ net_asleep' = IF pending_count = 0 THEN net_asleep \cup {w} ELSE net_asleep
    /\ net_late' = (net_late \/ (pending_count = 0 /\ ~net_running))
    /\ NetGoto(w, "loop")
    /\ UNCHANGED <<netQueue, netDeques, pending_count, net_running, net_loc, netClient,
                   net_queued, net_ran, net_raced, net_torn, net_early, net_spent>>

NetWorkerStep(w) ==
    /\ w \notin net_asleep
    /\ \/ NetLoop(w) \/ NetDequeueNext(w) \/ NetDequeueTail(w) \/ NetPushTest(w) \/ NetGrow(w)
       \/ NetGrowCap(w) \/ NetPushStore(w) \/ NetPop(w) \/ NetPopTop(w) \/ NetSteal(w)
       \/ NetStealBottom(w) \/ NetStealBuf(w) \/ NetTake(w) \/ NetRun(w) \/ NetIdle(w)
       \/ NetFutexWait(w)
NetClientStep(c) ==
    \/ NetSubmit(c) \/ NetLink(c) \/ NetCount(c) \/ NetWake(c) \/ NetWait(c)
    \/ NetClientSleep(c) \/ NetDestroy(c) \/ NetJoined(c)
NetNext == (\E w \in NetWorkers : NetWorkerStep(w)) \/ (\E c \in NetClients : NetClientStep(c))

NetSpec == NetInit /\ [][NetNext]_netVars
-----------------------------------------------------------------------------
(* Properties.                                                              *)

\* The two races the code does not exclude: two consumers in a queue made for
\* one (threadpool.c:142), and a thief that has loaded the old capacity and the
\* new buffer, which are published one after the other (threadpool.c:66).
NetClean == ~net_raced /\ ~net_torn

\* Without those races no task is run twice, although owner, thieves and a
\* growing buffer meet at every entry.
NetRunOnce == NetClean => \A k \in NetTasks : net_ran[k] <= 1

\* cx_threadpool_wait returns to a client only when all its tasks are done,
\* unless another client's task was finished before it was counted
\* (threadpool.c:210): that decrement hides a pending task.
NetWaitMeansDone ==
    (NetClean /\ ~net_early) =>
      \A c \in NetClients : net_cpc[c] \in {"done", "join", "joined"} =>
        \A k \in net_queued : k[1] = c => net_ran[k] = 1

\* All workers there are sleep only when every task enqueued has run or some
\* submit is about to count and to wake them: no wakeup is lost between the
\* test of pending_count and the sleep, even while the count is too low.  Not
\* so once waiting clients have taken every wake of a submit: they sleep on the
\* workers' futex (threadpool.c:217) and a submit wakes n_threads sleepers
\* (threadpool.c:211), so that it takes as many waiting clients as threads.
NetSleepMeansIdle ==
    LET there == {w \in NetWorkers : net_wpc[w] # "exit"}
        submitting == {c \in NetClients : net_cpc[c] \in {"link", "count", "wake"}}
    IN (/\ NetClean /\ ~net_spent /\ net_running
        /\ there # {} /\ there \subseteq net_asleep /\ submitting = {})
         => \A k \in net_queued : net_ran[k] = 1

\* Safety of the pool: what is submitted is run once, is done when the wait
\* returns, and is not slept through by the workers.
NetSafe == NetTypeOK /\ NetRunOnce /\ NetWaitMeansDone /\ NetSleepMeansIdle

-----------------------------------------------------------------------------
(* The inductive invariant.                                                 *)

NetPopping(w) == NetAt(w, {"top"}) \/ (NetAt(w, {"cas"}) /\ NetLoc(w).victim = w)

\* The end of the live entries: bottom, without the entry a pop has reserved
\* but not decided on.
NetEnd(w) == IF NetPopping(w) THEN dq_bottom[w] + 1 ELSE dq_bottom[w]
NetEntry(w, i) == dq_buf[w][i % NetBufCap(w)]
NetLive(w) == dq_top[w] .. NetEnd(w) - 1

\* A worker's locals at each of its labels.
NetLocalInv(w) ==
    /\ NetAt(w, {"push", "grow", "cap", "store", "run"}) => NetLoc(w).task \in NetTasks
    /\ NetAt(w, {"tail"}) => NetLoc(w).next \in NetTasks
    /\ NetAt(w, {"bottom", "buf"}) => NetLoc(w).victim # w
    /\ NetAt(w, {"buf"}) => NetLoc(w).cap \in 1 .. NetBufCap(NetLoc(w).victim)

\* The live entries fit into the buffer, one place left free, and are tasks.
NetWindowInv(w) ==
    /\ dq_top[w] <= NetEnd(w) /\ NetEnd(w) - dq_top[w] <= dq_cap[w] - 1
    /\ NetAt(w, {"store"}) => dq_bottom[w] - dq_top[w] < dq_cap[w] - 1
    /\ NetAt(w, {"cas"}) /\ NetLoc(w).victim = w => NetLoc(w).t = dq_bottom[w]
    /\ \A i \in NetLive(w) : NetEntry(w, i) \in NetTasks

\* The next compare-and-swap of w, if none comes before it, wins.
NetWinning(w) == NetAt(w, {"buf", "cas"}) /\ NetLoc(w).t = dq_top[NetLoc(w).victim]

\* top only grows; who can still win has seen an entry that is still live,
\* and holds the task of that entry if the capacity was the buffer's.
NetThiefInv(w) ==
    /\ NetAt(w, {"bottom", "buf", "cas"}) => NetLoc(w).t <= dq_top[NetLoc(w).victim]
    /\ NetWinning(w) => dq_top[NetLoc(w).victim] < NetEnd(NetLoc(w).victim)
    /\ NetWinning(w) /\ NetAt(w, {"cas"}) /\ ~net_torn =>
         NetLoc(w).task = NetEntry(NetLoc(w).victim, NetLoc(w).t)

\* A submission that has exchanged the head and not counted its task yet.
NetUncounted(k) == net_cpc[k[1]] \in {"link", "count"} /\ k = NetTaskOf(k[1])

\* The links of the injection queue, between the exchange and the store of a
\* submission as well: nodes have one predecessor, the head has no successor.
NetLinkInv ==
    /\ q_head \in net_queued \cup {Stub} /\ q_next[q_head] = Null
    /\ \A n \in NetNodes : q_next[n] # Null => q_next[n] \in net_queued /\ n \in net_queued \cup {Stub}
    /\ \A m, n \in NetNodes : q_next[m] = q_next[n] /\ q_next[m] # Null => m = n
    /\ \A k \in net_queued : k[2] <= net_sent[k[1]]
    /\ \A c \in NetClients : net_cpc[c] \in {"link", "count"} => NetTaskOf(c) \in net_queued
    /\ \A c \in NetClients : net_cpc[c] = "link" =>
         /\ net_prev[c] \in net_queued \cup {Stub} /\ net_prev[c] # q_head
         /\ q_next[net_prev[c]] = Null
         /\ \A n \in NetNodes : q_next[n] # NetTaskOf(c)
    /\ \A c, d \in NetClients :
         net_cpc[c] = "link" /\ net_cpc[d] = "link" /\ net_prev[c] = net_prev[d] => c = d

\* Where a task is once it was dequeued.
NetHolds(w, k) == NetAt(w, {"push", "grow", "cap", "store", "run"}) /\ NetLoc(w).task = k
NetInDeque(k) == \E w \in NetWorkers : \E i \in NetLive(w) : NetEntry(w, i) = k
NetTaken == {k \in NetTasks : net_ran[k] > 0 \/ NetInDeque(k) \/ \E w \in NetWorkers : NetHolds(w, k)}

\* It is in one place only.
NetPlaceInv ==
    /\ \A k \in NetTasks : net_ran[k] <= 1
    /\ \A v, w \in NetWorkers : \A i \in NetLive(v), j \in NetLive(w) :
         NetEntry(v, i) = NetEntry(w, j) => v = w /\ i = j
    /\ \A w \in NetWorkers : \A i \in NetLive(w) : net_ran[NetEntry(w, i)] = 0
    /\ \A w \in NetWorkers : \A k \in NetTasks : NetHolds(w, k) =>
         /\ net_ran[k] = 0 /\ ~NetInDeque(k)
         /\ \A v \in NetWorkers : NetHolds(v, k) => v = w

\* What was dequeued are the nodes up to the tail; a worker in the middle of a
\* dequeue has loaded the current tail.
NetQueueInv ==
    /\ q_tail \in NetTaken \cup {Stub}
    /\ \A k \in NetTaken : \E n \in (NetTaken \cup {Stub}) \ {q_tail} : q_next[n] = k
    /\ \A w \in NetWorkers : NetAt(w, {"next"}) => NetLoc(w).tail = q_tail
    /\ \A w \in NetWorkers : NetAt(w, {"tail"}) => NetLoc(w).next = q_next[q_tail]

\* pending_count is what was counted and has not run; a task runs before it is
\* counted only where net_early says so.
NetCounted == {k \in net_queued : ~NetUncounted(k)}
NetRan == {k \in NetTasks : net_ran[k] > 0}
NetCountInv ==
    /\ pending_count = Cardinality(NetCounted) - Cardinality(NetRan)
    /\ ~net_early => NetRan \subseteq NetCounted

\* When all workers there are sleep, the last one has seen the count at 0, or
\* a submit has counted since and not called wake yet.
NetSleepInv ==
    LET there == {w \in NetWorkers : net_wpc[w] # "exit"}
    IN /\ net_asleep \subseteq there
       /\ (/\ net_running /\ ~net_spent /\ there # {} /\ there \subseteq net_asleep
           /\ \A c \in NetClients : net_cpc[c] # "wake") => pending_count = 0

NetInv ==
    /\ NetTypeOK /\ \A w \in NetWorkers : NetLocalInv(w) /\ NetWindowInv(w) /\ NetThiefInv(w)
    /\ NetLinkInv /\ NetSleepInv /\ NetWaitMeansDone
    /\ NetClean => NetPlaceInv /\ NetQueueInv /\ NetCountInv

\* Workers are scheduled, and a submit that has begun goes on.
NetFairness ==
    /\ \A w \in NetWorkers : WF_netVars(NetWorkerStep(w))
    /\ \A c \in NetClients : WF_netVars(NetLink(c) \/ NetCount(c) \/ NetWake(c) \/ NetJoined(c))

NetUnrun == {k \in net_queued : net_ran[k] = 0}

\* Every task enqueued runs in the end (or a race has happened, waiting clients
\* have taken every wake of a submit, threadpool.c:211, the pool was destroyed,
\* or no worker found its entry at the start, threadpool.c:138): there are
\* finitely many, so a time comes when none waits.
NetTasksRun ==
    NetUnrun # {}
        ~> (NetUnrun = {} \/ ~NetClean \/ net_spent \/ ~net_running
            \/ \A w \in NetWorkers : net_wpc[w] = "exit")

\* cx_threadpool_destroy returns, unless a worker that had seen running set
\* goes to sleep after the wakeup: pending_count stays 0, so nothing wakes it
\* again (threadpool.c:225).
NetDestroyReturns ==
    (\E c \in NetClients : net_cpc[c] = "join")
        ~> ((\E c \in NetClients : net_cpc[c] = "joined") \/ net_late)
=============================================================================
