# A TLA+ development for Casprix

Casprix is a compiled language: a compiler in C (`src/src`), a runtime library in C
(`src/runtime`), a package manager (`src/pkg`), a standard library written in the
language, and tools.  The compiler is sequential and its difficulty is in what its passes
promise to each other and to the program.  The runtime is where threads meet: lock-free
queues, schedulers, futures, channels, atomic reference counts, servers and event loops.
The development has modules for both.

Paths below are relative to the repository root, `src/`.  `PROJECT.json` maps each
definition to the lines it models.

## 1. Inventory

| Component | State it keeps | Operations | Interacts with | Modules |
|---|---|---|---|---|
| Lock-free deque `runtime/sync/lockfree_deque.c` | `top`, `bottom`, circular array | push, pop (owner), steal (thieves) | worker pool | `LockFreeDeque`, `WorkStealingDeque` |
| Worker pool `runtime/async/scheduler.c` | deque per worker, global deque, `is_running`, statistics | create, submit, worker loop, shutdown, destroy | deque, tasks that submit tasks | `WorkerPool` |
| Future `runtime/async/future.c` | state, result, callbacks, mutex, condition | complete, fail, cancel, then, wait | tasks, callers | `Future` |
| Channel `runtime/concurrent/channel.c` | ring buffer, closed flag, mutex, two conditions | send, try_send, recv, try_recv, close | threads of the program | `Channel`, `BoundedChannel` |
| ARC `runtime/memory/arc.c` | strong and weak counts, flags | retain, release, weak create, upgrade, weak release | cycle collector, generated code | `Arc` |
| Cycle collector `runtime/memory/cycle_gc.c` | suspect buffer, colours | add suspect, collect (mark, scan, collect) | ARC, destructors | `CycleGC` |
| Log queue `runtime/io/lockfree_log.c` | ring with sequence numbers, drain thread | push, drain, shutdown | all threads | `LogQueue` |
| Network pool `runtime/net/threadpool.c`, `mpsc_queue.c` | injection queue, growing deques, futex count | submit, worker loop, wait, destroy | reactor, HTTP | `NetPool` |
| HTTP server `runtime/net/http_server.c` | buffers of a connection, middleware, routes | accept, read, parse, middleware, route, reply | worker pool, sockets | `HttpServer` |
| Reactor `runtime/net/reactor.c` | slot per descriptor, one-shot registrations | add, rearm, remove, run, stop | epoll, handlers | `Reactor` |
| Event loop `runtime/io/epoll.c` | list of watchers | add, modify, remove, run, destroy | epoll, callbacks | `EventLoop` |
| Key-value cache `runtime/ai/ml/cpx_kvcache.c` | page tables, page pool, lengths | begin, append, prefill, read, speculate, rollback, release | decoder | `KvCache` |
| Checkpoints `runtime/ai/llm/checkpoint.c` | two files | save, load | file system | `Checkpoint` |
| Containers `runtime/stdlib/collections.c` | hash table, ring, heap | put, get, remove, enqueue, dequeue, push, pop | programs | `Collections` |
| Parser `src/compiler/frontend/parser.c` | current token, panic mode, pending signature | parse functions | lexer, AST | `Parser` |
| Move analysis `src/compiler/sema/semantic.c`, `ownership_check.c` | move state | statements, joins, loops | symbol table | `SemaMoves` |
| Drop planner `src/compiler/sema/drop_planner.c`, `codegen/asmgen.c` | scopes with locals to release | enter, leave, break, return | code generator | `DropCodegen` |
| SSA construction `src/compiler/ir/mir_mem2reg.c` | dominators, frontiers, phis, stacks | one pass | MIR | `Mem2Reg` |
| Borrow checker `src/compiler/ir/mir_borrow.c` | move states, liveness, borrows | one check | MIR | `MirBorrow` |
| MIR optimizer `src/compiler/ir/mir_opt.c` | the function | fold, propagate, eliminate, reduce, simplify, remove blocks | MIR | `MirOpt`, `MirCfg` |
| Lowering and verification `src/compiler/ir/mir_lower.c`, `mir_builder.c`, `mir.c` | map of variables, current block, loop targets, the module | lower expressions, statements, functions, classes, lambdas, top-level code; verify | parser and analyzer, VM, MIR passes | `Lowering` |
| Virtual machine `runtime/vm/cvm_engine.c` | frames, registers, memory, trap code | start, execute, branch, call, return, trap | MIR modules, `--execute` | `Cvm` |
| Regex compiler `src/compiler/ir/mir_regex.c` | NFA, DFA | parse, construct, determinize, emit | MIR | `RegexDfa` |
| JIT register allocator `runtime/vm/jit_bridge.c` | live ranges, active set, free registers and slots | one scan | JIT emitter | `JitRegAlloc` |

What is hard, component by component; `PROJECT.json` has each at its line under
"hazards".

* **Deque, worker pool.**  Pop and steal race for the last item; a thief's slot may have
  been reused; local overflow goes to a global deque that was designed for one owner and
  is pushed by many; shutdown while tasks submit tasks.
* **Future, channel.**  State tested before the mutex; broadcasts between test and sleep;
  one signal per message while newcomers may be faster; closing while threads sleep;
  capacity 0.
* **ARC, cycle collector.**  An upgrade against the last release, two candidates for
  freeing, use of the header after giving up the share that kept it alive; restoring
  counts after trial deletion.
* **Log queue, network pool.**  Slots handed back while others are copied; a count that
  is incremented after the task is visible; sleeping on a stale count; waiting clients on
  the workers' futex; queues for one consumer that have many.
* **HTTP server, reactor, event loop.**  Clients that stall or close anywhere; exits from
  the middle of a chain; callbacks that run on copies after the unlock, or on watchers
  that an earlier callback of the same round freed.
* **Cache, checkpoints, containers.**  Pages over many sequences and rollbacks; crashes
  between two writes; rings that wrap and grow at once; chains of colliding keys.
* **Compiler.**  Recovery that must make progress in every loop; joins and loops in the
  analyses; leaving several scopes at once; phis of phis; passes that change the lists
  they walk; operands known to one switch and not to another; empty words under a star; names,
  blocks and loop targets that the lowering must put back at every end of a scope.

What makes each correct: queues neither lose nor duplicate nor (where promised) reorder;
memory is freed once, after the last use; blocked threads wake; counters agree with what
they count; every accepted connection is answered at most once and closed; passes keep
what programs do; a checker reports what happens on some path and nothing that happens on
none; a compiled pattern accepts its language; a parser ends on every text and reads back
what a program's text says; the virtual machine prints and returns what the source says.

## 2. Plan

The plan of the development, most important first; all of it is done.

1. `LockFreeDeque`, its abstract specification, the refinement and the proofs;
   `WorkerPool` on top of it.
2. `Future`; `Channel` and `BoundedChannel` with the refinement; `Arc` and its proofs.
3. The concurrent services: `LogQueue` and `HttpServer`, composed in `MCServices`; `NetPool`.
4. The rest of the runtime's state machines: `CycleGC`, `KvCache`, `Checkpoint`,
   `Collections`, `Reactor`, `EventLoop`.
5. The compiler's algorithms: `Mem2Reg`, `MirBorrow`, `MirOpt`, `MirCfg`, `DropCodegen`,
   `SemaMoves`, `RegexDfa`, `JitRegAlloc`, `Parser`, and `Lowering` with `Cvm` on top of
   it; 4 and 5 are composed in `MCSequential`.
6. Proofs for the state machines of the runtime: both refinements, `Channel`, `Future`,
   `Arc`, `WorkerPool`, `LogQueue`, `NetPool`, `Checkpoint`, `EventLoop`, `HttpServer`,
   `Reactor`, `KvCache`, `Collections`, `CycleGC`.
7. Proofs for the compiler: `JitRegAlloc`, `MirBorrow`, `MirCfg`.

A module that is proved about has no RECURSIVE operators: the loops of the code (the
sifting of the heap, the probes of the table, the work lists of the borrow checker, the
blocks that a pass rewrites) are steps of it, and recursive passes (the cycle collector)
keep their call stack in a variable.

## 3. Modules

`MC*` modules only instantiate specifications for TLC.  Definitions whose comment begins
with "Mutation" are wrong variants of the definition that follows them; they show that a
property can fail and are not part of any specification.

### LockFreeDeque, WorkStealingDeque

`top`, `bottom` and `items` are the fields of `LockFreeDeque` and `CircularArray`; `b`,
`t` and `item` are the locals of the call a thread is in, `pc` says where.  Each action
is one access to `top`, `bottom` or a slot.  The code makes every access to `top` and
`bottom` sequentially consistent, so interleaving is the right memory model for them.
Slots are plain pointers: a thief may read one while the owner writes it; a word-sized
pointer yields the old or the new value, which the interleaving gives.  `deque_pop` reads
its slot together with `top`, because only the owner, the thread itself, writes slots.
`fresh` and `taken` are history.  The 64-bit indices do not overflow in practice and are
unbounded here; a model is finite because each item is pushed successfully at most once.

`WorkStealingDeque` is what `lockfree_deque.h` promises: `Push` at the young end, `Pop`
from it, `Steal` at the old end, each atomic.  The mapping takes `Contents`, the slots
from `top` to `LogicalBottom` (`bottom` with the decrement of an undecided pop taken
back), for the queue, and counts the item of a push in progress as not pushed.

### WorkerPool

One deque per worker plus `Global`.  `phase` and `next` are the control point and loop
index of the thread that creates, shuts down and destroys the pool.  `pc`, `task`, `arg`,
`idx`, `victim`, `tries` are the locals of the worker's functions and of `pool_submit`.
The random choice of a victim is `\E`.  Only a worker pops its own deque, and only it
pushes there, so by `LockFreeDeque` these calls are one action.  A steal is two actions,
the reads and the exchange.  A push on the global deque has no single owner, so its
loads, its write and its store are separate.  The failure of `pool_create` after some
workers run is `CreateFails`.  Left out: the sleep between rounds, printing, and the
counters of steals.  `pool_destroy` is called when no client is inside `pool_submit`:
the code frees the pool without asking.

### Future

Everything under the mutex is one action, callbacks included.  The test of `state`
before the mutex is a step of its own (`SettleCheck`), as are the unprotected store and
broadcast of `future_cancel`.  `owner` holds the waiter that has tested the state and not
gone to sleep yet.  Condition variables are modelled as POSIX defines them, spurious
wakeups included (`WaitSpurious`).

### Channel, BoundedChannel

`buffer`, `size`, `read_pos`, `write_pos`, `closed` are the fields of the struct.  From
taking the mutex to releasing it is one action; a sleeper that has been signalled is
"woken" until it has the mutex back and tests its condition again.  `sent` and `received`
are history.  `channel_try_send` and `channel_try_recv` that return false change nothing
and are stuttering steps.

### Arc, CycleGC

`Arc` is one object.  Agents are reference variables, each used by one thread at a time;
different references are concurrent.  Each atomic access to the header is an action; the
loop of `arc_weak_upgrade`, which reloads and tests again, is kept step by step.  The
aborts on count errors are left out: `CountsExact` shows the counts never reach the
values that trigger them, short of `INT32_MAX` references.

`CycleGC` is one collection of one heap, chosen first: strong references between objects
and from outside, exact counts, suspects in the buffer.  The passes of the code are
recursive; `cg_stack` is their call stack.  A frame is a scanner at work on the fields of an
object (`cycle_scan_decrement`, `cycle_scan_restore`, `cycle_scan_live`,
`cycle_collect_white`) or the destructor of an object, which releases its fields as in
`tests/runtime/test_arc_gc.c` and so may start the next one; a step is the visit of one
field or the return from all.  The loops of `cycle_gc_collect` are the steps that are taken
while the stack is empty.  An entry of the buffer is set to NULL where its flag is cleared,
so the flag stands for both.  `cg_traced`, `cg_freed` are history.

### LogQueue, NetPool, HttpServer

One action is one access to shared memory in `LogQueue` and `NetPool`.  `LogQueue` keeps
the sequence number of every slot, the batch of the drain thread and the three steps of
shutdown.  `NetPool` keeps the injection queue with its stub, the stores that publish a
grown deque, the futex, and a worker that does not find its own entry and exits.  The
code races in two places (two workers in the queue for one consumer, a thief that indexes
a grown buffer with the capacity of the one before): `NetClean` is true until then, and
`MCNetPool` stops a behaviour there, since nothing after it is defined.

Clients of `cx_threadpool_wait` sleep on the futex of the workers.  They test the count
(`NetWait`) and then call `futex_wait(&pending_count, 0)` (`NetClientSleep`), which sleeps
only if the last task was finished in between; no decrement wakes such a client, a later
submit may.  A submit counts (`NetCount`) and then wakes as many sleepers as the pool has
threads, whoever they are (`NetWake`, `NetWakeable`).  `net_spent` records that all of them
were clients while a worker slept.

`HttpServer` takes what a client sends as cells that the network cuts anywhere.  A header
that is a Content-Length declares a length (`HtLengths`); `BodyLength` takes the first one
among the headers that are kept, and at most `HtMaxBody`: 32 headers and 64 MiB in the
code, one header and two cells in the run.  A `recv`
that ends early, an error in parsing, a middleware that stops the chain, a route whose
future yields nothing, each take the exit the code takes.  The pool behind it is its
promise: an accepted task runs.

### KvCache, Checkpoint, Collections

`KvCache` runs the contiguous and the paged layout side by side on the same calls; a row
is identified by the call that wrote it.  A release walks the table pair by pair and page
by page: `KvRank` is the place of an entry in that order.  `Checkpoint` is `checkpoint_save`
operation by
operation with failing writes and a crash between any two, then `checkpoint_load`; the
digest of a payload is the payload.

`Collections` has the Robin Hood table, the growing ring and the heap.  A loop that changes
the container runs one iteration a step, `cl_at` says which: the probes of
`map_insert_raw` with the entry in hand (`map_e`, `map_idx`), the doubling of
`nuwan_map_reserve`, the move of all entries to a new table (`map_old`, `map_i`), and the
two sifting loops of the heap.  A removal empties its slot and shifts nothing back;
`map_broken` records one from inside a chain.  Calls begin when it is "idle".

### Reactor, EventLoop

epoll is external and modelled by what `epoll_ctl(2)` says the code relies on: one-shot
registrations, and a registration that vanishes with its descriptor.  Handlers are
external as well and do anything the interface allows: arm, close, hand over, add,
remove.  `Reactor` has several threads in `cx_reactor_run`; `EventLoop` has one thread
and callbacks that change the list of watchers during a round.

### Parser

The state of the parser is a record; a parse function is an operator from the state to
the state with the node it built.  Tokens are their text.  All declarations, statements
and expressions of `parser.c` are there, with the two kinds of recovery, the splitting of
`>>`, and the global that carries the signature of a function type.  Of declarations with
members (class, struct, enum, trait, impl, ...) the node keeps the kind, while their
members are parsed in full.  `stuck` is set where a loop of the code makes no progress.

### Lowering, Cvm

`Lowering` takes the typed tree of a program to MIR, as `mir_lower.c` does: the context is
a record with the module, the current function and block, the map of variables and the
stack of loops, and each lowering function is an operator on it.  A value id is an index
into the types of its function, a block a sequence of instructions.  `Lower` and `Verify`
are the steps of the driver; `Verify` is `mir_verify_module` after, with `lw_optimize`,
the removal of unreachable blocks.  `Cvm` is the interpreter that `--execute` then runs:
frames with registers and allocas, memory, the output, the trap code.  One step is the
straight code up to a branch, a call or a return, then that instruction.

`EvalNode` is the reference: the source executed on its tree, with a scope per block.
`CvCorrect` says that a program that runs to its end has printed and returned what the
reference does and given its slots back, that one that calls too deep traps after a
prefix of that output, and that the verifier turns down nothing else than what `odd` or
the comment of `LwAccepted` names.  `odd` is no state of the code.  It marks what the
lowering translates into something else than the source says:

| Mark | What the code does |
|---|---|
| `shadow` | a declaration overwrites the entry of an outer name, and the end of the scope does not bring it back (`mir_lower.c:36`) |
| `global` | a global is reached through `globaladdr`, which the VM does not compute |
| `indirect` | an indirect call carries no name and yields 0 in the VM |
| `extern` | a function without code is entered by the VM like any other and the process ends |
| `static` | a static method takes the object first, its call does not pass one |
| `not` | `!` becomes the bitwise complement |
| `unknown` | a name that neither the map nor the symbol table has becomes 0 |
| `dropped` | for-in, try and throw are not lowered |
| `logic` | `&&` and `\|\|` become additions, which the verifier rejects on booleans |
| `wildcard` | an arm after one without a pattern is put behind a terminator, which the verifier rejects |

`CvCorrect` is silent about a run with one of the first eight; of the last two it says
that whatever is not rejected is right.  Without the optimizer a branch of which both arms
return leaves an unreachable block and the program is rejected.

Left out: `mem2reg` and the optimizer between the two, which have modules of their own;
phis; the tiers of the JIT; floats, strings, arrays, `dyn`, `await`, inheritance, closures
in global variables, and captures by reference, which the lowering turns down.

### Mem2Reg, MirBorrow, MirOpt, MirCfg, DropCodegen, SemaMoves, RegexDfa, JitRegAlloc

Each chooses a small input in its initial state, applies the pass in the steps the code
takes (one for a pass whose intermediate states nobody sees), and then compares: `Mem2Reg`
executes the function before and after along every path; `MirOpt` evaluates the block
before and after on machine words of four bits; `DropCodegen` executes the generated code
and counts who gives each object away; `SemaMoves` compares
the verdict with all executions; `RegexDfa` compares the automaton with the language of
the pattern, defined on its syntax.  `JitRegAlloc`, `MirBorrow` and `MirCfg` go on step by
step, so that their invariants can be proved: `JitRegAlloc` scans range by range.

`MirBorrow` handles one block of a work list a step, in any order (the code's is a queue),
first for the moves, then for liveness; the pass that reports is one step.  Then the checked
function executes, one instruction a step, moving values and ending borrows, and `BwSound`
compares each instruction with the reports, while `BwPrecise` asks of each report for a way
through the flow graph.  Ways are expressed without recursion: a point is reached if it is
in every set of points that is closed under the steps of control.  The functions are any
whose values are defined once (`BwAssumption`).  `MIR_MAX_ERRORS`, which cuts the list of
reports, is not modelled.  The analysis of moves never forgets a value: where a loop
defines it again (`mir_borrow.c:562`) moving it once per iteration is reported, and so
`BwPrecise` asks of such a report for a way from the move to the use and no more.

`MirCfg` rewrites one block a step, with everything the code does to it: a branch on a
constant is folded, a block that only branches on is threaded.  The blocks in between, which
`mir_pass_simplify_cfg` leaves as they are, take no step of their own.  The value passes are
one step that learns of conditions and drops phis.  `CfListsMatch` compares the arrays of
predecessors and successors and the phis with the branches, `CfPathsKept` where every choice
of every condition leads with where it led before the passes: to the next block that does
something.  `odd` records the two cases in which the lists lose an edge that is still there
(a block threaded to itself, a folded branch with one target twice); `CfPathsKept` holds in
these too.  Reachability is expressed with closed sets, as in `MirBorrow`.  `CfTerms` has no
switches, which the lowering does not build.

## 4. Runs

| Run | Instance | States | Shows |
|---|---|---|---|
| `deque` | 3 items, 1 owner, 2 thieves, capacity 2 | 1 040 000 | `NoDoubleTake`, `NoLostItem`, the inductive invariant `DequeInv`, refinement of `WorkStealingDeque` |
| `pool_safety` | 2 workers, 2 clients, 4 tasks, capacities 1 | 2 270 000 | `PoolSafe`: types, tasks run once even when pushes on the global deque overlap; they are lost only by such an overlap, without it the statistics add up; the pool is freed after its workers |
| `pool_liveness` | 2 workers, 1 client, 3 tasks, fair | 138 000 | `AcceptedRuns`, `ShutdownStops` |
| `pool_two_clients` | 1 worker, 2 clients, 2 tasks | violation | two submitters overwrite each other's task |
| `future` | 2 completers, a failer, a canceller, 2 waiters, a callback, fair | 26 500 | `CallbacksExact` (once, unless two completions overlap; all of them when completed), `WaitGetsResult`, `WaitersReturn` |
| `future_cancel` | one canceller, one waiter | violation | a cancelled future leaves a waiter asleep |
| `channel_unbuffered` | capacity 0 | violation | `channel_try_send` loses a message |
| `arc` | 4 references, fair | 314 000 | `ArcSafe` (exact counts, one destruction, one free, in order, no leak), no revival, memory is freed |
| `arc_use_after_free` | 2 references | violation | payload cleared after the memory may be freed |
| `net_pool` | 2 workers, 2 clients, 2 tasks, deques from 2, fair | 262 000 | `NetSafe`: a task runs once, is done when the wait returns, is not slept through; `NetTasksRun`, `NetDestroyReturns` |
| `services` | channel: 4 messages, 2 senders, 2 receivers, capacity 2; log: 2 producers, 2 slots, batches of 2; http: 2 connections, 1 worker, 2 middlewares; fair | 199 000 | `WaitersWoken` (no lost wakeup, no sleep on a closed channel), refinement of `BoundedChannel` (`ImplementsAbstract`: delivery in order, nothing lost or twice), `PassesOn` (blocked sends return, what is sent is received); `LogSafe`, `LogDropOnlyWhenFull`, `LogEventuallyWritten`; `HtSafe`, `HtAllClosed` |
| `sequential` | all inputs of a kind, see below | 677 000 | `KvSafe`, `M2Correct`, `BwVerdict`, `MoCorrect`, `CfCorrect`, `DcDropsExact`, `SmVerdict`, `CkDurable`, `CgCollects`, `JaSafe`, `RxLanguage`, `ClAgree`, `ReSafe`, `ElSafe`, `PsCorrect`, `CvCorrect` |

The last two compose components that share no state: a behaviour chooses one and runs it
while the others keep one initial state, so that the state spaces are added and not
multiplied.

**Bounds and why they are enough.**  *Deque*: capacity 2 with 3 items fills the array,
wraps indices, and reuses a slot while a thief holds its old index; two thieves race each
other and the owner.  *Pool*: with capacities of 1 a worker that submits twice overflows
into the global deque and finds that full too; a root task submits others from inside; two
clients make pushes on the global deque overlap, which `raced` records.  *Future*: two
settlements, a cancellation, a wait and a registration overlap.  *Channel*: two on each
side let a newcomer overtake a woken thread, four messages wrap the ring twice.  *Arc*:
two strong and two weak references at once, an upgrade racing the last release, two
candidates for freeing.  *Log*: four records over two slots reuse every slot while the
drain copies, and producers meet a full queue.  *Net*: one task per client is enough for
a worker to sleep between the enqueue and the count, and for a client to sleep in its wait;
deques of 2 grow.  By a bound of `MCNetPool` the first submit is that of one client; the
clients are alike.  For waiting clients to take every wake there must be as many of them as
threads, and one that submits: this takes three clients with two workers, or two with one,
and is covered by the theorem.  *HTTP*: requests
with a body, without, without an end of line, longer than the buffer, and past each limit.
*Key-value cache*: one sequence; three tokens over pages of two use a second page and roll
back across the border.  That sequences share the pool is only in the theorem.  *SSA*: every
graph of four blocks, loops with several entries and unreachable blocks included.
*Borrow checker*: an optional block, a block that repeats itself and a loop over two
blocks; five instructions of which three are moves or borrows, two borrows of one value in
a table for two, and every order of the work lists.
*Optimizer*: a constant, three computations and a return, all operators.  *CFG*: the
graphs of up to five blocks that the lowering makes of branches and loops, two iterations:
the second finds forwarders that the first made.  *Drops, moves*: a loop with a branch
that leaves it, moves, declares; two nested loops.  *Drops*: parameters that the caller keeps
or not, copies, assignments, hidden names, values returned with and without `move`.
*JIT*: functions listed in an order of execution, with branches and a loop, and one that
lists its merge block first.  *Regex*: all patterns of up to four
tokens and quantified groups, words of up to three bytes.  *Containers*: tables of four
slots with colliding keys that part after a rehash, room reserved for 2 and for 3 entries;
a ring and a heap that grow from 2, with five values.  *Cycle collector*: three objects,
every set of up to four references between them, an object that holds another twice, every
object with or without a reference from outside, one suspect or two: shared children, nested
cycles, a suspect inside the garbage of another.  *Reactor, event loop*: two
descriptors, the number of one reused.  *Parser*: all texts of three tokens, three
arbitrary tokens after the head of each construct with members, and about 5 000 programs:
each operator over each, each expression form under each, two statements of every kind in
and around each compound statement.  *Lowering and VM*: two statements in and around each
compound statement, names declared twice, recursion up to and past a depth of 4, nested
functions, objects with methods and constructors, lambdas with captures, and one statement
of every other kind, each with and without the optimizer's last pass.

**Symmetry** is used where tasks are interchangeable, in the safety run of the pool only.

**Fairness.**  *Pool*: weak fairness of each worker's steps (threads keep running; a task
returns after finitely many submissions), of a submission that has begun, and of loops of
the controlling thread once begun; nothing forces anyone to submit or to shut down.
*Future*: strong fairness of each thread, because a mutex that is released again and again
by spuriously woken waiters must still be granted; no fairness for spurious wakeups.
*Channel*: weak fairness of woken threads and of receivers; nothing forces a send or a
close.  *Arc*: weak fairness of calls that have begun.  *Log*: weak fairness of the drain
thread and of a push that has claimed its slot.  *Net*: weak fairness of each worker and
of the steps of a submission or a join that has begun; nothing forces a client out of its
wait (see Exceptions).  *HTTP*: weak fairness of the handler of each
connection: a `recv` has a time-out, so it returns.

**Deadlock.**  `CHECK_DEADLOCK FALSE` is used because instances are finished when all
calls have been made or the pass is done; the properties about blocked threads
(`WaitersReturn`, `PassesOn`, `ShutdownStops`, `NetDestroyReturns`, `HtAllClosed`) say
what deadlock checking would otherwise.

### Findings

Where a document, a comment or a test says otherwise than the code does, a run shows it:

1. `runtime/async/scheduler.c:378`: threads outside the pool, and workers with a full
   deque, push to the global deque concurrently although `deque_push` is an owner
   operation; tasks are lost although `pool_submit` returned true (`pool_two_clients`).
2. `runtime/async/future.c:101`: `future_cancel` changes the state and broadcasts without
   the mutex; a concurrent `future_wait` may sleep forever (`future_cancel`).
3. `runtime/concurrent/channel.c:85`: `channel_try_send` on an unbuffered channel
   succeeds and drops the message (`channel_unbuffered`).
4. `runtime/memory/arc.c:217`: the finalizing release gives up its share of `weak_count`
   and then uses the memory (`arc_use_after_free`).

### Exceptions

Some properties of the last three runs hold with an exception that their comment states.
The model has the behaviour; the property says that nothing else goes wrong:

* `cycle_gc.c:53,72`: counts are not restored for an object that two traced objects hold,
  nor for a suspect that none holds.
* `net/threadpool.c`: the races named by `NetClean`; a wait may return early while a task
  was finished before it was counted; clients in `cx_threadpool_wait` that slept after the
  last decrement (`:217`) may take every wake of a submit (`:211`) and leave the workers
  asleep with a task.  That such a wait returns is promised by nothing.
* `http_server.c`: a handler sees less than the declared body where the header block was cut
  (`:332`), where the length is above 64 MiB (`:211`), and where the Content-Length comes
  after the last header that is kept (`:258`) or after another Content-Length.
* `reactor.c:183,189`: `on_write` runs on the copy after an `on_read` let go of the
  connection; the loop removes a later connection of the same number after `on_close`.
* `epoll.c:174-177`: an event whose watcher a callback of the round removed is read after
  the free.
* `checkpoint.c`: writes are not checked, so a short file may replace a whole one; and from
  the truncation of `path` in phase 3 (`:192`) until a save has returned true nothing loads:
  `path.tmp` is whole then, but its header was written without a digest (`:143`), and
  `checkpoint_load` refuses it.
* `collections.c:321`: a removal inside a chain loses the later keys of the chain.
* `mir_opt.c`: `x % 2^n` of a negative `x` becomes a mask; a virtual call keeps a copy
  that is deleted.
* `mir_borrow.c:223`: two borrows taken in one block are reported although the first has
  ended.
* `semantic.c:2067`: a move in a loop body that always leaves the loop is reported.
* `jit_bridge.c:415`: live ranges are positions in the list of instructions.  Where blocks are
  not listed in an order of execution, as where the lowering appends a merge block before
  blocks nested in the branches (`mir_lower.c:1036`), a value may be overwritten before it is
  read; `jit_function_is_supported` does not look at the order.
* `asmgen.c`: a break or continue out of several scopes releases the innermost only
  (`:2704`); an object that is copied to another local (`:1894`) or returned without `move`
  (`:2246`) is not retained and is released twice, or returned after its release, and so is
  an argument that the caller keeps (`:2213`); what an assignment overwrites is not released
  (`:1924`); a name that hides another shares its slot (`:331`).  The frame is not cleared
  (`:454`), but a slot that was not stored to is never released: declarations stand in blocks
  only, and the planner knows a local where its declaration was executed (`DcSlotsSet`).
* `mir_lower.c`, `cvm_engine.c`: the marks `shadow` to `dropped` listed under *Lowering,
  Cvm*.
* `parser.c:1730`: the loop over the arms of a match has no recovery and may run for ever;
  `parser.c:1870`: a lambda that fails to parse is dereferenced.

The text of the programs in `Parser` keeps to what the parser accepts.  It does not accept
all that `docs/CASPRIX_SYNTAX_EBNF.md` describes: the right operand of `*`, `/` and `%` is
read as a postfix expression (no `a * -b`), a statement that starts with a name ends after
its postfix expression, and a pattern of an arm that starts with a name consumes the name.

## 5. Proofs

`LockFreeDequeProofs` proves, for every set of items and of thieves and every capacity,
under the assumption `SingleOwner` (at most one thread pushes and pops, which
`lockfree_deque.h` requires under "Owner Operations (Single-Threaded)"):

* `DequeInvariant`: `Spec => []DequeInv`;
* `DequeNoDoubleTake`, `DequeNoLostItem`, `DequeTypeOK`: its consequences.

(In this and the other components the inductive invariant is a definition of the module,
so that it can be added to the INVARIANTs of the run; TLC agreed before it was proved.)

The two safety properties are not inductive.  `DequeInv` adds what they rest on:

* `WindowInv`: `top <= LogicalBottom <= top + Capacity`.  The slots of the window are
  distinct, so a write at `bottom` cannot hit a queued item.
* `OwnerInv`: the owner's locals agree with memory at every label.  In particular, at the
  exchange of a pop `t = b = bottom` and the owner holds the item of that slot, and when
  it restores `bottom` the deque is empty.
* `ThiefInv`: a thief whose exchange can still succeed (`t = top`) holds the oldest item,
  and the deque is not empty.  This is the heart: `top` only grows, so if a slot was
  reused since the thief loaded `top`, then `top` has moved and its exchange fails.
* `ItemInv`: an item is in one place only: not pushed yet, in a push, in the window once,
  or handed out.

There is one lemma per action, each with a step per conjunct it can disturb;
`AdvanceTop` holds the common case of the two exchanges (the oldest item leaves the
window), and lemmas about `% Capacity` say that indices less than a capacity apart have
distinct slots.

`ArcProofs` proves, for every finite set of references, without further assumptions,
`Spec => []ArcInv` (`ArcInvariant`), and from it `ArcTypeOK`, `ArcCountsExact`,
`ArcDestroyedOnce`, `ArcFreedLast`, `ArcNoLeak`, their conjunction `ArcSafety` and the
action property `ArcNoResurrection`.  `CountsExact` alone is not inductive: a step of the
finalizer needs to know that it is the only one and that no strong reference exists, and
a successful upgrade that the count it compares with was positive.  `LifeInv` says this,
stage by stage.  The lemmas `AddCard` and `RemoveCard` connect one reference gained or
given up with one step of a count.

It also proves, of the cycle collector, `CgInvariant` and `CgCollectsGarbage`, for every
finite set of objects, every heap on it (objects may hold each other and themselves several
times), any number of references from outside and any buffer of distinct suspects
(`CgAssumption`; an object is buffered once because of its flag).  `CgInv` has a part per
phase:

* `CgMarkInv`: the count of an object is the exact one less the references that were tried,
  the fields of gray objects that no frame has yet to visit.  When the stack is empty what
  is gray is closed, so a traced object is left with the references that come from outside
  of what was traced (`Base`); this is where nested calls and shared children agree.
* `CgScanInv`: a traced object is gray with that count, or white with a count of zero, or
  black, restored once and held.  A black object's fields are black or still to be visited,
  a white object's are not gray or still to be visited, also below a frame whose object was
  restored meanwhile.  With no frame left, the held objects are black and the others white.
* `CgColorInv`, `CgFrameInv`: the garbage is white or was visited, objects have one frame
  each, and every frame was entered over a reference of the frame below, at the field it
  passed last; only a suspect that is still in the buffer starts a descent.  So a suspect
  that another one's descent freed is not collected twice.
* `CgKeptInv`: where no two references of traced objects meet, nothing but garbage is
  finalized, no destructor aborts, and what stays lost just the references that were
  released; `CgCollects` asks for exact counts where every traced object has one such reference.

Reachability is defined without recursion, as membership in every closed set, so that a
claim about it is proved with one closed set (`CgHeld`, `CgReach`).

`LockFreeDequeProofs` also proves `DequeRefinement`: with one owner, `LockFreeDeque`
implements `WorkStealingDeque`.  The abstract step is taken where the outcome is decided: a
push when it stores `bottom`, a pop when it has seen more than one entry or has won its
exchange, a steal at the exchange; every other step leaves `Contents` alone.  For a pop
that is not decided the mapping uses `LogicalBottom`, so that the decrement which reserves
the entry, and the store which takes it back, are both invisible.  `SameContents` says when
two states have the same window.

`ChannelProofs` proves, for any sets of senders and receivers, `ChannelInvariant` and
`ChannelWaitersWoken` for every capacity, and `ChannelDelivery` and `ChannelRefinement`
(`BoundedChannel`) for capacities above 0: with capacity 0 `channel_try_send` drops the
message, which is finding 3.  `WaitersWoken` counts, per side, the threads that sleep and
those that are woken and not yet back; it is inductive together with `RingInv` (positions
and count agree, and the counted slots hold messages) and `CarriesInv` (a sender inside the
call has a message).

`FutureProofs` proves `FutureInvariant`, `FutureCallbacksExact` and `FutureWaitGetsResult`
for any disjoint sets of threads (`FutureAssumption`).  What makes `CallbacksExact`
inductive is the history `settlers`, the threads whose settlement took effect: a callback in
the list has been called at most once per completion among them, and one that was called
directly by `future_then` is not in the list.

`QueueProofs` proves, of the log queue, `LogInvariant`, `LogQueueSafe` and the action property
`LogDropsWhenFull` for any producers, any batch and every capacity above 1.  `LogRingInv`
divides the positions from the oldest slot not given back to one round later into three
parts, by the sequence number the slot must have; `LogClaimsInv` ties the records to the
calls.  The proof failed for capacity 1, and TLC confirms it: `cpx_logq_init`
(`lockfree_log.c:44`) accepts 1 as a power of two, and then a slot that was just written
(number `pos + 1`) looks free to the producer of the next position, which overwrites a
record the drain has not seen.  The runtime and the tests use larger queues, the header does
not exclude it; the theorems say `LogCap > 1`, and no run uses 1.

Of the network pool it proves `NetInvariant` and `NetIsSafe`, for any workers, any finite
set of clients, any number of tasks and any initial capacity above 1.  `NetInv` says

* of the deques (`NetWindowInv`, `NetThiefInv`), in every state: the live entries end at
  `bottom`, or one above it while a pop is undecided, and fit into the buffer with one place
  to spare; whoever can still win the exchange on `top` has seen an entry that is live, and
  holds its task if the capacity it used was the buffer's;
* of the queue (`NetLinkInv`), in every state: nodes have one predecessor, and a submission
  between its exchange and its store is the only one that will write that predecessor;
* of the tasks, as long as `NetClean` holds (`NetPlaceInv`, `NetQueueInv`): a task that was
  dequeued has run, or is in one deque, or in one hand, and has a predecessor other than the
  tail that was dequeued too.  So the node after the tail was not taken before, which is
  shown without speaking of paths in the list;
* of the count (`NetCountInv`, `NetSleepInv`): `pending_count` is the tasks counted less the
  tasks run, and it is 0 whenever all workers there sleep, no submit is about to wake some,
  and clients never took all the wakes of one (`net_spent`).  A wait that returns then has
  the two sets equal, provided that no task ran before it was counted, and so have the
  sleepers.

Planning this proof found an error of the model: the mark `net_torn` was set when a buffer
was published under a thief that had loaded the old capacity, and missed the thief that
loads the old capacity after that, before the new one is published.  With five tasks TLC
finds a task that runs twice in that window; the mark is now set where the thief indexes
the buffer, if it can still win.

`WorkerPoolProofs` proves `PoolInvariant` and `PoolIsSafe` for any number of workers, any
finite set of clients, all tasks and capacities.  A pool whose global deque is pushed by
several threads at once does lose tasks, yet runs none twice, and that half must be proved
about states that are already wrong.  `WindowInv` therefore speaks of `Ends(q)`, every value
that a push in progress, however stale, may still store into `bottom`: below each of them
lie tasks that have not run.  `PlacedInv` says that no task is in two slots, `ThiefInv` what
a thief that can still win holds.  The half about loss (`CleanInv`) is inductive only until
the first overlap (`raced`).

`RuntimeProofs` has the proofs of four components.

* *Checkpoint*, for all models and numbers of tensors: `CkInvariant`, `CkIsDurable`.
  `TmpInv`, `PathInv`: until a write fails, the file that is being written is a prefix of
  the whole one, and `path` is truncated only when `path.tmp` is whole and its digest taken.
  `ExposedInv`: `path` changes in phase 3 only, which `ck_exposed` marks until a save returns
  true.  An earlier version of `CkDurable` asked that one of the two files be whole, which hid
  that a whole `path.tmp` is not one that loads.
* *EventLoop*, for any finite set of descriptors: `ElInvariant`, `ElIsSafe`.  Watchers have
  unique identities, a registration belongs to an open file, and what is left of a round was
  allocated or removed in it.
* *HttpServer*, for any connections, workers, middlewares and limits, and requests in which
  the declared lengths precede the end of the header (`HtAssumption`: what a client sends
  after it is body): `HtInvariant`, `HtIsSafe`.  `HtHeadInv`: what has been read and what is still
  on
  the wire are in order, so a header that is whole has its length.  `HtBodyInv`: `want` is
  what the kept headers say, up to the limit, and the route is reached with at least that much.
  `HtOutInv`: the
  exits, of which only the last replies.
* *Reactor*, for any threads, finite descriptors and any bound of connections: `ReInvariant`,
  `ReIsSafe`.  `ReOneShotInv`: an event is with one thread (`Has`), and as long as it is, the
  descriptor is not armed and its connection is an added one; this is what `EPOLLONESHOT` is
  for.  `ReOpenInv`: a connection is open at one descriptor and no slot, copy or event
  elsewhere knows it.  `ReRemoveInv`: the removal after `on_close` finds what `on_close`
  left.  The theorem covers behaviours after a handler broke the rules (`re_early`) as well,
  which the run stops at: the property then speaks of the other descriptors.

`SequentialProofs` has the proofs of five components that run in one thread.

* *JitRegAlloc*, for every code in SSA form in which a definition is executed before a read
  (`JaWellFormed`), blocks listed in any order, and every number of registers and slots:
  `JaInvariant`, and from it `JaDisjointness`
  (ranges that overlap share neither register nor slot), `JaPlacement` (after success every
  value that is touched has a place), `JaNeverClobbers` (in a function whose blocks are
  listed in an order of execution, `JaForward`, no instruction writes the register of a value
  that is read after it) and their conjunction `JaIsSafe`.  Disjointness is not
  inductive: the invariant adds that the scan has placed exactly the ranges that start
  before its point, that an active range is one that has not ended and holds a register,
  that a register is free exactly when no active range holds it, and that slots are given
  out in order and never taken back.  `JaNeverClobbers` then needs the meaning of a range:
  every read and the definition of a value lie in its range, and in a list in order of
  execution so does everything executed between the two.  Without `JaForward` the claim is
  false, and TLC shows it on a merge block that is listed first.
* *KvCache*, for any finite set of sequences, any pairs, lengths and page sizes, and a pool
  of the size `cpx_kvcache_create` gives it (`KvPoolAssumption`): `KvInvariant`, `KvIsSafe`.
  `KvPlaceInv`: a page is at one place of the stack or in one entry of one table, so the
  stack never overflows (`KvPushFacts`: `kv_free_page` drops nothing) and never runs out
  (`KvPoolHolds`, by the pigeonhole principle).  `KvRowsInv` counts the rows a pass has
  written before `seq_len` includes them: the last pair of a token adds all of them at once.
  `KvPassInv`: speculation began at or before the present length, which `spec_commit`
  returns to.
* *Collections*, for any keys, hash functions, values and priorities, any initial
  capacities and any load limit that leaves a slot of the first table empty
  (`ClAssumption`; the code's is 7/8 of 16): `ClInvariant`, `ContainersAgree`.  `MapTable`
  is the Robin Hood order: an entry at distance `d` from its slot has an entry at distance
  `d - 1` or more in front of it, so a probe may stop where it does; `MapHand` says the
  same of the entry that `map_insert_raw` carries, which at the moment may be another one
  than it was called with.  `MapCount` keeps the entries, those still in the old table and
  the one in hand below the capacity, so a slot is free and every probe ends, also while
  the table is moved.  `MapContent` says where each key is: in the table, in hand, or in
  the part of the old table that was not moved yet, and in one of them only.  These three
  hold until an entry is removed from inside a chain; that probes end holds always.  The ring is
  the queue at every step; the heap is ordered but for the one place where a loop is at
  work (`PqOrder`); between calls its first entry is then a least one
  (`PqRoot`: the first entry that is less than it would be less than its parent).
* *MirBorrow*, for any flow graph and any code in which no value is defined twice, any size
  of the table of borrows, and any order of the work lists: `BwInvariant`, `BwVerdictHolds`.
  `BwMovesSettled` and `BwLiveSettled`: a block that does not wait in the work list
  satisfies its equations, so all do when the list is empty.  `BwMovesReal` and
  `BwLiveReal`: what an analysis has found so far has a way through the function, which is
  what makes reports precise.  `BwFollows`: what the execution has moved is in the state of
  the analysis at its point, and an ended borrow that is still live there was reported where
  it ended.  The exact half of a conflict, that the earlier borrow leads to the later one,
  uses that a borrow dominates its uses (`BwTakenBefore`): otherwise a set of points closed
  under control would contain the use and not the borrow.
* *MirCfg*, for any functions (`CfAssumption`: a branch leads to blocks of the function), any
  conditions that become constant in any iteration, any phis that go, and every number of
  iterations: `CfInvariant`, `CfGraphCorrect`.  `CfListsMatch` speaks of the blocks control can
  come to and is not inductive.  `CfExact` adds the others: all successors are exact and no
  predecessor is one that does not branch here, but a predecessor that nothing reaches may be
  missing, because a block that was threaded forgets its own.  Threading such a block
  redirects only predecessors on its list, which are all that are reachable.  `CfFollows` says of
  `CfPathsKept` what a step can keep: a branch leads to a block that its path in the program
  came through, over blocks without code.  Each rewriting moves it further along that path, and
  the path ends at one block, which is then the end from both (`FollowsKeepsPaths`).

Two model definitions were changed by these proofs: `CASE` arms that overlapped in `Reactor`
and `Lowering` (TLC takes the first, TLA+ any) are now disjoint.  `Collections`,
`MirBorrow`, `MirCfg` and `CycleGC` were first written with recursive operators that ran a
whole call; they are now written with the loops and calls of the code as steps, which is closer to
the source and
can be proved about.

Only model-checked: all liveness (`AcceptedRuns`, `ShutdownStops`, `WaitersReturn`,
`PassesOn`, `EventuallyFreed`, `LogEventuallyWritten`, `NetTasksRun`,
`NetDestroyReturns`, `HtAllClosed`), which is out of the prover's reach; and the modules
whose inputs or results are defined by recursion over trees, texts or programs, with
RECURSIVE operators or by induction over data: `M2Correct`, `MoCorrect`,
`DcDropsExact`, `SmVerdict`, `RxLanguage`, `PsCorrect`, `CvCorrect`.

## 6. Not modelled

Components with status `not_modelled` in `PROJECT.json` state their reasons.  Most of the
repository's lines are of kinds where a model would only repeat the code: numerical
kernels and their assembly, drawing and layout in floating point, emission of assembly and
machine code as text or bytes, printers of trees and of MIR, constructors and destructors
of nodes, wrappers of system calls, formatting, and stubs.  The share of lines that the map
covers, about a ninth, is small for this reason; what carries the system's own control logic is in
the
inventory above.

Inside modelled components, the Windows branches (`_WIN32`), allocation failures that
return before any state exists, and the destroy functions that require the caller to be
alone are left out.  Weak memory orders are not modelled: where the code uses acquire and
release (`Arc`, `LogQueue`, `NetPool`) every decision is made by a read-modify-write or by
a release store of the one word that the reader acquires, and the model is sequentially
consistent there.
