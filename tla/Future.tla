------------------------------- MODULE Future -------------------------------
(***************************************************************************)
(* runtime/async/future.c: one future, settled by future_complete,         *)
(* future_fail or future_cancel, watched through future_then and           *)
(* future_wait.  Each call is made by a thread of its own.                 *)
(*                                                                         *)
(* future_complete and future_fail test the state before they take the     *)
(* mutex; what they do under it is one step, callbacks included.           *)
(* future_cancel never takes the mutex, so future_wait, which does, may be *)
(* anywhere between its test and its sleep when the state changes.         *)
(***************************************************************************)
EXTENDS Integers, FiniteSets

CONSTANTS Completers,   \* threads calling future_complete, each with its own result
          Failers,      \* threads calling future_fail
          Cancellers,   \* threads calling future_cancel
          Waiters,      \* threads calling future_wait
          Callbacks,    \* threads calling future_then, each with its own callback
          Null          \* the result of a future that was not completed

Settlers == Completers \cup Failers \cup Cancellers

(* Each call is made by a thread of its own. *)
ASSUME FutureAssumption ==
  /\ Null \notin Completers
  /\ Completers \cap (Failers \cup Cancellers) = {}
  /\ Settlers \cap (Waiters \cup Callbacks) = {}
  /\ Waiters \cap Callbacks = {}

Threads == Settlers \cup Waiters \cup Callbacks

VARIABLES state, result,
          callbacks,   \* registered and kept: future->callbacks
          owner,       \* the thread holding the mutex between two steps
          sleeping,    \* threads in pthread_cond_wait
          pc,
          called,      \* how often each callback has been called
          got,         \* what each future_wait has returned
          settlers     \* the threads that have stored a final state

vars == <<state, result, callbacks, owner, sleeping, pc, called, got, settlers>>

NoOwner == {}
At(p, label) == pc[p] = label
Goto(p, label) == pc' = [pc EXCEPT ![p] = label]

(* future_create *)
Init ==
  /\ state = "pending"
  /\ result = Null
  /\ callbacks = {}
  /\ owner = NoOwner
  /\ sleeping = {}
  /\ pc = [p \in Threads |-> "start"]
  /\ called = [c \in Callbacks |-> 0]
  /\ got = [w \in Waiters |-> Null]
  /\ settlers = {}

(* pthread_cond_broadcast, while p goes on to label *)
BroadcastAndGoto(p, label) ==
  /\ sleeping' = {}
  /\ pc' = [q \in Threads |-> IF q = p THEN label
                              ELSE IF q \in sleeping THEN "wait_lock"
                              ELSE pc[q]]

-----------------------------------------------------------------------------
(* The test at the top of future_complete, future_fail and future_cancel. *)
SettleCheck(p) ==
  /\ At(p, "start")
  /\ Goto(p, IF state = "pending" THEN "settle" ELSE "done")
  /\ UNCHANGED <<state, result, callbacks, owner, sleeping, called, got, settlers>>

(* Mutation: the waiters are not woken. *)
CompleteNoBroadcast(p) ==
  /\ At(p, "settle")
  /\ owner = NoOwner
  /\ state' = "completed"
  /\ result' = p
  /\ called' = [c \in Callbacks |-> IF c \in callbacks THEN called[c] + 1
                                                       ELSE called[c]]
  /\ Goto(p, "done")
  /\ settlers' = settlers \cup {p}
  /\ UNCHANGED <<callbacks, owner, sleeping, got>>

Complete(p) ==
  /\ At(p, "settle")
  /\ owner = NoOwner
  /\ state' = "completed"
  /\ result' = p
  /\ called' = [c \in Callbacks |-> IF c \in callbacks THEN called[c] + 1
                                                       ELSE called[c]]
  /\ BroadcastAndGoto(p, "done")
  /\ settlers' = settlers \cup {p}
  /\ UNCHANGED <<callbacks, owner, got>>

Fail(p) ==
  /\ At(p, "settle")
  /\ owner = NoOwner
  /\ state' = "failed"
  /\ BroadcastAndGoto(p, "done")
  /\ settlers' = settlers \cup {p}
  /\ UNCHANGED <<result, callbacks, owner, called, got>>

CancelStore(p) ==
  /\ At(p, "settle")
  /\ state' = "cancelled"
  /\ Goto(p, "cancel_broadcast")
  /\ settlers' = settlers \cup {p}
  /\ UNCHANGED <<result, callbacks, owner, sleeping, called, got>>

CancelBroadcast(p) ==
  /\ At(p, "cancel_broadcast")
  /\ BroadcastAndGoto(p, "done")
  /\ UNCHANGED <<state, result, callbacks, owner, called, got, settlers>>

-----------------------------------------------------------------------------
(* Mutation: future_then calls at once if the future is settled at all,   *)
(* and does not return then.                                               *)
ThenKeeps(c) ==
  /\ At(c, "start")
  /\ owner = NoOwner
  /\ callbacks' = callbacks \cup {c}
  /\ called' = IF state # "pending" THEN [called EXCEPT ![c] = @ + 1]
                                    ELSE called
  /\ Goto(c, "done")
  /\ UNCHANGED <<state, result, owner, sleeping, got, settlers>>

(* future_then: called at once if the future is completed, kept otherwise. *)
Then(c) ==
  /\ At(c, "start")
  /\ owner = NoOwner
  /\ \/ /\ state = "completed"
        /\ called' = [called EXCEPT ![c] = @ + 1]
        /\ UNCHANGED callbacks
     \/ /\ state # "completed"
        /\ callbacks' = callbacks \cup {c}
        /\ UNCHANGED called
  /\ Goto(c, "done")
  /\ UNCHANGED <<state, result, owner, sleeping, got, settlers>>

-----------------------------------------------------------------------------
(* Mutation: if instead of while: the test is not repeated after a wakeup. *)
WaitTestOnce(w) ==
  /\ pc[w] \in {"start", "wait_lock"}
  /\ owner = NoOwner
  /\ IF At(w, "start") /\ state = "pending"
       THEN owner' = {w} /\ Goto(w, "wait_sleep")
       ELSE Goto(w, "wait_return") /\ UNCHANGED owner
  /\ UNCHANGED <<state, result, callbacks, sleeping, called, got, settlers>>

(* future_wait: lock and test *)
WaitTest(w) ==
  /\ pc[w] \in {"start", "wait_lock"}
  /\ owner = NoOwner
  /\ IF state = "pending"
       THEN owner' = {w} /\ Goto(w, "wait_sleep")
       ELSE Goto(w, "wait_return") /\ UNCHANGED owner
  /\ UNCHANGED <<state, result, callbacks, sleeping, called, got, settlers>>

(* pthread_cond_wait: unlock and sleep *)
WaitSleep(w) ==
  /\ At(w, "wait_sleep")
  /\ owner' = NoOwner
  /\ sleeping' = sleeping \cup {w}
  /\ Goto(w, "asleep")
  /\ UNCHANGED <<state, result, callbacks, called, got, settlers>>

(* POSIX lets pthread_cond_wait return for no reason. *)
WaitSpurious(w) ==
  /\ At(w, "asleep")
  /\ sleeping' = sleeping \ {w}
  /\ Goto(w, "wait_lock")
  /\ UNCHANGED <<state, result, callbacks, owner, called, got, settlers>>

WaitReturn(w) ==
  /\ At(w, "wait_return")
  /\ got' = [got EXCEPT ![w] = result]
  /\ Goto(w, "done")
  /\ UNCHANGED <<state, result, callbacks, owner, sleeping, called, settlers>>

-----------------------------------------------------------------------------
Step(p) ==
  \/ p \in Settlers /\ SettleCheck(p)
  \/ p \in Completers /\ Complete(p)
  \/ p \in Failers /\ Fail(p)
  \/ p \in Cancellers /\ (CancelStore(p) \/ CancelBroadcast(p))
  \/ p \in Callbacks /\ Then(p)
  \/ p \in Waiters /\ (WaitTest(p) \/ WaitSleep(p) \/ WaitReturn(p))

Next ==
  \/ \E p \in Threads : Step(p)
  \/ \E w \in Waiters : WaitSpurious(w)

Spec == Init /\ [][Next]_vars

(* Every thread keeps running, and gets the mutex even if others take it   *)
(* again and again (spurious wakeups could go on forever).  Nothing makes  *)
(* a spurious wakeup happen.                                               *)
FairSpec == Spec /\ \A p \in Threads : SF_vars(Step(p))

-----------------------------------------------------------------------------
Settled == state # "pending"

(* Type invariant. *)
TypeOK ==
  /\ state \in {"pending", "completed", "failed", "cancelled"}
  /\ result \in Completers \cup {Null}
  /\ callbacks \in SUBSET Callbacks
  /\ owner \in SUBSET Waiters /\ Cardinality(owner) <= 1
  /\ sleeping = {w \in Waiters : At(w, "asleep")}
  /\ pc \in [Threads -> {"start", "settle", "cancel_broadcast", "wait_lock",
                         "wait_sleep", "asleep", "wait_return", "done"}]
  /\ called \in [Callbacks -> Nat]
  /\ got \in [Waiters -> Completers \cup {Null}]
  /\ settlers \in SUBSET Settlers

(* A callback is called once, whether it was registered before the future  *)
(* was completed, after, or at the same time, and also when a failure or a *)
(* cancellation comes in between.  Only two calls of future_complete that  *)
(* both pass the test before either has the mutex can call it twice.       *)
CallbackOnce ==
  Cardinality(settlers \cap Completers) <= 1 =>
    \A c \in Callbacks : called[c] <= 1

(* future.h: "Add a callback to be called when future completes".  Every   *)
(* callback registered with a completed future has been called.            *)
CallbacksCalled ==
  state = "completed" => \A c \in Callbacks : At(c, "done") => called[c] >= 1

(* Every callback of a completed future is called, and called once: by     *)
(* future_complete or by future_then, whichever of the two finds it.       *)
CallbacksExact == TypeOK /\ CallbackOnce /\ CallbacksCalled

(* A wait never returns before the future is settled, whatever woke it up; *)
(* and if only completions settled it, it returns a result of theirs,      *)
(* although it reads the result after it has given up the mutex.           *)
WaitGetsResult ==
  \A w \in Waiters : At(w, "done") =>
    /\ settlers # {}
    /\ settlers \subseteq Completers => got[w] \in settlers

-----------------------------------------------------------------------------
(* The inductive invariant behind the two properties above. *)

(* A thread stores a final state once, after its test; and no failure or    *)
(* cancellation clears the result of a completion.                          *)
SettlerInv ==
  /\ IsFiniteSet(settlers)
  /\ Settled <=> settlers # {}
  /\ \A p \in settlers : pc[p] \in {"cancel_broadcast", "done"}
  /\ settlers \cap Completers # {} => result \in settlers

(* The loop of future_wait ends only when the future is settled. *)
WaiterInv ==
  \A w \in Waiters : pc[w] \in {"wait_return", "done"} => settlers # {}

(* A callback is called by future_then or kept for future_complete, and a   *)
(* kept one is called once by each completion that found it.                *)
CallbackInv ==
  \A c \in Callbacks :
    /\ pc[c] \in {"start", "done"}
    /\ At(c, "start") => c \notin callbacks /\ called[c] = 0
    /\ At(c, "done") /\ c \notin callbacks => called[c] = 1
    /\ c \in callbacks => /\ called[c] <= Cardinality(settlers \cap Completers)
                          /\ state = "completed" => called[c] >= 1

FutureInv ==
  /\ TypeOK
  /\ SettlerInv
  /\ WaiterInv
  /\ CallbackInv
  /\ WaitGetsResult

-----------------------------------------------------------------------------
(* When a completion or a failure settles the future under the mutex,      *)
(* every wait on it returns, also one that is about to sleep, and whatever *)
(* a concurrent future_cancel does.                                        *)
WaitersReturn ==
  \A w \in Waiters : (state \in {"completed", "failed"}) ~> At(w, "done")

(* future.h: "Wait for future to complete (blocking)".  A wait returns     *)
(* once the future is settled, by a cancellation too.                      *)
WaitersReturnOnCancel ==
  \A w \in Waiters : Settled ~> At(w, "done")
=============================================================================
