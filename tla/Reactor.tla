------------------------------- MODULE Reactor -------------------------------
(***************************************************************************)
(* net/reactor.c: threads in cx_reactor_run share one epoll instance and a  *)
(* table of slots, one for each descriptor, under a lock.  An event names   *)
(* its descriptor; the slot is copied under the lock and its handlers are   *)
(* called after the unlock.  Every registration is one-shot.                *)
(*                                                                         *)
(* epoll and the handlers are external: nothing in the repository calls     *)
(* the reactor.  epoll drops a registration when its descriptor is closed.  *)
(* A handler ends by arming its descriptor again, by closing it, by handing *)
(* the connection to a worker, which arms or closes it later, or, on_close, *)
(* by leaving it to the owner.  A connection's number is its userdata.      *)
(***************************************************************************)
EXTENDS Integers, FiniteSets, Sequences

CONSTANTS
    ReThreads,      \* threads that call cx_reactor_run
    ReFds,          \* descriptors
    ReMaxConns      \* bound: connections that are opened

ASSUME ReAssumption == IsFiniteSet(ReFds) /\ ReMaxConns \in Nat

VARIABLES
    re_running,
    re_file,                        \* the open connection of a descriptor, 0: none
    re_conn,                        \* what became of each connection
    re_slot,                        \* slots: the userdata of a descriptor, 0: cleared
    re_reg,                         \* epoll: "none", "armed", "off"
    re_pc, re_batch, re_copy,       \* a thread: its events left, its slot_copy
    re_early, re_self, re_fault     \* history, see the handlers

connVars == <<re_file, re_conn>>
loopVars == <<re_pc, re_batch, re_copy>>
histVars == <<re_early, re_self, re_fault>>
reVars == <<re_running, connVars, re_slot, re_reg, loopVars, histVars>>

Conns == 1 .. ReMaxConns
Handlers == {"on_read", "on_write", "on_close"}

\* cx_reactor_create.
ReInit ==
    /\ re_running = TRUE
    /\ re_file = [f \in ReFds |-> 0] /\ re_conn = [c \in Conns |-> "unborn"]
    /\ re_slot = [f \in ReFds |-> 0] /\ re_reg = [f \in ReFds |-> "none"]
    /\ re_pc = [t \in ReThreads |-> "loop"] /\ re_batch = [t \in ReThreads |-> <<>>]
    /\ re_copy = [t \in ReThreads |-> 0]
    /\ re_early = {} /\ re_self = {} /\ re_fault = FALSE

\* Mutation: the events are armed without EPOLLONESHOT.
ReArmedAlways == "always"

\* events | EPOLLET | EPOLLONESHOT.
ReArmed == "armed"

\* The event that thread t works on.
Event(t) == Head(re_batch[t])

-----------------------------------------------------------------------------
(* The interface.                                                           *)

\* A connection is accepted.
ReOpen(f) ==
    /\ re_file[f] = 0
    /\ \E c \in Conns :
         /\ re_conn[c] = "unborn" /\ \A d \in 1 .. c - 1 : re_conn[d] # "unborn"
         /\ re_file' = [re_file EXCEPT ![f] = c] /\ re_conn' = [re_conn EXCEPT ![c] = "new"]
    /\ UNCHANGED <<re_running, re_slot, re_reg, loopVars, histVars>>

\* cx_reactor_add writes the slot before epoll_ctl, which may fail.
ReAdd(f) ==
    /\ re_file[f] # 0 /\ re_conn[re_file[f]] = "new"
    /\ re_slot' = [re_slot EXCEPT ![f] = re_file[f]]
    /\ \/ /\ re_reg' = [re_reg EXCEPT ![f] = ReArmed]
          /\ re_conn' = [re_conn EXCEPT ![re_file[f]] = "added"]
       \/ re_conn' = [re_conn EXCEPT ![re_file[f]] = "left"] /\ UNCHANGED re_reg
    /\ UNCHANGED <<re_running, re_file, loopVars, histVars>>

\* cx_reactor_rearm: epoll_ctl fails where nothing is registered.
Rearmed(f) == [re_reg EXCEPT ![f] = IF @ = "none" THEN @ ELSE ReArmed]

\* The owner closes what was not added, or what on_close left.
ReOwnerClose(f) ==
    /\ re_file[f] # 0 /\ re_conn[re_file[f]] = "left"
    /\ re_file' = [re_file EXCEPT ![f] = 0] /\ re_reg' = [re_reg EXCEPT ![f] = "none"]
    /\ re_conn' = [re_conn EXCEPT ![re_file[f]] = "closed"]
    /\ re_self' = IF \E t \in ReThreads : re_pc[t] = "remove" /\ Event(t).fd = f THEN re_self \cup {f} ELSE re_self
    /\ re_fault' = (\E s \in ReThreads : re_pc[s] \in Handlers /\ re_copy[s] = re_file[f])
    /\ UNCHANGED <<re_running, re_slot, loopVars, re_early>>

ReStop == re_running /\ re_running' = FALSE /\ UNCHANGED <<connVars, re_slot, re_reg, loopVars, histVars>>

-----------------------------------------------------------------------------
(* cx_reactor_run.                                                          *)

Events == {{"in"}, {"out"}, {"in", "out"}, {"hup"}}
Batches == UNION {{b \in [1 .. n -> [fd : ReFds, ev : Events]] :
                     \A i, j \in 1 .. n : b[i].fd = b[j].fd => i = j} : n \in 1 .. Cardinality(ReFds)}

\* epoll_wait returns armed registrations and disarms them.
ReWait(t) ==
    /\ re_pc[t] = "loop" /\ re_running
    /\ \E b \in Batches :
         /\ \A i \in DOMAIN b : re_reg[b[i].fd] \in {"armed", "always"}
         /\ re_batch' = [re_batch EXCEPT ![t] = b]
         /\ re_reg' = [f \in ReFds |-> IF re_reg[f] = "armed" /\ \E i \in DOMAIN b : b[i].fd = f
                                         THEN "off" ELSE re_reg[f]]
    /\ re_pc' = [re_pc EXCEPT ![t] = "event"]
    /\ UNCHANGED <<re_running, connVars, re_slot, re_copy, histVars>>

\* The loop ends.  epoll_wait fails where epfd is closed only, after that.
ReExit(t) ==
    /\ re_pc[t] = "loop" /\ ~re_running /\ re_pc' = [re_pc EXCEPT ![t] = "exit"]
    /\ UNCHANGED <<re_running, connVars, re_slot, re_reg, re_batch, re_copy, histVars>>

\* What thread t does with its event after the handler h: the next handler that
\* the event and the copy call for, the removal after a hangup, the next event.
AfterHandler(t, h, copy) ==
    LET ev == Event(t).ev IN
      IF h = "none" /\ "hup" \in ev THEN (IF copy # 0 THEN "on_close" ELSE "remove")
      ELSE IF h = "on_close" THEN "remove"
      ELSE IF h = "none" /\ "in" \in ev /\ copy # 0 THEN "on_read"
      ELSE IF h \in {"none", "on_read"} /\ "out" \in ev /\ copy # 0 THEN "on_write"
      ELSE "next"

\* A handler of a connection that was closed is called with what was freed.
Goto(t, pc, copy) ==
    /\ re_pc' = [re_pc EXCEPT ![t] = IF pc # "next" THEN pc
                                     ELSE IF Len(re_batch[t]) = 1 THEN "loop" ELSE "event"]
    /\ re_batch' = IF pc = "next" THEN [re_batch EXCEPT ![t] = Tail(@)] ELSE re_batch
    /\ re_copy' = [re_copy EXCEPT ![t] = IF pc = "next" THEN 0 ELSE copy]
    /\ re_fault' = (re_fault \/ (pc \in Handlers /\ re_conn'[copy] = "closed")
                             \/ \E s \in ReThreads \ {t} : re_pc[s] \in Handlers /\ re_conn'[re_copy[s]] = "closed")

\* The slot of the event's descriptor is copied under the lock.
ReCopySlot(t) ==
    /\ re_pc[t] = "event"
    /\ UNCHANGED <<re_running, connVars, re_slot, re_reg, re_early, re_self>>
    /\ LET copy == re_slot[Event(t).fd]
       IN Goto(t, AfterHandler(t, "none", copy), copy)

\* A handler gave its connection away before the last handler of the event.
Early(t) ==
    re_early' = IF re_pc[t] = "on_read" /\ "out" \in Event(t).ev THEN re_early \cup {Event(t).fd} ELSE re_early
Returns(t) == Goto(t, AfterHandler(t, re_pc[t], re_copy[t]), re_copy[t])

ReHandlerRearms(t) ==
    /\ re_pc[t] \in {"on_read", "on_write"}
    /\ re_reg' = Rearmed(Event(t).fd)
    /\ UNCHANGED <<re_running, connVars, re_slot, re_self>> /\ Early(t) /\ Returns(t)

ReHandlerHandsOver(t) ==
    /\ re_pc[t] \in {"on_read", "on_write"}
    /\ re_conn' = [re_conn EXCEPT ![re_copy[t]] = "handed"]
    /\ UNCHANGED <<re_running, re_file, re_slot, re_reg, re_self>> /\ Early(t) /\ Returns(t)

\* cx_reactor_remove, close and free.  In on_close it leaves the number free for
\* others while the loop has not removed it yet: re_self.
ReHandlerCloses(t) ==
    LET f == Event(t).fd IN
      /\ re_pc[t] \in Handlers
      /\ re_file' = [re_file EXCEPT ![f] = 0] /\ re_conn' = [re_conn EXCEPT ![re_copy[t]] = "closed"]
      /\ re_slot' = [re_slot EXCEPT ![f] = 0] /\ re_reg' = [re_reg EXCEPT ![f] = "none"]
      /\ re_self' = IF re_pc[t] = "on_close" THEN re_self \cup {f} ELSE re_self
      /\ UNCHANGED re_running /\ Early(t) /\ Returns(t)

\* on_close leaves the descriptor open.
ReHandlerLeaves(t) ==
    /\ re_pc[t] = "on_close"
    /\ re_conn' = [re_conn EXCEPT ![re_copy[t]] = "left"]
    /\ UNCHANGED <<re_running, re_file, re_slot, re_reg, re_early, re_self>> /\ Returns(t)

\* cx_reactor_remove after a hangup, of whatever has the number now.
ReRemove(t) ==
    /\ re_pc[t] = "remove"
    /\ re_reg' = [re_reg EXCEPT ![Event(t).fd] = "none"] /\ re_slot' = [re_slot EXCEPT ![Event(t).fd] = 0]
    /\ UNCHANGED <<re_running, connVars, re_early, re_self>> /\ Goto(t, "next", 0)

-----------------------------------------------------------------------------
(* A worker has the connection of descriptor f.                             *)

ReWorkerRearms(f) ==
    /\ re_file[f] # 0 /\ re_conn[re_file[f]] = "handed"
    /\ re_reg' = Rearmed(f) /\ re_conn' = [re_conn EXCEPT ![re_file[f]] = "added"]
    /\ UNCHANGED <<re_running, re_file, re_slot, loopVars, histVars>>

ReWorkerCloses(f) ==
    /\ re_file[f] # 0 /\ re_conn[re_file[f]] = "handed"
    /\ re_file' = [re_file EXCEPT ![f] = 0] /\ re_conn' = [re_conn EXCEPT ![re_file[f]] = "closed"]
    /\ re_slot' = [re_slot EXCEPT ![f] = 0] /\ re_reg' = [re_reg EXCEPT ![f] = "none"]
    /\ re_fault' = (\E s \in ReThreads : re_pc[s] \in Handlers /\ re_copy[s] = re_file[f])
    /\ UNCHANGED <<re_running, loopVars, re_early, re_self>>

-----------------------------------------------------------------------------

ReHandler(t) == ReHandlerRearms(t) \/ ReHandlerHandsOver(t) \/ ReHandlerCloses(t) \/ ReHandlerLeaves(t)
ReLoop(t) == ReWait(t) \/ ReExit(t) \/ ReCopySlot(t) \/ ReRemove(t)

\* Nothing is defined after a fault.
ReNext ==
    /\ ~re_fault
    /\ \/ \E f \in ReFds : ReOpen(f) \/ ReAdd(f) \/ ReOwnerClose(f) \/ ReWorkerRearms(f) \/ ReWorkerCloses(f)
       \/ \E t \in ReThreads : ReLoop(t) \/ ReHandler(t)
       \/ ReStop

ReSpec == ReInit /\ [][ReNext]_reVars

-----------------------------------------------------------------------------
(* Properties.                                                              *)

\* An event that epoll can report finds the slot of the connection it is for.
SlotIsCurrent == \A f \in ReFds : re_reg[f] # "none" => re_file[f] # 0 /\ re_slot[f] = re_file[f]

\* One-shot events serve a connection by one handler at a time, and nobody
\* closes it under a handler, as long as no on_read of an event that is also
\* writable arms, hands over or closes its connection (reactor.c:186-190).
OneHandler ==
    /\ re_fault => re_early # {}
    /\ \A f \in ReFds \ re_early :
         re_file[f] # 0 => Cardinality({t \in ReThreads : re_pc[t] \in Handlers /\ re_copy[t] = re_file[f]}) <= 1

\* A connection that was added stays registered until it is closed or its
\* on_close was called, unless an earlier connection with its number was closed
\* between its on_close and its removal by the loop, which then removes the later
\* one in its place (reactor.c:183).
NotDropped ==
    \A f \in ReFds \ (re_self \cup re_early) :
      re_file[f] # 0 /\ re_conn[re_file[f]] \in {"added", "handed"} =>
        re_reg[f] # "none"

\* What the reactor guarantees to handlers that keep to these rules.
ReSafe == SlotIsCurrent /\ OneHandler /\ NotDropped

-----------------------------------------------------------------------------
(* The inductive invariant.                                                 *)

ReTypeOK ==
    /\ re_running \in BOOLEAN /\ re_fault \in BOOLEAN
    /\ re_file \in [ReFds -> Conns \cup {0}] /\ re_slot \in [ReFds -> Conns \cup {0}]
    /\ re_conn \in [Conns -> {"unborn", "new", "added", "handed", "left", "closed"}]
    /\ re_reg \in [ReFds -> {"none", "armed", "off"}]
    /\ re_pc \in [ReThreads -> {"loop", "event", "remove", "exit"} \cup Handlers]
    /\ re_batch \in [ReThreads -> Seq([fd : ReFds, ev : Events])]
    /\ re_copy \in [ReThreads -> Conns \cup {0}]
    /\ re_early \subseteq ReFds /\ re_self \subseteq ReFds

\* A thread that is not in epoll_wait has an event, and no two of one descriptor.
ReBatchInv ==
    \A t \in ReThreads :
      /\ re_pc[t] \in {"event", "remove"} \cup Handlers => re_batch[t] # <<>>
      /\ \A i, j \in DOMAIN re_batch[t] : re_batch[t][i].fd = re_batch[t][j].fd => i = j

\* A connection is open at one descriptor, and is not known to any other.
ReOpenInv ==
    /\ \A f \in ReFds : re_file[f] # 0 => re_conn[re_file[f]] \notin {"unborn", "closed"}
    /\ \A c \in Conns : re_conn[c] \notin {"unborn", "closed"} => \E f \in ReFds : re_file[f] = c
    /\ \A f, g \in ReFds : re_file[f] # 0 /\ re_file[f] = re_file[g] => f = g
    /\ \A f \in ReFds : re_slot[f] # 0 =>
         re_conn[re_slot[f]] # "unborn" /\ \A g \in ReFds : re_file[g] = re_slot[f] => g = f
    /\ \A t \in ReThreads : re_pc[t] \in Handlers =>
         /\ re_copy[t] # 0 /\ re_conn[re_copy[t]] # "unborn"
         /\ \A g \in ReFds : re_file[g] = re_copy[t] => g = Event(t).fd
         /\ ~re_fault => re_conn[re_copy[t]] # "closed"

\* Thread t has an event of descriptor f, and is not done with its handlers.
Has(t, f) == \E i \in DOMAIN re_batch[t] : re_batch[t][i].fd = f /\ ~(i = 1 /\ re_pc[t] = "remove")

\* One-shot: an event is with one thread, and its connection is neither armed
\* nor given away meanwhile.
ReOneShotInv ==
    /\ re_fault => re_early # {}
    /\ \A f \in ReFds \ re_early :
         /\ \A t, u \in ReThreads : Has(t, f) /\ Has(u, f) => t = u
         /\ \A t \in ReThreads : Has(t, f) =>
              /\ re_file[f] # 0 /\ re_conn[re_file[f]] = "added"
              /\ re_reg[f] # "armed" /\ re_slot[f] \in {0, re_file[f]}
         /\ re_reg[f] = "armed" => re_conn[re_file[f]] = "added"

\* The loop removes what on_close left, where nobody else has the number.
ReRemoveInv ==
    \A f \in ReFds \ (re_self \cup re_early) : \A t \in ReThreads :
      re_pc[t] = "remove" /\ Event(t).fd = f => re_file[f] # 0 /\ re_conn[re_file[f]] = "left"

ReInv == ReTypeOK /\ ReBatchInv /\ ReOpenInv /\ ReOneShotInv /\ ReRemoveInv /\ SlotIsCurrent /\ NotDropped
=============================================================================
