------------------------------ MODULE EventLoop ------------------------------
(***************************************************************************)
(* io/epoll.c: a loop of one thread over epoll.  A registration carries a   *)
(* pointer to its watcher, and the loop keeps the watchers in a list.       *)
(*                                                                         *)
(* epoll and the callers are external: nothing in the repository calls the  *)
(* loop.  A descriptor may be opened, closed and registered between rounds  *)
(* and in callbacks; epoll drops the registration of a closed descriptor,   *)
(* and the loop is not told.  Watchers are numbered as they are allocated.  *)
(***************************************************************************)
EXTENDS Integers, SequencesExt

CONSTANTS
    ElFds,          \* descriptors
    ElMaxOpens,     \* bound: files that are opened
    ElMaxWatchers   \* bound: watchers that are allocated

ASSUME ElAssumption == IsFiniteSet(ElFds)

VARIABLES
    el_pc,                  \* "idle", "dispatch", "callback", "gone"
    el_file, el_opens,      \* the open file of a descriptor, 0: none; their number
    el_reg,                 \* epoll: the data.ptr of a descriptor, 0: not registered
    el_list, el_n,          \* watchers: number, descriptor, file at its addition
    el_batch,               \* the pointers of the events that are left
    el_removed, el_leaky    \* history, see ElSafe

fileVars == <<el_file, el_opens>>
watchVars == <<el_reg, el_list, el_n>>
elVars == <<el_pc, fileVars, watchVars, el_batch, el_removed, el_leaky>>

\* event_loop_create.
ElInit ==
    /\ el_pc = "idle" /\ el_file = [f \in ElFds |-> 0] /\ el_opens = 0
    /\ el_reg = [f \in ElFds |-> 0] /\ el_list = <<>> /\ el_n = 0
    /\ el_batch = <<>> /\ el_removed = {} /\ el_leaky = {}

\* The caller's code runs: between two rounds or in a callback.
Called == el_pc \in {"idle", "callback"}
Allocated == {el_list[i].id : i \in DOMAIN el_list}

\* The first watcher of the list with descriptor f, 0 if there is none.
FirstOf(f) == SelectInSeq(el_list, LAMBDA w : w.fd = f)

-----------------------------------------------------------------------------
ElOpen(f) ==
    /\ Called /\ el_file[f] = 0 /\ el_opens < ElMaxOpens
    /\ el_file' = [el_file EXCEPT ![f] = el_opens + 1] /\ el_opens' = el_opens + 1
    /\ UNCHANGED <<el_pc, watchVars, el_batch, el_removed, el_leaky>>

ElClose(f) ==
    /\ Called /\ el_file[f] # 0
    /\ el_file' = [el_file EXCEPT ![f] = 0] /\ el_reg' = [el_reg EXCEPT ![f] = 0]
    /\ el_leaky' = IF FirstOf(f) # 0 THEN el_leaky \cup {f} ELSE el_leaky
    /\ UNCHANGED <<el_pc, el_opens, el_list, el_n, el_batch, el_removed>>

\* EPOLL_CTL_ADD fails for a descriptor that is closed or registered already:
\* the watcher is freed again.
ElAdd(f) ==
    /\ Called /\ el_n < ElMaxWatchers
    /\ el_n' = el_n + 1
    /\ IF el_file[f] # 0 /\ el_reg[f] = 0
         THEN /\ el_reg' = [el_reg EXCEPT ![f] = el_n + 1]
              /\ el_list' = Append(el_list, [id |-> el_n + 1, fd |-> f, file |-> el_file[f]])
         ELSE UNCHANGED <<el_reg, el_list>>
    /\ UNCHANGED <<el_pc, fileVars, el_batch, el_removed, el_leaky>>

\* The watchers freed in this round.
Noted(id) == IF el_pc = "callback" THEN el_removed \cup {id} ELSE el_removed

\* Mutation: the registration stays.
ElRemoveKeeps(f) ==
    /\ Called /\ FirstOf(f) # 0
    /\ el_list' = RemoveAt(el_list, FirstOf(f)) /\ el_removed' = Noted(el_list[FirstOf(f)].id)
    /\ UNCHANGED <<el_pc, fileVars, el_reg, el_n, el_batch, el_leaky>>

\* EPOLL_CTL_DEL, then the first watcher with this descriptor is freed.
ElRemove(f) ==
    /\ Called
    /\ el_reg' = [el_reg EXCEPT ![f] = 0]
    /\ IF FirstOf(f) = 0 THEN UNCHANGED <<el_list, el_removed>>
       ELSE /\ el_list' = RemoveAt(el_list, FirstOf(f))
            /\ el_removed' = Noted(el_list[FirstOf(f)].id)
    /\ UNCHANGED <<el_pc, fileVars, el_n, el_batch, el_leaky>>

\* EPOLL_CTL_MOD registers the first watcher with this descriptor.
ElModify(f) ==
    /\ Called /\ FirstOf(f) # 0
    /\ el_reg' = [el_reg EXCEPT ![f] = IF @ = 0 THEN 0 ELSE el_list[FirstOf(f)].id]
    /\ UNCHANGED <<el_pc, fileVars, el_list, el_n, el_batch, el_removed, el_leaky>>

ElDestroy ==
    /\ el_pc = "idle" /\ el_pc' = "gone"
    /\ el_reg' = [f \in ElFds |-> 0] /\ el_list' = <<>>
    /\ UNCHANGED <<fileVars, el_n, el_batch, el_removed, el_leaky>>

-----------------------------------------------------------------------------
(* event_loop_run_once.                                                     *)

ElWait ==
    /\ el_pc = "idle"
    /\ \E s \in SUBSET {f \in ElFds : el_reg[f] # 0} :
         s # {} /\ \E b \in SetToSeqs(s) : el_batch' = [i \in DOMAIN b |-> el_reg[b[i]]]
    /\ el_pc' = "dispatch"
    /\ UNCHANGED <<fileVars, watchVars, el_removed, el_leaky>>

\* The watcher of the next event is read, freed or not; active is always true.
ElDispatch ==
    /\ el_pc = "dispatch" /\ el_batch # <<>> /\ Head(el_batch) \in Allocated
    /\ el_batch' = Tail(el_batch) /\ el_pc' = "callback"
    /\ UNCHANGED <<fileVars, watchVars, el_removed, el_leaky>>

ElReturn ==
    /\ el_pc = "callback" /\ el_pc' = IF el_batch = <<>> THEN "idle" ELSE "dispatch"
    /\ el_removed' = IF el_batch = <<>> THEN {} ELSE el_removed
    /\ UNCHANGED <<fileVars, watchVars, el_batch, el_leaky>>

ElNext ==
    \/ \E f \in ElFds : ElOpen(f) \/ ElClose(f) \/ ElAdd(f) \/ ElRemove(f) \/ ElModify(f)
    \/ ElWait \/ ElDispatch \/ ElReturn \/ ElDestroy

ElSpec == ElInit /\ [][ElNext]_elVars

-----------------------------------------------------------------------------
\* epoll never holds a pointer to a watcher that was freed, although a
\* descriptor closed without event_loop_remove_watcher leaves its watcher in the
\* list in front of that of the file that gets its number.  An event that is
\* left finds its watcher, unless a callback of the same round removed it
\* (epoll.c:174-177).  Where no descriptor was closed like that, the watcher
\* that epoll holds is the one added for the open file.
ElSafe ==
    /\ \A f \in ElFds : el_reg[f] # 0 =>
         \E i \in DOMAIN el_list :
           /\ el_list[i].id = el_reg[f] /\ el_list[i].fd = f
           /\ f \notin el_leaky => el_list[i].file = el_file[f]
    /\ ToSet(el_batch) \subseteq Allocated \cup el_removed
    /\ \A i \in DOMAIN el_list : el_list[i].fd \notin el_leaky => el_reg[el_list[i].fd] = el_list[i].id

-----------------------------------------------------------------------------
(* The inductive invariant behind ElSafe.                                   *)

ElWatcher == [id : Nat \ {0}, fd : ElFds, file : Nat]

ElTypeOK ==
    /\ el_pc \in {"idle", "dispatch", "callback", "gone"}
    /\ el_file \in [ElFds -> Nat] /\ el_reg \in [ElFds -> Nat] /\ el_opens \in Nat /\ el_n \in Nat
    /\ el_list \in Seq(ElWatcher) /\ el_batch \in Seq(Nat)

\* Watchers are told apart by their numbers.
ElUnique ==
    /\ \A i \in DOMAIN el_list : el_list[i].id <= el_n
    /\ \A i, j \in DOMAIN el_list : el_list[i].id = el_list[j].id => i = j

\* epoll holds open files only, and no events are left between rounds.
ElRound ==
    /\ \A f \in ElFds : el_reg[f] # 0 => el_file[f] # 0
    /\ el_pc = "idle" => el_batch = <<>>

\* The strengthening of ElSafe that every step preserves.
ElInv == ElSafe /\ ElTypeOK /\ ElUnique /\ ElRound
=============================================================================
