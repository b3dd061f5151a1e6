--------------------------------- MODULE Arc ---------------------------------
(***************************************************************************)
(* runtime/memory/arc.c: one reference-counted object, shared by threads   *)
(* through strong and weak references.  A reference is an agent: at any    *)
(* time one thread at most operates through it, and different references   *)
(* are used concurrently.  One action is one atomic access to the header;  *)
(* the compare-and-swap loop of arc_try_inc_count or arc_release_impl is   *)
(* one action, the exchange that succeeds.                                 *)
(*                                                                         *)
(* The paths to arc_abort_count_error are left out: each is taken when a   *)
(* count is below the references that exist, which CountsExact excludes,   *)
(* or reaches INT32_MAX, which Refs is far too small for.                  *)
(***************************************************************************)
EXTENDS Integers, FiniteSets

CONSTANT Refs    \* the reference variables of the program

ASSUME RefsAssumption == IsFiniteSet(Refs) /\ Refs # {}

VARIABLES strong_count, weak_count,
          deallocating,   \* flags & ARC_FLAG_DEALLOCATING
          pc,             \* what each reference holds or is doing
          strong,         \* arc_weak_upgrade's local variable
          destroyed,      \* how often the destructor has run
          frees           \* how often the allocation has been freed

header == <<strong_count, weak_count, deallocating>>
vars == <<header, pc, strong, destroyed, frees>>

(* arc_alloc: one strong reference, and the weak count it stands for. *)
Init ==
  /\ strong_count = 1
  /\ weak_count = 1
  /\ deallocating = FALSE
  /\ \E r \in Refs : pc = [x \in Refs |-> IF x = r THEN "strong" ELSE "none"]
  /\ strong = [r \in Refs |-> 0]
  /\ destroyed = 0
  /\ frees = 0

At(r, label) == pc[r] = label
Goto(r, label) == pc' = [pc EXCEPT ![r] = label]

(* r goes to label while s, a variable that held nothing, gets a reference. *)
GotoAndGive(r, label, s, held) ==
  pc' = [pc EXCEPT ![r] = label, ![s] = held]

-----------------------------------------------------------------------------
(* arc_retain(r), the result kept in s *)

RetainCheck(r) ==
  /\ At(r, "strong")
  /\ ~deallocating
  /\ Goto(r, "retain_inc")
  /\ UNCHANGED <<header, strong, destroyed, frees>>

RetainInc(r, s) ==
  /\ At(r, "retain_inc")
  /\ At(s, "none")
  /\ strong_count' = strong_count + 1
  /\ GotoAndGive(r, "strong", s, "strong")
  /\ UNCHANGED <<weak_count, deallocating, strong, destroyed, frees>>

(* arc_weak_create(r), the result kept in s *)

WeakCreateCheck(r) ==
  /\ At(r, "strong")
  /\ ~deallocating
  /\ strong_count > 0
  /\ Goto(r, "weak_create_inc")
  /\ UNCHANGED <<header, strong, destroyed, frees>>

WeakCreateInc(r, s) ==
  /\ At(r, "weak_create_inc")
  /\ At(s, "none")
  /\ weak_count' = weak_count + 1
  /\ GotoAndGive(r, "strong", s, "weak")
  /\ UNCHANGED <<strong_count, deallocating, strong, destroyed, frees>>

-----------------------------------------------------------------------------
(* arc_release: arc_release_impl, arc_start_deallocation and               *)
(* arc_finalize_zero_strong                                                *)

ReleaseDec(r) ==
  /\ At(r, "strong")
  /\ strong_count > 0
  /\ strong_count' = strong_count - 1
  /\ Goto(r, IF strong_count = 1 THEN "start_dealloc" ELSE "none")
  /\ UNCHANGED <<weak_count, deallocating, strong, destroyed, frees>>

StartDeallocation(r) ==
  /\ At(r, "start_dealloc")
  /\ deallocating' = TRUE
  /\ Goto(r, IF deallocating THEN "none" ELSE "destroy")
  /\ UNCHANGED <<strong_count, weak_count, strong, destroyed, frees>>

FinalizeDestroy(r) ==
  /\ At(r, "destroy")
  /\ destroyed' = destroyed + 1
  /\ Goto(r, "finalize_dec")
  /\ UNCHANGED <<header, strong, frees>>

(* Mutation: the allocation is freed although weak references remain. *)
FinalizeWeakDecAlwaysFree(r) ==
  /\ At(r, "finalize_dec")
  /\ weak_count' = weak_count - 1
  /\ frees' = frees + 1
  /\ Goto(r, "none")
  /\ UNCHANGED <<strong_count, deallocating, strong, destroyed>>

(* The strong references give up their share of the weak count. *)
FinalizeWeakDec(r) ==
  /\ At(r, "finalize_dec")
  /\ weak_count' = weak_count - 1
  /\ IF weak_count = 1
       THEN frees' = frees + 1 /\ Goto(r, "none")
       ELSE Goto(r, "zero_payload") /\ UNCHANGED frees
  /\ UNCHANGED <<strong_count, deallocating, strong, destroyed>>

(* arc_zero_payload reads the header and clears the payload. *)
FinalizeZeroPayload(r) ==
  /\ At(r, "zero_payload")
  /\ Goto(r, "none")
  /\ UNCHANGED <<header, strong, destroyed, frees>>

-----------------------------------------------------------------------------
(* arc_weak_upgrade(r), the result kept in s *)

UpgradeLoad(r) ==
  /\ At(r, "weak")
  /\ strong' = [strong EXCEPT ![r] = strong_count]
  /\ Goto(r, "upgrade_check")
  /\ UNCHANGED <<header, destroyed, frees>>

UpgradeCheck(r) ==
  /\ At(r, "upgrade_check")
  /\ Goto(r, IF strong[r] <= 0 \/ deallocating THEN "weak" ELSE "upgrade_cas")
  /\ UNCHANGED <<header, strong, destroyed, frees>>

(* Mutation: the count is incremented whatever it has become. *)
UpgradeCasBlind(r, s) ==
  /\ At(r, "upgrade_cas")
  /\ At(s, "none")
  /\ strong_count' = strong_count + 1
  /\ GotoAndGive(r, "weak", s, "strong")
  /\ UNCHANGED <<weak_count, deallocating, strong, destroyed, frees>>

UpgradeCas(r, s) ==
  /\ At(r, "upgrade_cas")
  /\ At(s, "none")
  /\ strong_count = strong[r]
  /\ strong_count' = strong_count + 1
  /\ GotoAndGive(r, "weak", s, "strong")
  /\ UNCHANGED <<weak_count, deallocating, strong, destroyed, frees>>

UpgradeCasFails(r) ==
  /\ At(r, "upgrade_cas")
  /\ strong_count # strong[r]
  /\ strong' = [strong EXCEPT ![r] = strong_count]
  /\ Goto(r, "upgrade_check")
  /\ UNCHANGED <<header, destroyed, frees>>

-----------------------------------------------------------------------------
(* arc_weak_release(r) *)

(* Mutation: the last weak reference leaves the allocation to others. *)
WeakReleaseNoFree(r) ==
  /\ At(r, "weak")
  /\ weak_count' = weak_count - 1
  /\ Goto(r, "none")
  /\ UNCHANGED <<strong_count, deallocating, strong, destroyed, frees>>

WeakReleaseDec(r) ==
  /\ At(r, "weak")
  /\ weak_count' = weak_count - 1
  /\ Goto(r, IF weak_count = 1 THEN "weak_free" ELSE "none")
  /\ UNCHANGED <<strong_count, deallocating, strong, destroyed, frees>>

WeakReleaseFree(r) ==
  /\ At(r, "weak_free")
  /\ frees' = IF strong_count <= 0 THEN frees + 1 ELSE frees
  /\ Goto(r, "none")
  /\ UNCHANGED <<header, strong, destroyed>>

-----------------------------------------------------------------------------
(* Steps a call takes once it has begun, or that give up a reference. *)
Finishing(r) ==
  \/ StartDeallocation(r)
  \/ FinalizeDestroy(r)
  \/ FinalizeWeakDec(r)
  \/ FinalizeZeroPayload(r)
  \/ UpgradeCheck(r)
  \/ UpgradeCasFails(r)
  \/ WeakReleaseFree(r)

Next ==
  \E r \in Refs :
    \/ RetainCheck(r)
    \/ WeakCreateCheck(r)
    \/ ReleaseDec(r)
    \/ UpgradeLoad(r)
    \/ WeakReleaseDec(r)
    \/ Finishing(r)
    \/ \E s \in Refs : RetainInc(r, s) \/ WeakCreateInc(r, s) \/ UpgradeCas(r, s)

Spec == Init /\ [][Next]_vars

(* A call that has begun runs to its end. *)
FairSpec == Spec /\ \A r \in Refs : WF_vars(Finishing(r))

-----------------------------------------------------------------------------
Labels == {"none", "strong", "retain_inc", "weak_create_inc",
           "start_dealloc", "destroy", "finalize_dec", "zero_payload",
           "weak", "upgrade_check", "upgrade_cas", "weak_free"}

StrongLabels == {"strong", "retain_inc", "weak_create_inc"}
WeakLabels == {"weak", "upgrade_check", "upgrade_cas"}
FinalLabels == {"start_dealloc", "destroy", "finalize_dec"}

StrongHolders == {r \in Refs : pc[r] \in StrongLabels}
WeakHolders == {r \in Refs : pc[r] \in WeakLabels}
Finalizers == {r \in Refs : pc[r] \in FinalLabels}

(* Type invariant. *)
TypeOK ==
  /\ strong_count \in Nat
  /\ weak_count \in Nat
  /\ deallocating \in BOOLEAN
  /\ pc \in [Refs -> Labels]
  /\ strong \in [Refs -> Nat]
  /\ destroyed \in Nat
  /\ frees \in Nat

(* The counts are the references that exist: strong_count the strong ones, *)
(* weak_count the weak ones and one more, held by the strong references    *)
(* together until the object is finalized.                                 *)
CountsExact ==
  /\ strong_count = Cardinality(StrongHolders)
  /\ weak_count = Cardinality(WeakHolders)
                    + (IF StrongHolders = {} /\ Finalizers = {} THEN 0 ELSE 1)

(* The destructor runs once, after the last strong reference is gone: a    *)
(* concurrent arc_weak_upgrade gets the object before that or not at all.  *)
DestroyedOnce ==
  /\ destroyed <= 1
  /\ destroyed = 1 => StrongHolders = {}

(* Once arc_release has brought strong_count to zero no one brings it back. *)
NoResurrection == [][strong_count = 0 => strong_count' = 0]_vars

(* The allocation is freed once, after the destructor, and when no strong  *)
(* or weak reference is left that could reach its header.                  *)
FreedLast ==
  /\ frees <= 1
  /\ frees = 1 => destroyed = 1 /\ StrongHolders = {} /\ WeakHolders = {}

(* Without references, and without a call that is still running, the       *)
(* allocation has been freed.                                              *)
NoLeak == (\A r \in Refs : At(r, "none")) => frees = 1

(* What each stage of the object's life has behind it: the strong          *)
(* references exclude a finalizer, the one finalizer has set the flag, run *)
(* the destructor and given up its share in this order, and the allocation *)
(* is freed by the one thread that brought weak_count to zero.             *)
LifeInv ==
  /\ \A r \in Refs : At(r, "upgrade_cas") => strong[r] > 0
  /\ StrongHolders # {} =>
        Finalizers = {} /\ ~deallocating /\ destroyed = 0
  /\ \A r, q \in Finalizers : r = q
  /\ \A r \in Refs :
        /\ At(r, "start_dealloc") => ~deallocating /\ destroyed = 0
        /\ At(r, "destroy") => deallocating /\ destroyed = 0
        /\ At(r, "finalize_dec") => deallocating /\ destroyed = 1
        /\ At(r, "weak_free") => weak_count = 0 /\ frees = 0
  /\ StrongHolders = {} /\ Finalizers = {} => destroyed = 1
  /\ \A r, q \in Refs : At(r, "weak_free") /\ At(q, "weak_free") => r = q
  /\ weak_count > 0 => frees = 0
  /\ weak_count = 0 => frees = 1 \/ \E r \in Refs : At(r, "weak_free")
  /\ frees <= 1

(* The inductive invariant: exact counts and the stages of life together   *)
(* imply the properties above.                                             *)
ArcInv == TypeOK /\ CountsExact /\ LifeInv

(* The life of an object under any interleaving of retains, releases and   *)
(* upgrades: destroyed once, freed once and last, and not forgotten.       *)
ArcSafe == ArcInv /\ DestroyedOnce /\ FreedLast /\ NoLeak

(* When the last reference is given up the memory is eventually freed. *)
EventuallyFreed ==
  (StrongHolders = {} /\ WeakHolders = {}) ~> (frees = 1)

(* arc.h: "Thread-safe reference counting with weak reference support".    *)
(* Nobody touches the header or the payload of a freed object.             *)
NoUseAfterFree == frees > 0 => \A r \in Refs : At(r, "none")
=============================================================================
