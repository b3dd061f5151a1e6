------------------------------ MODULE ArcProofs ------------------------------
(***************************************************************************)
(* Proofs about Arc for every finite set of references: the counts are     *)
(* exact, the destructor and the free happen once and last, nothing leaks  *)
(* and a dead object is not revived.  Then about CycleGC for every finite  *)
(* heap, any counts of references from outside and any buffer of suspects: *)
(* a collection frees the garbage and, where no two traced references      *)
(* meet, nothing else, and leaves exact counts.                            *)
(***************************************************************************)
EXTENDS Arc, CycleGC, FiniteSetTheorems, SequenceTheorems, TLAPS

-----------------------------------------------------------------------------
(* Counting sets of references. *)

(* Sets of references are finite, and counted as 0 only if empty. *)
LEMMA RefsCard ==
  ASSUME NEW S, S \subseteq Refs
  PROVE  /\ IsFiniteSet(S)
         /\ Cardinality(S) \in Nat
         /\ Cardinality(S) = 0 <=> S = {}
<1>1. IsFiniteSet(S)
  BY RefsAssumption, FS_Subset
<1> QED BY <1>1, FS_CardinalityType, FS_EmptySet

(* A reference gained counts one more. *)
LEMMA AddCard ==
  ASSUME NEW S, S \subseteq Refs, NEW x, x \notin S
  PROVE  Cardinality(S \cup {x}) = Cardinality(S) + 1
BY RefsCard, FS_AddElement

(* A reference given up counts one less. *)
LEMMA RemoveCard ==
  ASSUME NEW S, S \subseteq Refs, NEW x, x \in S
  PROVE  Cardinality(S \ {x}) = Cardinality(S) - 1
BY RefsCard, FS_RemoveElement

(* The holders are sets of references, in this state and in the next. *)
LEMMA HoldersCard ==
  /\ StrongHolders \subseteq Refs
  /\ WeakHolders \subseteq Refs
  /\ Cardinality(StrongHolders) \in Nat
  /\ Cardinality(WeakHolders) \in Nat
  /\ Cardinality(StrongHolders) = 0 <=> StrongHolders = {}
  /\ Cardinality(WeakHolders) = 0 <=> WeakHolders = {}
<1>1. StrongHolders \subseteq Refs /\ WeakHolders \subseteq Refs
  BY DEF StrongHolders, WeakHolders
<1> QED BY <1>1, RefsCard

(* A step that moves no reference from one group to another, and no count, *)
(* leaves the counts exact.                                                *)
LEMMA SameCounts ==
  ASSUME CountsExact,
         StrongHolders' = StrongHolders, WeakHolders' = WeakHolders,
         Finalizers' = Finalizers,
         strong_count' = strong_count, weak_count' = weak_count
  PROVE  CountsExact'
BY DEF CountsExact

-----------------------------------------------------------------------------
(* arc_alloc leaves one strong reference. *)
LEMMA InitInv == Init => ArcInv
<1> SUFFICES ASSUME Init PROVE ArcInv
  OBVIOUS
<1>1. PICK r \in Refs : pc = [x \in Refs |-> IF x = r THEN "strong" ELSE "none"]
  BY DEF Init
<1>2. StrongHolders = {r} /\ WeakHolders = {} /\ Finalizers = {}
  BY <1>1 DEF StrongHolders, WeakHolders, Finalizers,
              StrongLabels, WeakLabels, FinalLabels
<1>3. TypeOK
  BY <1>1 DEF Init, TypeOK, Labels
<1>4. CountsExact
  <2>1. Cardinality({r}) = 1
    BY FS_Singleton
  <2>2. Cardinality({}) = 0
    BY FS_EmptySet
  <2> QED BY <1>2, <2>1, <2>2 DEF Init, CountsExact
<1>5. LifeInv
  BY <1>1, <1>2 DEF Init, LifeInv, At
<1> QED BY <1>3, <1>4, <1>5 DEF ArcInv

-----------------------------------------------------------------------------
(* The tests of arc_retain and arc_weak_create change nothing shared. *)
LEMMA ChecksStep ==
  ASSUME ArcInv, NEW r \in Refs, RetainCheck(r) \/ WeakCreateCheck(r)
  PROVE  ArcInv'
<1> USE DEF At, Goto, header, RetainCheck, WeakCreateCheck
<1>1. TypeOK'
  BY DEF ArcInv, TypeOK, Labels
<1>2. /\ StrongHolders' = StrongHolders
      /\ WeakHolders' = WeakHolders
      /\ Finalizers' = Finalizers
  BY DEF ArcInv, TypeOK, StrongHolders, WeakHolders, Finalizers,
         StrongLabels, WeakLabels, FinalLabels
<1>3. CountsExact'
  BY <1>2, SameCounts DEF ArcInv
<1>4. LifeInv'
  BY <1>2 DEF ArcInv, TypeOK, LifeInv
<1> QED BY <1>1, <1>3, <1>4 DEF ArcInv

(* arc_retain: one strong reference more, counted. *)
LEMMA RetainIncStep ==
  ASSUME ArcInv, NEW r \in Refs, NEW s \in Refs, RetainInc(r, s)
  PROVE  ArcInv'
<1> USE DEF At, GotoAndGive, RetainInc
<1>1. TypeOK'
  BY DEF ArcInv, TypeOK, Labels
<1>2. /\ r \in StrongHolders /\ s \notin StrongHolders
      /\ StrongHolders' = StrongHolders \cup {s}
      /\ WeakHolders' = WeakHolders
      /\ Finalizers' = Finalizers
  BY DEF ArcInv, TypeOK, StrongHolders, WeakHolders, Finalizers,
         StrongLabels, WeakLabels, FinalLabels
<1>3. CountsExact'
  <2>1. Cardinality(StrongHolders') = Cardinality(StrongHolders) + 1
    BY <1>2, HoldersCard, AddCard
  <2> QED BY <1>2, <2>1 DEF ArcInv, CountsExact
<1>4. LifeInv'
  BY <1>2 DEF ArcInv, TypeOK, LifeInv
<1> QED BY <1>1, <1>3, <1>4 DEF ArcInv

(* arc_weak_create: one weak reference more, counted. *)
LEMMA WeakCreateIncStep ==
  ASSUME ArcInv, NEW r \in Refs, NEW s \in Refs, WeakCreateInc(r, s)
  PROVE  ArcInv'
<1> USE DEF At, GotoAndGive, WeakCreateInc
<1>1. TypeOK'
  BY DEF ArcInv, TypeOK, Labels
<1>2. /\ r \in StrongHolders /\ s \notin WeakHolders
      /\ StrongHolders' = StrongHolders
      /\ WeakHolders' = WeakHolders \cup {s}
      /\ Finalizers' = Finalizers
  BY DEF ArcInv, TypeOK, StrongHolders, WeakHolders, Finalizers,
         StrongLabels, WeakLabels, FinalLabels
<1>3. CountsExact' /\ weak_count > 0
  <2>1. Cardinality(WeakHolders') = Cardinality(WeakHolders) + 1
    BY <1>2, HoldersCard, AddCard
  <2> QED BY <1>2, <2>1, HoldersCard DEF ArcInv, CountsExact
<1>4. LifeInv'
  BY <1>2, <1>3 DEF ArcInv, TypeOK, LifeInv
<1> QED BY <1>1, <1>3, <1>4 DEF ArcInv

-----------------------------------------------------------------------------
(* arc_release: the last strong reference becomes the finalizer. *)
LEMMA ReleaseDecStep ==
  ASSUME ArcInv, NEW r \in Refs, ReleaseDec(r)
  PROVE  ArcInv'
<1> USE DEF At, Goto, ReleaseDec
<1>1. TypeOK'
  BY DEF ArcInv, TypeOK, Labels
<1>2. /\ r \in StrongHolders
      /\ StrongHolders' = StrongHolders \ {r}
      /\ WeakHolders' = WeakHolders
      /\ Finalizers = {} /\ ~deallocating /\ destroyed = 0
  BY DEF ArcInv, TypeOK, LifeInv, StrongHolders, WeakHolders,
         StrongLabels, WeakLabels
<1>3. /\ Cardinality(StrongHolders') = Cardinality(StrongHolders) - 1
      /\ Cardinality(StrongHolders') = 0 <=> StrongHolders' = {}
  BY <1>2, HoldersCard, RemoveCard, RefsCard
<1>4. CASE strong_count = 1
  <2>1. StrongHolders' = {} /\ Finalizers' = {r}
    <3>1. StrongHolders' = {}
      BY <1>3, <1>4 DEF ArcInv, CountsExact
    <3>2. pc' = [pc EXCEPT ![r] = "start_dealloc"]
      BY <1>4
    <3> QED BY <1>2, <3>1, <3>2 DEF ArcInv, TypeOK, Finalizers, FinalLabels
  <2>2. CountsExact'
    BY <1>2, <1>3, <1>4, <2>1 DEF ArcInv, CountsExact
  <2>3. LifeInv'
    BY <1>2, <1>4, <2>1 DEF ArcInv, TypeOK, LifeInv
  <2> QED BY <1>1, <2>2, <2>3 DEF ArcInv
<1>5. CASE strong_count # 1
  <2>1. pc' = [pc EXCEPT ![r] = "none"]
    BY <1>5
  <2>2. StrongHolders' # {} /\ Finalizers' = {}
    <3>1. StrongHolders' # {}
      BY <1>3, <1>5 DEF ArcInv, CountsExact
    <3> QED BY <1>2, <2>1, <3>1 DEF ArcInv, TypeOK, Finalizers, FinalLabels
  <2>3. CountsExact'
    BY <1>2, <1>3, <2>2 DEF ArcInv, CountsExact
  <2>4. LifeInv'
    BY <1>2, <2>1, <2>2 DEF ArcInv, TypeOK, LifeInv
  <2> QED BY <1>1, <2>3, <2>4 DEF ArcInv
<1> QED BY <1>4, <1>5

(* The finalizer sets the flag, which nobody has set, and destroys. *)
LEMMA FinalizerStep ==
  ASSUME ArcInv, NEW r \in Refs, StartDeallocation(r) \/ FinalizeDestroy(r)
  PROVE  ArcInv'
<1> USE DEF At, Goto, header, StartDeallocation, FinalizeDestroy
<1>1. TypeOK'
  <2>1. pc' \in [Refs -> Labels]
    <3>1. pc' = [pc EXCEPT ![r] = "destroy"] \/ pc' = [pc EXCEPT ![r] = "finalize_dec"]
      BY DEF ArcInv, LifeInv
    <3> QED BY <3>1 DEF ArcInv, TypeOK, Labels
  <2>2. deallocating' \in BOOLEAN
    BY DEF ArcInv, TypeOK
  <2>3. /\ strong_count' \in Nat /\ weak_count' \in Nat
        /\ strong' \in [Refs -> Nat] /\ destroyed' \in Nat /\ frees' \in Nat
    BY DEF ArcInv, TypeOK
  <2> QED BY <2>1, <2>2, <2>3 DEF TypeOK
<1>2. /\ r \in Finalizers
      /\ StrongHolders' = StrongHolders
      /\ WeakHolders' = WeakHolders
      /\ Finalizers' = Finalizers
  BY DEF ArcInv, TypeOK, LifeInv, StrongHolders, WeakHolders, Finalizers,
         StrongLabels, WeakLabels, FinalLabels
<1>3. CountsExact'
  BY <1>2, SameCounts DEF ArcInv
<1>4. \A q \in Refs : pc[q] \in FinalLabels => q = r
  BY <1>2 DEF ArcInv, LifeInv, Finalizers
<1>5. LifeInv'
  BY <1>2, <1>4 DEF ArcInv, TypeOK, LifeInv, FinalLabels
<1> QED BY <1>1, <1>3, <1>5 DEF ArcInv

(* The finalizer gives up the strong references' share of weak_count. *)
LEMMA FinalizeWeakDecStep ==
  ASSUME ArcInv, NEW r \in Refs, FinalizeWeakDec(r)
  PROVE  ArcInv'
<1> USE DEF At, Goto, FinalizeWeakDec
<1>1. /\ r \in Finalizers
      /\ StrongHolders = {}
      /\ StrongHolders' = {}
      /\ WeakHolders' = WeakHolders
  BY DEF ArcInv, TypeOK, LifeInv, StrongHolders, WeakHolders, Finalizers,
         StrongLabels, WeakLabels, FinalLabels
<1>2. Finalizers' = {}
  BY <1>1 DEF ArcInv, TypeOK, LifeInv, Finalizers, FinalLabels
<1>3. weak_count = Cardinality(WeakHolders) + 1
  BY <1>1 DEF ArcInv, CountsExact
<1>4. TypeOK'
  BY <1>3, HoldersCard DEF ArcInv, TypeOK, Labels
<1>5. CountsExact'
  BY <1>1, <1>2, <1>3, HoldersCard DEF ArcInv, CountsExact
<1>6. LifeInv'
  BY <1>1, <1>2, <1>3, HoldersCard DEF ArcInv, TypeOK, LifeInv
<1> QED BY <1>4, <1>5, <1>6 DEF ArcInv

(* arc_zero_payload is outside the life of the counts. *)
LEMMA ZeroPayloadStep ==
  ASSUME ArcInv, NEW r \in Refs, FinalizeZeroPayload(r)
  PROVE  ArcInv'
<1> USE DEF At, Goto, header, FinalizeZeroPayload
<1>1. TypeOK'
  BY DEF ArcInv, TypeOK, Labels
<1>2. /\ StrongHolders' = StrongHolders
      /\ WeakHolders' = WeakHolders
      /\ Finalizers' = Finalizers
  BY DEF ArcInv, TypeOK, StrongHolders, WeakHolders, Finalizers,
         StrongLabels, WeakLabels, FinalLabels
<1>3. CountsExact'
  BY <1>2, SameCounts DEF ArcInv
<1>4. LifeInv'
  BY <1>2 DEF ArcInv, TypeOK, LifeInv
<1> QED BY <1>1, <1>3, <1>4 DEF ArcInv

-----------------------------------------------------------------------------
(* The steps of arc_weak_upgrade before its exchange, or after one failed. *)
LEMMA UpgradeReadsStep ==
  ASSUME ArcInv, NEW r \in Refs,
         UpgradeLoad(r) \/ UpgradeCheck(r) \/ UpgradeCasFails(r)
  PROVE  ArcInv'
<1> USE DEF At, Goto, header, UpgradeLoad, UpgradeCheck, UpgradeCasFails
<1>1. TypeOK'
  BY DEF ArcInv, TypeOK, Labels
<1>2. /\ StrongHolders' = StrongHolders
      /\ WeakHolders' = WeakHolders
      /\ Finalizers' = Finalizers
  BY DEF ArcInv, TypeOK, StrongHolders, WeakHolders, Finalizers,
         StrongLabels, WeakLabels, FinalLabels
<1>3. CountsExact'
  BY <1>2, SameCounts DEF ArcInv
<1>4. LifeInv'
  BY <1>2 DEF ArcInv, TypeOK, LifeInv
<1> QED BY <1>1, <1>3, <1>4 DEF ArcInv

(* The exchange succeeds only while strong references exist. *)
LEMMA UpgradeCasStep ==
  ASSUME ArcInv, NEW r \in Refs, NEW s \in Refs, UpgradeCas(r, s)
  PROVE  ArcInv'
<1> USE DEF At, GotoAndGive, UpgradeCas
<1>1. TypeOK'
  BY DEF ArcInv, TypeOK, Labels
<1>2. /\ s \notin StrongHolders
      /\ StrongHolders' = StrongHolders \cup {s}
      /\ WeakHolders' = WeakHolders
      /\ Finalizers' = Finalizers
  BY DEF ArcInv, TypeOK, StrongHolders, WeakHolders, Finalizers,
         StrongLabels, WeakLabels, FinalLabels
<1>3. StrongHolders # {}
  BY HoldersCard DEF ArcInv, TypeOK, LifeInv, CountsExact
<1>4. CountsExact'
  <2>1. Cardinality(StrongHolders') = Cardinality(StrongHolders) + 1
    BY <1>2, HoldersCard, AddCard
  <2> QED BY <1>2, <1>3, <2>1 DEF ArcInv, CountsExact
<1>5. LifeInv'
  BY <1>2, <1>3 DEF ArcInv, TypeOK, LifeInv
<1> QED BY <1>1, <1>4, <1>5 DEF ArcInv

(* arc_weak_release: only the last one goes on to free. *)
LEMMA WeakReleaseDecStep ==
  ASSUME ArcInv, NEW r \in Refs, WeakReleaseDec(r)
  PROVE  ArcInv'
<1> USE DEF At, Goto, WeakReleaseDec
<1>1. /\ r \in WeakHolders
      /\ StrongHolders' = StrongHolders
      /\ WeakHolders' = WeakHolders \ {r}
      /\ Finalizers' = Finalizers
  BY DEF ArcInv, TypeOK, StrongHolders, WeakHolders, Finalizers,
         StrongLabels, WeakLabels, FinalLabels
<1>2. /\ Cardinality(WeakHolders') = Cardinality(WeakHolders) - 1
      /\ Cardinality(WeakHolders) > 0
  BY <1>1, HoldersCard, RemoveCard
<1>3. weak_count > 0
  BY <1>2, HoldersCard DEF ArcInv, CountsExact
<1>4. TypeOK'
  BY <1>3 DEF ArcInv, TypeOK, Labels
<1>5. CountsExact'
  BY <1>1, <1>2, HoldersCard DEF ArcInv, CountsExact
<1>6. LifeInv'
  BY <1>1, <1>3 DEF ArcInv, TypeOK, LifeInv
<1> QED BY <1>4, <1>5, <1>6 DEF ArcInv

(* The thread that brought weak_count to zero finds no strong reference. *)
LEMMA WeakReleaseFreeStep ==
  ASSUME ArcInv, NEW r \in Refs, WeakReleaseFree(r)
  PROVE  ArcInv'
<1> USE DEF At, Goto, header, WeakReleaseFree
<1>1. weak_count = 0 /\ frees = 0
  BY DEF ArcInv, LifeInv
<1>2. StrongHolders = {} /\ Finalizers = {} /\ strong_count = 0
  BY <1>1, HoldersCard DEF ArcInv, CountsExact
<1>3. TypeOK'
  BY DEF ArcInv, TypeOK, Labels
<1>4. /\ StrongHolders' = StrongHolders
      /\ WeakHolders' = WeakHolders
      /\ Finalizers' = Finalizers
  BY DEF ArcInv, TypeOK, StrongHolders, WeakHolders, Finalizers,
         StrongLabels, WeakLabels, FinalLabels
<1>5. CountsExact'
  BY <1>4, SameCounts DEF ArcInv
<1>6. frees' = 1
  BY <1>1, <1>2
<1>7. \A q \in Refs : pc'[q] # "weak_free"
  BY DEF ArcInv, TypeOK, LifeInv
<1>8. LifeInv'
  BY <1>1, <1>2, <1>4, <1>6, <1>7 DEF ArcInv, TypeOK, LifeInv
<1> QED BY <1>3, <1>5, <1>8 DEF ArcInv

-----------------------------------------------------------------------------
(* Every step keeps the invariant. *)
LEMMA StepInv == ArcInv /\ [Next]_vars => ArcInv'
<1> SUFFICES ASSUME ArcInv, [Next]_vars PROVE ArcInv'
  OBVIOUS
<1>1. CASE UNCHANGED vars
  BY <1>1 DEF vars, header, ArcInv, TypeOK, CountsExact, LifeInv, At,
              StrongHolders, WeakHolders, Finalizers
<1>2. ASSUME NEW r \in Refs, RetainCheck(r) \/ WeakCreateCheck(r) PROVE ArcInv'
  BY <1>2, ChecksStep
<1>3. ASSUME NEW r \in Refs, ReleaseDec(r) PROVE ArcInv'
  BY <1>3, ReleaseDecStep
<1>4. ASSUME NEW r \in Refs, UpgradeLoad(r) PROVE ArcInv'
  BY <1>4, UpgradeReadsStep
<1>5. ASSUME NEW r \in Refs, WeakReleaseDec(r) PROVE ArcInv'
  BY <1>5, WeakReleaseDecStep
<1>6. ASSUME NEW r \in Refs, Finishing(r) PROVE ArcInv'
  BY <1>6, FinalizerStep, FinalizeWeakDecStep, ZeroPayloadStep,
     UpgradeReadsStep, WeakReleaseFreeStep DEF Finishing
<1>7. ASSUME NEW r \in Refs, NEW s \in Refs,
             RetainInc(r, s) \/ WeakCreateInc(r, s) \/ UpgradeCas(r, s)
      PROVE  ArcInv'
  BY <1>7, RetainIncStep, WeakCreateIncStep, UpgradeCasStep
<1> QED BY <1>1, <1>2, <1>3, <1>4, <1>5, <1>6, <1>7 DEF Next

(* The inductive invariant holds for every finite number of references:    *)
(* the counts of arc.c are exact and its finalization keeps its order.     *)
THEOREM ArcInvariant == Spec => []ArcInv
BY InitInv, StepInv, PTL DEF Spec

(* Type correctness: neither count of the header falls below zero. *)
THEOREM ArcTypeOK == Spec => []TypeOK
<1>1. ArcInv => TypeOK
  BY DEF ArcInv
<1> QED BY <1>1, ArcInvariant, PTL

(* strong_count and weak_count are the references that exist, whatever     *)
(* interleaving of retains, releases and upgrades.                         *)
THEOREM ArcCountsExact == Spec => []CountsExact
<1>1. ArcInv => CountsExact
  BY DEF ArcInv
<1> QED BY <1>1, ArcInvariant, PTL

(* arc_finalize_zero_strong runs the destructor once, without strong       *)
(* references.                                                             *)
THEOREM ArcDestroyedOnce == Spec => []DestroyedOnce
<1>1. ArcInv => DestroyedOnce
  <2> SUFFICES ASSUME ArcInv PROVE DestroyedOnce
    OBVIOUS
  <2>1. CASE StrongHolders # {}
    BY <2>1 DEF ArcInv, LifeInv, DestroyedOnce
  <2>2. CASE StrongHolders = {} /\ Finalizers = {}
    BY <2>2 DEF ArcInv, LifeInv, DestroyedOnce
  <2>3. CASE StrongHolders = {} /\ Finalizers # {}
    <3>1. PICK r \in Refs : pc[r] \in FinalLabels
      BY <2>3 DEF Finalizers
    <3> QED BY <2>3, <3>1 DEF ArcInv, LifeInv, DestroyedOnce, FinalLabels, At
  <2> QED BY <2>1, <2>2, <2>3
<1> QED BY <1>1, ArcInvariant, PTL

(* The allocation is freed once, after the destructor and the last         *)
(* reference.                                                              *)
THEOREM ArcFreedLast == Spec => []FreedLast
<1>1. ArcInv => FreedLast
  <2> SUFFICES ASSUME ArcInv, frees = 1
               PROVE  destroyed = 1 /\ StrongHolders = {} /\ WeakHolders = {}
    BY DEF ArcInv, LifeInv, FreedLast
  <2>1. weak_count = 0
    BY DEF ArcInv, TypeOK, LifeInv
  <2>2. StrongHolders = {} /\ Finalizers = {} /\ WeakHolders = {}
    BY <2>1, HoldersCard DEF ArcInv, CountsExact
  <2> QED BY <2>2 DEF ArcInv, LifeInv
<1> QED BY <1>1, ArcInvariant, PTL

(* An object that no variable refers to any more has been freed. *)
THEOREM ArcNoLeak == Spec => []NoLeak
<1>1. ArcInv => NoLeak
  <2> SUFFICES ASSUME ArcInv, \A r \in Refs : At(r, "none") PROVE frees = 1
    BY DEF NoLeak
  <2>1. StrongHolders = {} /\ Finalizers = {} /\ WeakHolders = {}
    BY DEF At, StrongHolders, WeakHolders, Finalizers,
           StrongLabels, WeakLabels, FinalLabels
  <2>2. weak_count = 0
    BY <2>1, HoldersCard DEF ArcInv, CountsExact
  <2> QED BY <2>2 DEF ArcInv, LifeInv, At
<1> QED BY <1>1, ArcInvariant, PTL

(* The life of an object, for any number of threads that retain, release,  *)
(* downgrade and upgrade: arc_release destroys it once, its allocation is  *)
(* freed once and last, and it is not leaked.                              *)
THEOREM ArcSafety == Spec => []ArcSafe
<1>1. ArcInv /\ DestroyedOnce /\ FreedLast /\ NoLeak => ArcSafe
  BY DEF ArcSafe
<1> QED BY <1>1, ArcInvariant, ArcDestroyedOnce, ArcFreedLast, ArcNoLeak, PTL

(* arc_weak_upgrade and arc_retain never bring an object back to life. *)
THEOREM ArcNoResurrection == Spec => NoResurrection
<1>1. ArcInv /\ [Next]_vars => [strong_count = 0 => strong_count' = 0]_vars
  <2> SUFFICES ASSUME ArcInv, Next, strong_count = 0 PROVE strong_count' = 0
    OBVIOUS
  <2>1. StrongHolders = {}
    BY HoldersCard DEF ArcInv, CountsExact
  <2>2. \A r \in Refs : pc[r] # "retain_inc"
    BY <2>1 DEF StrongHolders, StrongLabels
  <2>3. \A r \in Refs : pc[r] = "upgrade_cas" => strong[r] > 0
    BY DEF ArcInv, LifeInv, At
  <2> QED BY <2>2, <2>3
        DEF Next, Finishing, RetainCheck, WeakCreateCheck, ReleaseDec, UpgradeLoad,
            WeakReleaseDec, StartDeallocation, FinalizeDestroy, FinalizeWeakDec,
            FinalizeZeroPayload, UpgradeCheck, UpgradeCasFails, WeakReleaseFree,
            RetainInc, WeakCreateInc, UpgradeCas, header, At
<1> QED BY <1>1, ArcInvariant, PTL DEF Spec, NoResurrection

-----------------------------------------------------------------------------
(* CycleGC: references. *)

(* What a reference is. *)
LEMMA CgHeapRefs ==
  ASSUME cg_fields \in CgHeaps
  PROVE  /\ cg_fields \in [CgObjs -> Seq(CgObjs)]
         /\ \A p \in CgObjs : \A i \in 1 .. Len(cg_fields[p]) : <<p, i>> \in CgAllRefs
         /\ \A r \in CgAllRefs : /\ r[1] \in CgObjs /\ r[2] \in 1 .. Len(cg_fields[r[1]]) /\ r = <<r[1], r[2]>>
                                 /\ CgTarget(r) \in CgObjs /\ r \in CgRefs(CgTarget(r))
         /\ \A o : CgRefs(o) \subseteq CgAllRefs
<1>1. cg_fields \in [CgObjs -> Seq(CgObjs)] BY CgAssumption
<1>2. \A p \in CgObjs : Len(cg_fields[p]) \in Nat /\ DOMAIN cg_fields[p] = 1 .. Len(cg_fields[p])
                         /\ \A i \in 1 .. Len(cg_fields[p]) : cg_fields[p][i] \in CgObjs
  BY <1>1
<1>3. ASSUME NEW p \in CgObjs, NEW i \in 1 .. Len(cg_fields[p]) PROVE <<p, i>> \in CgAllRefs
  BY <1>2 DEF CgAllRefs
<1>4. ASSUME NEW r \in CgAllRefs
      PROVE  /\ r[1] \in CgObjs /\ r[2] \in 1 .. Len(cg_fields[r[1]]) /\ r = <<r[1], r[2]>>
             /\ CgTarget(r) \in CgObjs /\ r \in CgRefs(CgTarget(r))
  <2>1. PICK p \in CgObjs : r \in {p} \X DOMAIN cg_fields[p] BY DEF CgAllRefs
  <2>2. r = <<r[1], r[2]>> /\ r[1] = p /\ r[2] \in DOMAIN cg_fields[p] BY <2>1
  <2> QED BY <1>2, <2>2 DEF CgTarget, CgRefs
<1> QED BY <1>1, <1>3, <1>4 DEF CgRefs

(* There are finitely many. *)
LEMMA CgHeapCount ==
  ASSUME cg_fields \in CgHeaps
  PROVE  /\ IsFiniteSet(CgAllRefs)
         /\ \A S \in SUBSET CgAllRefs : IsFiniteSet(S) /\ Cardinality(S) \in Nat /\ (Cardinality(S) = 0 <=> S = {})
<1>1. IsFiniteSet(CgAllRefs)
  <2> DEFINE Of(p) == {p} \X DOMAIN cg_fields[p]
             All == {Of(p) : p \in CgObjs}
  <2>1. ASSUME NEW p \in CgObjs PROVE IsFiniteSet(Of(p))
    <3>1. DOMAIN cg_fields[p] = 1 .. Len(cg_fields[p]) /\ Len(cg_fields[p]) \in Nat BY CgHeapRefs
    <3>2. \A k \in Int : IsFiniteSet(1 .. k) BY FS_Interval
    <3>3. IsFiniteSet(1 .. Len(cg_fields[p])) BY <3>1, <3>2
    <3> QED BY <3>1, <3>3, FS_Product, FS_Singleton
  <2>2. IsFiniteSet(CgObjs) BY CgAssumption
  <2>3. IsFiniteSet(All)
    <3> DEFINE f == [p \in CgObjs |-> Of(p)]
    <3> HIDE DEF Of
    <3>1. f \in Surjection(CgObjs, All) BY DEF Surjection
    <3> QED BY <2>2, <3>1, FS_Surjection
  <2>4. IsFiniteSet(UNION All) BY <2>1, <2>3, FS_UNION
  <2>5. UNION All = CgAllRefs BY DEF CgAllRefs
  <2> QED BY <2>4, <2>5
<1>2. ASSUME NEW S \in SUBSET CgAllRefs
      PROVE  IsFiniteSet(S) /\ Cardinality(S) \in Nat /\ (Cardinality(S) = 0 <=> S = {})
  BY <1>1, FS_Subset, FS_CardinalityType, FS_EmptySet
<1> QED BY <1>1, <1>2

(* The same for every state of a collection. *)
LEMMA CgRefFacts ==
  ASSUME CgTypeOK
  PROVE  /\ cg_fields \in [CgObjs -> Seq(CgObjs)]
         /\ \A p \in CgObjs : \A i \in 1 .. Len(cg_fields[p]) : <<p, i>> \in CgAllRefs
         /\ \A r \in CgAllRefs : /\ r[1] \in CgObjs /\ r[2] \in 1 .. Len(cg_fields[r[1]]) /\ r = <<r[1], r[2]>>
                                 /\ CgTarget(r) \in CgObjs /\ r \in CgRefs(CgTarget(r))
         /\ \A o : CgRefs(o) \subseteq CgAllRefs
BY CgHeapRefs DEF CgTypeOK

LEMMA CgRefsCount ==
  ASSUME CgTypeOK
  PROVE  /\ IsFiniteSet(CgAllRefs)
         /\ \A S \in SUBSET CgAllRefs : IsFiniteSet(S) /\ Cardinality(S) \in Nat /\ (Cardinality(S) = 0 <=> S = {})
BY CgHeapCount DEF CgTypeOK

-----------------------------------------------------------------------------
(* Reachability. *)

(* What S leads to has S, is closed and is the least such set. *)
LEMMA CgHeapReach ==
  ASSUME cg_fields \in CgHeaps, NEW S
  PROVE  /\ S \cap CgObjs \subseteq CgReach(S)
         /\ CgReach(S) \subseteq CgObjs
         /\ \A T \in CgClosed : S \subseteq T => CgReach(S) \subseteq T
         /\ \A r \in CgAllRefs : r[1] \in CgReach(S) => CgTarget(r) \in CgReach(S)
         /\ CgReach(S) \in CgClosed
<1>1. S \cap CgObjs \subseteq CgReach(S) BY DEF CgReach
<1>2. CgReach(S) \subseteq CgObjs BY DEF CgReach
<1>3. \A T \in CgClosed : S \subseteq T => CgReach(S) \subseteq T BY DEF CgReach
<1>4. ASSUME NEW r \in CgAllRefs, r[1] \in CgReach(S) PROVE CgTarget(r) \in CgReach(S)
  <2>1. CgTarget(r) \in CgObjs BY CgHeapRefs
  <2>2. ASSUME NEW T \in CgClosed, S \subseteq T PROVE CgTarget(r) \in T
    <3>1. r[1] \in T BY <1>3, <1>4, <2>2
    <3> QED BY <3>1, <2>2 DEF CgClosed
  <2> QED BY <2>1, <2>2 DEF CgReach
<1> QED BY <1>1, <1>2, <1>3, <1>4 DEF CgClosed

LEMMA CgReachFacts ==
  ASSUME CgTypeOK, NEW S
  PROVE  /\ S \cap CgObjs \subseteq CgReach(S)
         /\ CgReach(S) \subseteq CgObjs
         /\ \A T \in CgClosed : S \subseteq T => CgReach(S) \subseteq T
         /\ \A r \in CgAllRefs : r[1] \in CgReach(S) => CgTarget(r) \in CgReach(S)
         /\ CgReach(S) \in CgClosed
BY CgHeapReach DEF CgTypeOK

(* More leads to more. *)
LEMMA CgReachMore ==
  ASSUME CgTypeOK, NEW S, NEW T, S \cap CgObjs \subseteq CgReach(T), S \subseteq CgObjs
  PROVE  CgReach(S) \subseteq CgReach(T)
BY CgReachFacts

(* The heap does not change during a collection. *)
LEMMA CgHeapSame ==
  ASSUME UNCHANGED cgHeap
  PROVE  /\ CgAllRefs' = CgAllRefs
         /\ \A r : CgTarget(r)' = CgTarget(r)
         /\ \A o : CgRefs(o)' = CgRefs(o) /\ Exact(o)' = Exact(o) /\ TracedRefs(o)' = TracedRefs(o)
         /\ \A o : Base(o)' = Base(o) /\ CgStart(o)' = CgStart(o)
         /\ CgClosed' = CgClosed
         /\ \A S : CgReach(S)' = CgReach(S)
         /\ CgHeld' = CgHeld /\ CgGarbage' = CgGarbage
<1>1. cg_fields' = cg_fields /\ cg_outside' = cg_outside /\ cg_traced' = cg_traced BY DEF cgHeap
<1>2. CgAllRefs' = CgAllRefs BY <1>1 DEF CgAllRefs
<1>3. \A r : CgTarget(r)' = CgTarget(r) BY <1>1 DEF CgTarget
<1>4. \A o : CgRefs(o)' = CgRefs(o) BY <1>2, <1>3 DEF CgRefs
<1>5. \A o : Exact(o)' = Exact(o) /\ TracedRefs(o)' = TracedRefs(o) BY <1>1, <1>4 DEF Exact, TracedRefs
<1>6. \A o : Base(o)' = Base(o) /\ CgStart(o)' = CgStart(o) BY <1>1, <1>4, <1>5 DEF Base, CgStart
<1>7. CgClosed' = CgClosed BY <1>2, <1>3 DEF CgClosed
<1>8. \A S : CgReach(S)' = CgReach(S) BY <1>7 DEF CgReach
<1>9. CgHeld' = CgHeld BY <1>1, <1>8 DEF CgHeld
<1> QED BY <1>1, <1>2, <1>3, <1>4, <1>5, <1>6, <1>7, <1>8, <1>9 DEF CgGarbage

-----------------------------------------------------------------------------
(* Counts. *)

(* A reference more in a set of references counts one more. *)
LEMMA CgOneMoreRef ==
  ASSUME CgTypeOK, NEW S \in SUBSET CgAllRefs, NEW r \in CgAllRefs, r \notin S
  PROVE  Cardinality(S \cup {r}) = Cardinality(S) + 1
BY CgRefsCount, FS_AddElement

(* The references of an object are those of traced objects and the others. *)
LEMMA CgBaseFacts ==
  ASSUME CgTypeOK, NEW o \in CgObjs
  PROVE  /\ Base(o) \in Nat /\ Exact(o) \in Nat /\ cg_outside[o] \in Nat
         /\ TracedRefs(o) \in SUBSET CgAllRefs
         /\ Exact(o) = Base(o) + Cardinality(TracedRefs(o))
         /\ Base(o) > 0 <=> cg_outside[o] > 0 \/ \E r \in CgRefs(o) : r[1] \notin cg_traced
<1>1. CgRefs(o) \subseteq CgAllRefs /\ TracedRefs(o) \subseteq CgRefs(o) BY CgRefFacts DEF TracedRefs
<1>2. cg_outside[o] \in Nat BY DEF CgTypeOK
<1>3. IsFiniteSet(CgRefs(o)) BY <1>1, CgRefsCount
<1>4. CgRefs(o) \cap TracedRefs(o) = TracedRefs(o) BY <1>1
<1>5. Cardinality(CgRefs(o) \ TracedRefs(o)) = Cardinality(CgRefs(o)) - Cardinality(TracedRefs(o))
  BY <1>3, <1>4, FS_Difference
<1>6. /\ Cardinality(CgRefs(o)) \in Nat /\ Cardinality(TracedRefs(o)) \in Nat
      /\ Cardinality(CgRefs(o) \ TracedRefs(o)) \in Nat
      /\ Cardinality(CgRefs(o) \ TracedRefs(o)) = 0 <=> CgRefs(o) \ TracedRefs(o) = {}
  BY <1>1, CgRefsCount
<1>7. CgRefs(o) \ TracedRefs(o) # {} <=> \E r \in CgRefs(o) : r[1] \notin cg_traced BY DEF TracedRefs
<1>8. Base(o) = Cardinality(CgRefs(o) \ TracedRefs(o)) + cg_outside[o] BY DEF Base
<1>9. Exact(o) = Cardinality(CgRefs(o)) + cg_outside[o] BY DEF Exact
<1>10. Base(o) > 0 <=> cg_outside[o] > 0 \/ Cardinality(CgRefs(o) \ TracedRefs(o)) # 0 BY <1>2, <1>6, <1>8
<1>11. Base(o) \in Nat /\ Exact(o) \in Nat /\ Exact(o) = Base(o) + Cardinality(TracedRefs(o))
  BY <1>2, <1>5, <1>6, <1>8, <1>9
<1> QED BY <1>1, <1>2, <1>6, <1>7, <1>10, <1>11

(* References of traced objects lead to traced objects. *)
LEMMA CgTracedClosed ==
  ASSUME CgTypeOK
  PROVE  /\ cg_traced \subseteq CgObjs
         /\ \A r \in CgAllRefs : r[1] \in cg_traced => CgTarget(r) \in cg_traced
         /\ \A o \in CgObjs \ cg_traced : TracedRefs(o) = {} /\ Base(o) = Exact(o)
<1>1. cg_traced \in SUBSET CgObjs /\ \A r \in CgAllRefs : r[1] \in cg_traced => CgTarget(r) \in cg_traced
  BY DEF CgTypeOK, CgClosed
<1>2. ASSUME NEW o \in CgObjs \ cg_traced PROVE TracedRefs(o) = {}
  BY <1>1, CgRefFacts DEF TracedRefs, CgRefs
<1>3. ASSUME NEW o \in CgObjs \ cg_traced PROVE Base(o) = Exact(o)
  <2>1. Exact(o) = Base(o) + Cardinality({}) /\ Base(o) \in Nat BY <1>2, CgBaseFacts
  <2> QED BY <2>1, FS_EmptySet
<1> QED BY <1>1, <1>2, <1>3

(* What is held: what has a reference from outside, or from an object that
   was not traced, and what these lead to. *)
LEMMA CgHeldFacts ==
  ASSUME CgTypeOK
  PROVE  /\ CgHeld \subseteq CgObjs
         /\ \A o \in CgObjs \ cg_traced : o \in CgHeld
         /\ \A o \in CgObjs : Base(o) > 0 => o \in CgHeld
         /\ \A r \in CgAllRefs : r[1] \in CgHeld => CgTarget(r) \in CgHeld
         /\ \A T \in CgClosed : (\A o \in CgObjs : cg_outside[o] > 0 \/ o \notin cg_traced => o \in T) => CgHeld \subseteq T
<1> DEFINE S == {o \in CgObjs : cg_outside[o] > 0 \/ o \notin cg_traced}
<1>1. CgHeld = CgReach(S) BY DEF CgHeld
<1>2. S \subseteq CgReach(S) BY CgReachFacts
<1>3. \A r \in CgAllRefs : r[1] \in CgHeld => CgTarget(r) \in CgHeld BY <1>1, CgReachFacts
<1>4. ASSUME NEW o \in CgObjs, Base(o) > 0 PROVE o \in CgHeld
  <2>1. CASE cg_outside[o] > 0 BY <2>1, <1>1, <1>2
  <2>2. CASE \E r \in CgRefs(o) : r[1] \notin cg_traced
    <3>1. PICK r \in CgRefs(o) : r[1] \notin cg_traced BY <2>2
    <3>2. r \in CgAllRefs /\ CgTarget(r) = o /\ r[1] \in CgObjs BY CgRefFacts DEF CgRefs
    <3>3. r[1] \in CgHeld BY <3>1, <3>2, <1>1, <1>2
    <3> QED BY <3>2, <3>3, <1>3
  <2> QED BY <1>4, <2>1, <2>2, CgBaseFacts
<1> HIDE DEF S
<1>5. CgHeld \subseteq CgObjs /\ \A T \in CgClosed : S \subseteq T => CgHeld \subseteq T BY <1>1, CgReachFacts
<1> USE DEF S
<1>6. \A o \in CgObjs \ cg_traced : o \in CgHeld BY <1>1, <1>2
<1> QED BY <1>3, <1>4, <1>5, <1>6

(* Garbage has no references but from garbage. *)
LEMMA CgGarbageFacts ==
  ASSUME CgTypeOK
  PROVE  /\ CgGarbage \subseteq CgObjs /\ CgGarbage \subseteq cg_traced
         /\ \A o \in CgGarbage : Base(o) = 0
         /\ \A r \in CgAllRefs : CgTarget(r) \in CgGarbage => r[1] \in CgGarbage
<1>1. CgGarbage \subseteq CgObjs BY CgTracedClosed DEF CgGarbage
<1>2. \A o \in CgGarbage : Base(o) = 0 BY <1>1, CgHeldFacts, CgBaseFacts DEF CgGarbage
<1>3. ASSUME NEW r \in CgAllRefs, CgTarget(r) \in CgGarbage PROVE r[1] \in CgGarbage
  <2>1. r[1] \in CgObjs BY CgRefFacts
  <2>2. r[1] \notin CgHeld BY <1>3, CgHeldFacts DEF CgGarbage
  <2> QED BY <2>1, <2>2, CgHeldFacts DEF CgGarbage
<1> QED BY <1>1, <1>2, <1>3 DEF CgGarbage

(* A held object that only garbage of the traced objects refers to is held
   from elsewhere. *)
LEMMA CgHeldAlone ==
  ASSUME CgTypeOK, NEW o \in CgHeld, o \in cg_traced, \A r \in TracedRefs(o) : r[1] \in CgGarbage
  PROVE  Base(o) > 0
<1> SUFFICES ASSUME Base(o) = 0 PROVE FALSE BY CgBaseFacts, CgHeldFacts
<1>1. o \in CgObjs BY CgHeldFacts
<1>2. cg_outside[o] = 0 /\ \A r \in CgRefs(o) : r[1] \in cg_traced BY <1>1, CgBaseFacts
<1>3. \A r \in CgRefs(o) : r[1] \notin CgHeld BY <1>2 DEF TracedRefs, CgGarbage
<1> DEFINE T == CgHeld \ {o}
<1>4. T \in CgClosed
  <2>1. ASSUME NEW r \in CgAllRefs, r[1] \in T PROVE CgTarget(r) \in T
    <3>1. CgTarget(r) \in CgHeld BY <2>1, CgHeldFacts
    <3>2. CgTarget(r) # o BY <2>1, <1>3 DEF CgRefs
    <3> QED BY <3>1, <3>2
  <2> QED BY <2>1, CgHeldFacts DEF CgClosed
<1>5. \A p \in CgObjs : cg_outside[p] > 0 \/ p \notin cg_traced => p \in T
  BY <1>2, CgHeldFacts, CgBaseFacts
<1> HIDE DEF T
<1>6. CgHeld \subseteq T BY <1>4, <1>5, CgHeldFacts
<1> QED BY <1>6 DEF T

-----------------------------------------------------------------------------
(* The stack. *)

(* A new frame. *)
LEMMA CgFrameType ==
  ASSUME NEW op \in {"decrement", "restore", "live", "white", "release"}, NEW o \in CgObjs
  PROVE  CgFrame(op, o) \in CgFrames /\ CgFrame(op, o).op = op /\ CgFrame(op, o).obj = o /\ CgFrame(op, o).at = 1
BY DEF CgFrame, CgFrames

(* A call puts a frame on top. *)
LEMMA CgCallFacts ==
  ASSUME NEW stack \in Seq(CgFrames), NEW f \in CgFrames
  PROVE  /\ Append(stack, f) \in Seq(CgFrames) /\ Len(stack) \in Nat
         /\ DOMAIN stack = 1 .. Len(stack)
         /\ DOMAIN Append(stack, f) = 1 .. Len(stack) + 1
         /\ \A k \in 1 .. Len(stack) : Append(stack, f)[k] = stack[k]
         /\ Append(stack, f)[Len(stack) + 1] = f
OBVIOUS

(* The frame on top, with its next field, and without. *)
LEMMA CgTopFacts ==
  ASSUME CgTypeOK, cg_stack # <<>>
  PROVE  /\ Len(cg_stack) \in Nat \ {0} /\ DOMAIN cg_stack = 1 .. Len(cg_stack)
         /\ \A k \in 1 .. Len(cg_stack) : cg_stack[k] \in CgFrames
         /\ CgTop \in CgFrames /\ CgTop = cg_stack[Len(cg_stack)]
         /\ CgPassed \in Seq(CgFrames) /\ Len(CgPassed) = Len(cg_stack) /\ DOMAIN CgPassed = 1 .. Len(cg_stack)
         /\ \A k \in 1 .. Len(cg_stack) : k # Len(cg_stack) => CgPassed[k] = cg_stack[k]
         /\ CgPassed[Len(cg_stack)].op = CgTop.op /\ CgPassed[Len(cg_stack)].obj = CgTop.obj
         /\ CgPassed[Len(cg_stack)].at = CgTop.at + 1
         /\ CgBelow \in Seq(CgFrames) /\ Len(CgBelow) = Len(cg_stack) - 1 /\ DOMAIN CgBelow = 1 .. Len(cg_stack) - 1
         /\ \A k \in 1 .. Len(cg_stack) - 1 : CgBelow[k] = cg_stack[k]
<1> DEFINE n == Len(cg_stack)
           up == [CgTop EXCEPT !.at = CgTop.at + 1]
<1>1. cg_stack \in Seq(CgFrames) BY DEF CgTypeOK
<1>2. n \in Nat \ {0} /\ DOMAIN cg_stack = 1 .. n /\ \A k \in 1 .. n : cg_stack[k] \in CgFrames BY <1>1
<1>3. CgTop \in CgFrames /\ CgTop = cg_stack[n] BY <1>2 DEF CgTop
<1>4. up \in CgFrames /\ up.op = CgTop.op /\ up.obj = CgTop.obj /\ up.at = CgTop.at + 1 BY <1>3 DEF CgFrames
<1>5. CgPassed = [cg_stack EXCEPT ![n] = up] BY DEF CgPassed, CgTop
<1>6. CgPassed \in [1 .. n -> CgFrames] BY <1>1, <1>2, <1>4, <1>5
<1>7. CgPassed \in Seq(CgFrames) /\ Len(CgPassed) = n BY <1>2, <1>6
<1>8. CgPassed[n] = up /\ \A k \in 1 .. n : k # n => CgPassed[k] = cg_stack[k] BY <1>1, <1>2, <1>5
<1>9. CgBelow \in Seq(CgFrames) /\ Len(CgBelow) = n - 1 /\ \A k \in 1 .. n - 1 : CgBelow[k] = cg_stack[k]
  BY <1>1, <1>2 DEF CgBelow
<1>10. DOMAIN CgBelow = 1 .. n - 1 /\ DOMAIN CgPassed = 1 .. n BY <1>2, <1>6, <1>9
<1> QED BY <1>2, <1>3, <1>4, <1>7, <1>8, <1>9, <1>10

(* What is pending after a visit: all but the field that was visited. *)
LEMMA CgPassedPending ==
  ASSUME CgTypeOK, cg_stack # <<>>, NEW op, NEW r \in CgAllRefs
  PROVE  /\ CgPending(CgPassed, op, r) => CgPending(cg_stack, op, r)
         /\ CgPending(cg_stack, op, r) => CgPending(CgPassed, op, r) \/ (op = CgTop.op /\ r = <<CgTop.obj, CgTop.at>>)
         /\ CgOneFrame(cg_stack) /\ r = <<CgTop.obj, CgTop.at>> => ~CgPending(CgPassed, op, r)
<1> DEFINE n == Len(cg_stack)
<1>0. n \in Nat \ {0} BY CgTopFacts
<1>1. r[2] \in Nat /\ r = <<r[1], r[2]>>
  <2>1. r[2] \in 1 .. Len(cg_fields[r[1]]) /\ r = <<r[1], r[2]>> BY CgRefFacts
  <2> QED BY <2>1
<1>2. \A k \in 1 .. n : cg_stack[k].at \in Nat /\ CgTop.at \in Nat BY CgTopFacts DEF CgFrames
<1>3. CgPending(CgPassed, op, r) => CgPending(cg_stack, op, r)
  <2> SUFFICES ASSUME NEW k \in 1 .. n, CgPassed[k].op = op, CgPassed[k].obj = r[1], CgPassed[k].at <= r[2]
               PROVE  cg_stack[k].op = op /\ cg_stack[k].obj = r[1] /\ cg_stack[k].at <= r[2]
    BY CgTopFacts DEF CgPending
  <2>1. CASE k = n BY <2>1, <1>1, <1>2, CgTopFacts
  <2>2. CASE k # n BY <2>2, CgTopFacts
  <2> QED BY <2>1, <2>2
<1>4. CgPending(cg_stack, op, r) => CgPending(CgPassed, op, r) \/ (op = CgTop.op /\ r = <<CgTop.obj, CgTop.at>>)
  <2> SUFFICES ASSUME NEW k \in 1 .. n, cg_stack[k].op = op, cg_stack[k].obj = r[1], cg_stack[k].at <= r[2]
               PROVE  CgPending(CgPassed, op, r) \/ (op = CgTop.op /\ r = <<CgTop.obj, CgTop.at>>)
    BY CgTopFacts DEF CgPending
  <2>1. CASE k # n
    <3>1. CgPassed[k] = cg_stack[k] /\ k \in DOMAIN CgPassed BY <2>1, CgTopFacts
    <3>2. CgPending(CgPassed, op, r) BY <3>1, Zenon DEF CgPending
    <3> QED BY <3>2
  <2>2. CASE k = n
    <3>1. CASE r[2] = CgTop.at BY <3>1, <2>2, <1>1, CgTopFacts
    <3>2. CASE r[2] # CgTop.at
      <4>1. CgTop.at + 1 <= r[2] BY <3>2, <2>2, <1>1, <1>2, CgTopFacts
      <4>2. CgPassed[k].op = op /\ CgPassed[k].obj = r[1] /\ CgPassed[k].at <= r[2] /\ k \in DOMAIN CgPassed
        BY <4>1, <2>2, CgTopFacts
      <4>3. CgPending(CgPassed, op, r) BY <4>2, Zenon DEF CgPending
      <4> QED BY <4>3
    <3> QED BY <3>1, <3>2
  <2> QED BY <2>1, <2>2
<1>5. ASSUME CgOneFrame(cg_stack), r = <<CgTop.obj, CgTop.at>> PROVE ~CgPending(CgPassed, op, r)
  <2> SUFFICES ASSUME NEW k \in 1 .. n, CgPassed[k].obj = r[1], CgPassed[k].at <= r[2] PROVE FALSE
    BY CgTopFacts DEF CgPending
  <2>1. CASE k # n
    <3>1. cg_stack[k].obj = cg_stack[n].obj BY <2>1, <1>5, CgTopFacts
    <3>2. n \in 1 .. n BY <1>0
    <3>3. k \in DOMAIN cg_stack /\ n \in DOMAIN cg_stack BY <3>2, CgTopFacts
    <3> QED BY <3>1, <3>3, <2>1, <1>5 DEF CgOneFrame
  <2>2. CASE k = n BY <2>2, <1>2, <1>5, CgTopFacts
  <2> QED BY <2>1, <2>2
<1> QED BY <1>3, <1>4, <1>5

(* All fields of a new frame are pending. *)
LEMMA CgCallPending ==
  ASSUME CgTypeOK, NEW stack \in Seq(CgFrames), NEW o \in CgObjs, NEW op, NEW r \in CgAllRefs,
         NEW ops \in {"decrement", "restore", "live", "white", "release"}
  PROVE  CgPending(Append(stack, CgFrame(ops, o)), op, r) <=> CgPending(stack, op, r) \/ (op = ops /\ r[1] = o)
<1> DEFINE f == CgFrame(ops, o)
           n == Len(stack)
<1>1. f \in CgFrames /\ f.op = ops /\ f.obj = o /\ f.at = 1 BY CgFrameType
<1>2. 1 <= r[2]
  <2>1. r[2] \in 1 .. Len(cg_fields[r[1]]) BY CgRefFacts
  <2> QED BY <2>1
<1> HIDE DEF f
<1>3. /\ n \in Nat /\ DOMAIN stack = 1 .. n /\ DOMAIN Append(stack, f) = 1 .. n + 1
      /\ \A k \in 1 .. n : Append(stack, f)[k] = stack[k]
      /\ Append(stack, f)[n + 1] = f
  BY <1>1, CgCallFacts
<1>4. CgPending(Append(stack, f), op, r) => CgPending(stack, op, r) \/ (op = ops /\ r[1] = o)
  <2> SUFFICES ASSUME NEW k \in 1 .. n + 1, Append(stack, f)[k].op = op, Append(stack, f)[k].obj = r[1],
                      Append(stack, f)[k].at <= r[2]
               PROVE  CgPending(stack, op, r) \/ (op = ops /\ r[1] = o)
    BY <1>3 DEF CgPending
  <2>1. CASE k = n + 1 BY <2>1, <1>1, <1>3
  <2>2. CASE k # n + 1
    <3>1. k \in 1 .. n BY <2>2, <1>3
    <3> QED BY <3>1, <1>3 DEF CgPending
  <2> QED BY <2>1, <2>2
<1>5. CgPending(stack, op, r) => CgPending(Append(stack, f), op, r)
  <2>1. \A k \in 1 .. n : k \in 1 .. n + 1 BY <1>3
  <2> QED BY <1>3, <2>1 DEF CgPending
<1>6. op = ops /\ r[1] = o => CgPending(Append(stack, f), op, r)
  <2>1. n + 1 \in 1 .. n + 1 BY <1>3
  <2> QED BY <2>1, <1>1, <1>2, <1>3 DEF CgPending
<1> QED BY <1>4, <1>5, <1>6 DEF f

(* A frame that returns has nothing pending. *)
LEMMA CgReturnPending ==
  ASSUME CgTypeOK, cg_stack # <<>>, CgTop.at > Len(cg_fields[CgTop.obj]), NEW op, NEW r \in CgAllRefs
  PROVE  CgPending(CgBelow, op, r) <=> CgPending(cg_stack, op, r)
<1> DEFINE n == Len(cg_stack)
<1>0. n \in Nat \ {0} BY CgTopFacts
<1>1. r[1] \in CgObjs /\ r[2] \in 1 .. Len(cg_fields[r[1]]) /\ Len(cg_fields[r[1]]) \in Nat BY CgRefFacts
<1>2. CgTop.obj \in CgObjs /\ CgTop.at \in Nat BY CgTopFacts DEF CgFrames
<1>3. ~(CgTop.obj = r[1] /\ CgTop.at <= r[2])
  <2> SUFFICES ASSUME CgTop.obj = r[1], CgTop.at <= r[2] PROVE FALSE OBVIOUS
  <2>1. CgTop.at > Len(cg_fields[r[1]]) OBVIOUS
  <2> QED BY <2>1, <1>1, <1>2
<1>4. CgPending(cg_stack, op, r) => CgPending(CgBelow, op, r)
  <2> SUFFICES ASSUME NEW k \in 1 .. n, cg_stack[k].op = op, cg_stack[k].obj = r[1], cg_stack[k].at <= r[2]
               PROVE  CgPending(CgBelow, op, r)
    BY CgTopFacts DEF CgPending
  <2>1. k # n BY <1>3, CgTopFacts
  <2>2. k \in 1 .. n - 1 BY <1>0, <2>1
  <2> QED BY <2>2, CgTopFacts DEF CgPending
<1>5. CgPending(CgBelow, op, r) => CgPending(cg_stack, op, r)
  <2>1. \A k \in 1 .. n - 1 : k \in 1 .. n BY <1>0
  <2> QED BY <2>1, CgTopFacts DEF CgPending
<1> QED BY <1>4, <1>5

(* Who has a frame, after a visit, a call and a return. *)
LEMMA CgFramedFacts ==
  ASSUME CgTypeOK, cg_stack # <<>>, NEW op, NEW o
  PROVE  /\ CgFramed(CgPassed, op, o) <=> CgFramed(cg_stack, op, o)
         /\ CgFramed(cg_stack, op, o) => CgFramed(CgBelow, op, o) \/ (op = CgTop.op /\ o = CgTop.obj)
         /\ CgFramed(CgBelow, op, o) => CgFramed(cg_stack, op, o)
<1> DEFINE n == Len(cg_stack)
<1>0. n \in Nat \ {0} BY CgTopFacts
<1>1. \A k \in 1 .. n : CgPassed[k].op = cg_stack[k].op /\ CgPassed[k].obj = cg_stack[k].obj
  <2> TAKE k \in 1 .. n
  <2>1. CASE k = n BY <2>1, CgTopFacts
  <2>2. CASE k # n BY <2>2, CgTopFacts
  <2> QED BY <2>1, <2>2
<1>2. CgFramed(CgPassed, op, o) <=> CgFramed(cg_stack, op, o) BY <1>1, CgTopFacts DEF CgFramed
<1>3. CgFramed(cg_stack, op, o) => CgFramed(CgBelow, op, o) \/ (op = CgTop.op /\ o = CgTop.obj)
  <2> SUFFICES ASSUME NEW k \in 1 .. n, cg_stack[k].op = op, cg_stack[k].obj = o
               PROVE  CgFramed(CgBelow, op, o) \/ (op = CgTop.op /\ o = CgTop.obj)
    BY CgTopFacts DEF CgFramed
  <2>1. CASE k = n BY <2>1, CgTopFacts
  <2>2. CASE k # n
    <3>1. k \in 1 .. n - 1 BY <2>2, <1>0
    <3>2. CgBelow[k].op = op /\ CgBelow[k].obj = o /\ k \in DOMAIN CgBelow BY <3>1, CgTopFacts
    <3>3. CgFramed(CgBelow, op, o) BY <3>2, Zenon DEF CgFramed
    <3> QED BY <3>3
  <2> QED BY <2>1, <2>2
<1>4. CgFramed(CgBelow, op, o) => CgFramed(cg_stack, op, o)
  <2>1. \A k \in 1 .. n - 1 : k \in 1 .. n BY <1>0
  <2> QED BY <2>1, CgTopFacts DEF CgFramed
<1> QED BY <1>2, <1>3, <1>4

LEMMA CgCallFramed ==
  ASSUME NEW stack \in Seq(CgFrames), NEW c \in CgObjs, NEW op, NEW o,
         NEW ops \in {"decrement", "restore", "live", "white", "release"}
  PROVE  CgFramed(Append(stack, CgFrame(ops, c)), op, o) <=> CgFramed(stack, op, o) \/ (op = ops /\ o = c)
<1> DEFINE f == CgFrame(ops, c)
           n == Len(stack)
<1>1. f \in CgFrames /\ f.op = ops /\ f.obj = c BY CgFrameType
<1> HIDE DEF f
<1>2. /\ n \in Nat /\ DOMAIN stack = 1 .. n /\ DOMAIN Append(stack, f) = 1 .. n + 1
      /\ \A k \in 1 .. n : Append(stack, f)[k] = stack[k]
      /\ Append(stack, f)[n + 1] = f
  BY <1>1, CgCallFacts
<1>3. n + 1 \in 1 .. n + 1 /\ \A k \in 1 .. n + 1 : k = n + 1 \/ k \in 1 .. n BY <1>2
<1>4. \A k \in 1 .. n : k \in 1 .. n + 1 BY <1>2
<1>5. CgFramed(Append(stack, f), op, o) => CgFramed(stack, op, o) \/ (op = ops /\ o = c)
  BY <1>1, <1>2, <1>3 DEF CgFramed
<1>6. CgFramed(stack, op, o) \/ (op = ops /\ o = c) => CgFramed(Append(stack, f), op, o)
  BY <1>1, <1>2, <1>3, <1>4 DEF CgFramed
<1> QED BY <1>5, <1>6 DEF f

(* An object has one frame at most, if the called ones had none. *)
LEMMA CgOneFrameFacts ==
  ASSUME CgTypeOK, cg_stack # <<>>, CgOneFrame(cg_stack)
  PROVE  CgOneFrame(CgPassed) /\ CgOneFrame(CgBelow)
<1> DEFINE n == Len(cg_stack)
<1>0. n \in Nat \ {0} BY CgTopFacts
<1>1. \A k \in 1 .. n : CgPassed[k].obj = cg_stack[k].obj
  <2> TAKE k \in 1 .. n
  <2>1. CASE k = n BY <2>1, CgTopFacts
  <2>2. CASE k # n BY <2>2, CgTopFacts
  <2> QED BY <2>1, <2>2
<1>2. CgOneFrame(CgPassed) BY <1>1, CgTopFacts DEF CgOneFrame
<1>3. \A k \in 1 .. n - 1 : k \in 1 .. n BY <1>0
<1>4. CgOneFrame(CgBelow) BY <1>3, CgTopFacts DEF CgOneFrame
<1> QED BY <1>2, <1>4

LEMMA CgCallOneFrame ==
  ASSUME NEW stack \in Seq(CgFrames), CgOneFrame(stack), NEW c \in CgObjs,
         NEW ops \in {"decrement", "restore", "live", "white", "release"},
         \A k \in DOMAIN stack : stack[k].obj # c
  PROVE  CgOneFrame(Append(stack, CgFrame(ops, c)))
<1> DEFINE f == CgFrame(ops, c)
           n == Len(stack)
<1>1. f \in CgFrames /\ f.obj = c BY CgFrameType
<1> HIDE DEF f
<1>2. /\ n \in Nat /\ DOMAIN stack = 1 .. n /\ DOMAIN Append(stack, f) = 1 .. n + 1
      /\ \A k \in 1 .. n : Append(stack, f)[k] = stack[k]
      /\ Append(stack, f)[n + 1] = f
  BY <1>1, CgCallFacts
<1>3. \A k \in 1 .. n + 1 : k = n + 1 \/ k \in 1 .. n BY <1>2
<1>4. CgOneFrame(Append(stack, f)) BY <1>1, <1>2, <1>3 DEF CgOneFrame
<1> QED BY <1>4 DEF f

-----------------------------------------------------------------------------
(* Types. *)

(* In each phase the stack has the frames of that phase. *)
LEMMA CgPhaseOps ==
  ASSUME CgInv, cg_stack # <<>>
  PROVE  /\ CgTop.op = "decrement" => cg_pc = "mark"
         /\ CgTop.op \in {"restore", "live"} => cg_pc \in {"scan", "scanned"}
         /\ CgTop.op \in {"white", "release"} => cg_pc = "collect"
<1>1. CgTypeOK BY DEF CgInv
<1> DEFINE n == Len(cg_stack)
<1>2. n \in DOMAIN cg_stack /\ CgTop = cg_stack[n]
  <2>1. n \in Nat \ {0} BY <1>1, CgTopFacts
  <2>2. n \in 1 .. n BY <2>1
  <2> QED BY <2>2, <1>1, CgTopFacts
<1>3. CASE cg_pc = "mark" BY <1>2, <1>3 DEF CgInv, CgMarkInv
<1>4. CASE cg_pc \in {"scan", "scanned"} BY <1>2, <1>4 DEF CgInv, CgScanInv, CgScanning
<1>5. CASE cg_pc = "collect" BY <1>2, <1>5 DEF CgInv, CgFrameInv
<1>6. CASE cg_pc = "done" BY <1>6 DEF CgInv
<1> QED BY <1>1, <1>3, <1>4, <1>5, <1>6 DEF CgTypeOK

(* The object of the frame on top, and the field that it visits. *)
LEMMA CgFieldFacts ==
  ASSUME CgTypeOK, cg_stack # <<>>
  PROVE  /\ CgTop.obj \in CgObjs /\ CgTop.at \in Nat \ {0} /\ Len(cg_fields[CgTop.obj]) \in Nat
         /\ CgTop.at <= Len(cg_fields[CgTop.obj]) =>
              /\ <<CgTop.obj, CgTop.at>> \in CgAllRefs /\ CgField = CgTarget(<<CgTop.obj, CgTop.at>>)
              /\ CgField \in CgObjs /\ <<CgTop.obj, CgTop.at>> \in CgRefs(CgField)
<1>1. CgTop.obj \in CgObjs /\ CgTop.at \in Nat \ {0} BY CgTopFacts DEF CgFrames
<1>2. Len(cg_fields[CgTop.obj]) \in Nat BY <1>1, CgRefFacts
<1>3. ASSUME CgTop.at <= Len(cg_fields[CgTop.obj]) PROVE <<CgTop.obj, CgTop.at>> \in CgAllRefs
  <2>1. CgTop.at \in 1 .. Len(cg_fields[CgTop.obj]) BY <1>1, <1>2, <1>3
  <2> QED BY <1>1, <2>1, CgRefFacts
<1>4. CgField = CgTarget(<<CgTop.obj, CgTop.at>>) BY DEF CgField, CgTarget
<1> QED BY <1>1, <1>2, <1>3, <1>4, CgRefFacts

(* The object of the loops of cycle_gc_collect. *)
LEMMA CgSuspectFacts ==
  ASSUME CgTypeOK, cg_at <= Len(cg_suspects)
  PROVE  /\ cg_at \in DOMAIN cg_suspects /\ Suspect \in cg_traced /\ Suspect \in Range(cg_suspects)
         /\ Suspect \in CgObjs
         /\ CgBefore(cg_at + 1) = CgBefore(cg_at) \cup {Suspect} /\ Suspect \notin CgBefore(cg_at)
<1>1. cg_suspects \in Seq(cg_traced) /\ cg_at \in Nat \ {0} /\ Len(cg_suspects) \in Nat /\ DOMAIN cg_suspects = 1 .. Len(cg_suspects)
  BY DEF CgTypeOK
<1>2. cg_at \in DOMAIN cg_suspects BY <1>1
<1>3. Suspect \in cg_traced /\ Suspect \in Range(cg_suspects) BY <1>1, <1>2 DEF Suspect, Range
<1>4. \A k \in DOMAIN cg_suspects : k < cg_at + 1 <=> k < cg_at \/ k = cg_at BY <1>1
<1>5. CgBefore(cg_at + 1) = CgBefore(cg_at) \cup {Suspect} BY <1>2, <1>4 DEF CgBefore, Suspect
<1>6. \A k \in DOMAIN cg_suspects : k < cg_at => cg_suspects[k] # Suspect
  <2>1. IsInjective(cg_suspects) BY DEF CgTypeOK
  <2> QED BY <1>1, <1>2, <2>1 DEF IsInjective, Suspect
<1> QED BY <1>2, <1>3, <1>5, <1>6, CgTracedClosed DEF CgBefore

(* What a visit that goes down does. *)
LEMMA CgEntersFacts ==
  ASSUME CgTypeOK, NEW goes \in BOOLEAN, NEW stack \in Seq(CgFrames), NEW o \in CgObjs,
         NEW op \in {"decrement", "restore", "live", "white", "release"},
         NEW color \in {"black", "purple", "gray", "white"},
         CgEnters(goes, stack, op, o, color)
  PROVE  /\ cg_color' \in [CgObjs -> {"black", "purple", "gray", "white"}] /\ cg_stack' \in Seq(CgFrames)
         /\ goes => cg_stack' = Append(stack, CgFrame(op, o)) /\ cg_color'[o] = color
                    /\ \A p \in CgObjs : p # o => cg_color'[p] = cg_color[p]
         /\ ~goes => cg_stack' = stack /\ cg_color' = cg_color
<1>1. cg_color \in [CgObjs -> {"black", "purple", "gray", "white"}] BY DEF CgTypeOK
<1>2. CASE goes
  <2>1. cg_stack' = Append(stack, CgFrame(op, o)) /\ cg_color' = [cg_color EXCEPT ![o] = color] BY <1>2 DEF CgEnters
  <2>2. cg_stack' \in Seq(CgFrames) BY <2>1, CgFrameType, CgCallFacts
  <2> QED BY <1>1, <1>2, <2>1, <2>2
<1>3. CASE ~goes BY <1>1, <1>3 DEF CgEnters
<1> QED BY <1>2, <1>3

(* Restoring and scanning, which a root and a field share. *)
LEMMA CgRestoresFacts ==
  ASSUME CgTypeOK, NEW stack \in Seq(CgFrames), NEW o \in CgObjs, Restores(o, stack)
  PROVE  LET goes == o \notin cg_dead /\ cg_color[o] # "black"
         IN /\ cg_color' \in [CgObjs -> {"black", "purple", "gray", "white"}] /\ cg_stack' \in Seq(CgFrames)
            /\ cg_strong' \in [CgObjs -> Int]
            /\ goes => /\ cg_stack' = Append(stack, CgFrame("restore", o)) /\ cg_color'[o] = "black"
                       /\ \A p \in CgObjs : p # o => cg_color'[p] = cg_color[p] /\ cg_strong'[p] = cg_strong[p]
                       /\ cg_strong'[o] = cg_strong[o] + 1
            /\ ~goes => cg_stack' = stack /\ cg_color' = cg_color /\ cg_strong' = cg_strong
<1> DEFINE goes == o \notin cg_dead /\ cg_color[o] # "black"
<1>1. goes \in BOOLEAN OBVIOUS
<1>2. CgEnters(goes, stack, "restore", o, "black") BY DEF Restores
<1>3. cg_strong' = IF goes THEN [cg_strong EXCEPT ![o] = @ + 1] ELSE cg_strong BY DEF Restores
<1>4. cg_strong \in [CgObjs -> Int] BY DEF CgTypeOK
<1>5. cg_strong' \in [CgObjs -> Int] BY <1>3, <1>4
<1>6. goes => cg_strong'[o] = cg_strong[o] + 1 /\ \A p \in CgObjs : p # o => cg_strong'[p] = cg_strong[p] BY <1>3, <1>4
<1>7. ~goes => cg_strong' = cg_strong BY <1>3
<1> HIDE DEF goes
<1>8. /\ cg_color' \in [CgObjs -> {"black", "purple", "gray", "white"}] /\ cg_stack' \in Seq(CgFrames)
      /\ goes => cg_stack' = Append(stack, CgFrame("restore", o)) /\ cg_color'[o] = "black"
                 /\ \A p \in CgObjs : p # o => cg_color'[p] = cg_color[p]
      /\ ~goes => cg_stack' = stack /\ cg_color' = cg_color
  BY <1>1, <1>2, CgEntersFacts
<1> QED BY <1>5, <1>6, <1>7, <1>8 DEF goes

(* The types are kept. *)
LEMMA CgTypeStep ==
  ASSUME CgTypeOK, CgNext
  PROVE  CgTypeOK'
<1> DEFINE Colors == [CgObjs -> {"black", "purple", "gray", "white"}]
<1>1. UNCHANGED cgHeap
  BY DEF CgNext, CgReturn, CgNextPhase, CgMarkRoot, CgDecrement, CgScanRoot, CgLive, CgRestore,
         CgRootScanned, CgCollectRoot, CgWhite, CgFinalize, CgRelease, CgFinalized
<1>2. (cg_fields \in CgHeaps /\ cg_outside \in [CgObjs -> Nat] /\ cg_traced \in CgClosed)'
  BY <1>1, CgHeapSame DEF CgTypeOK, cgHeap
<1>3. /\ cg_suspects \in Seq(cg_traced) /\ IsInjective(cg_suspects) /\ cg_strong \in [CgObjs -> Int] /\ cg_color \in Colors
      /\ cg_dead \subseteq CgObjs /\ cg_freed \in Seq(CgObjs) /\ cg_abort \in BOOLEAN
      /\ cg_at \in Nat \ {0} /\ cg_stack \in Seq(CgFrames)
  BY DEF CgTypeOK
<1>4. cg_traced' = cg_traced BY <1>1 DEF cgHeap
<1> DEFINE Loop == /\ (cg_suspects \in Seq(cg_traced) /\ IsInjective(cg_suspects))'
                   /\ (cg_buffered \subseteq Range(cg_suspects) \/ cg_pc = "done")'
                   /\ (cg_pc \in {"mark", "scan", "scanned", "collect", "done"} /\ cg_at \in Nat \ {0})'
           Rest == /\ (cg_dead \subseteq CgObjs /\ cg_freed \in Seq(CgObjs) /\ cg_abort \in BOOLEAN)'
                   /\ (cg_strong \in [CgObjs -> Int] /\ cg_color \in Colors /\ cg_stack \in Seq(CgFrames))'
<1>5. Loop
  <2>1. IsInjective(<<>>) /\ <<>> \in Seq(cg_traced)
    <3>1. DOMAIN <<>> = {} OBVIOUS
    <3> QED BY <3>1 DEF IsInjective
  <2>2. cg_at + 1 \in Nat \ {0} /\ 1 \in Nat \ {0} BY <1>3
  <2> QED BY <1>3, <1>4, <2>1, <2>2
    DEF CgTypeOK, CgNext, CgReturn, CgNextPhase, CgMarkRoot, CgDecrement, CgScanRoot, CgLive, CgRestore,
         CgRootScanned, CgCollectRoot, CgWhite, CgFinalize, CgRelease, CgFinalized, AtSuspect
<1>6. ASSUME cg_stack # <<>>
      PROVE  /\ CgTop.obj \in CgObjs /\ CgPassed \in Seq(CgFrames) /\ CgBelow \in Seq(CgFrames)
             /\ CgTop.at <= Len(cg_fields[CgTop.obj]) => CgField \in CgObjs
  BY <1>6, CgTopFacts, CgFieldFacts
<1>7. cg_at <= Len(cg_suspects) => Suspect \in CgObjs BY CgSuspectFacts
<1>8. ASSUME NEW stack \in Seq(CgFrames), NEW o \in CgObjs, ScanLive(o, stack)
      PROVE  (cg_strong \in [CgObjs -> Int] /\ cg_color \in Colors /\ cg_stack \in Seq(CgFrames))'
  <2>1. CASE Restores(o, stack) BY <2>1, CgRestoresFacts
  <2>2. CASE CgEnters(o \notin cg_dead /\ cg_color[o] = "gray", stack, "live", o, "white") /\ cg_strong' = cg_strong
    BY <2>2, <1>3, CgEntersFacts
  <2> QED BY <1>8, <2>1, <2>2 DEF ScanLive
<1>9. Rest
  <2>1. CASE CgReturn BY <1>3, <1>6, <2>1 DEF CgReturn, CgReturns, CgWorks
  <2>2. CASE CgNextPhase \/ CgRootScanned BY <1>3, <2>2 DEF CgNextPhase, CgRootScanned
  <2>3. CASE CgMarkRoot
    <3>1. Suspect \in CgObjs BY <1>7, <2>3 DEF CgMarkRoot, AtSuspect
    <3>2. CgEnters(Suspect \notin cg_dead /\ cg_color[Suspect] = "purple" /\ cg_strong[Suspect] > 0, cg_stack, "decrement", Suspect, "gray")
      BY <2>3 DEF CgMarkRoot
    <3>3. cg_color' \in Colors /\ cg_stack' \in Seq(CgFrames) BY <1>3, <3>1, <3>2, CgEntersFacts
    <3> QED BY <1>3, <2>3, <3>3 DEF CgMarkRoot
  <2>4. CASE CgDecrement
    <3>1. CgField \in CgObjs /\ CgPassed \in Seq(CgFrames) BY <1>6, <2>4 DEF CgDecrement, CgVisits, CgWorks
    <3> DEFINE counted == CgField \notin cg_dead /\ cg_strong[CgField] > 0
    <3>2. CgEnters(counted /\ cg_color[CgField] # "gray", CgPassed, "decrement", CgField, "gray") BY <2>4 DEF CgDecrement
    <3>3. cg_color' \in Colors /\ cg_stack' \in Seq(CgFrames) BY <1>3, <3>1, <3>2, CgEntersFacts
    <3>4. cg_strong' = IF counted THEN [cg_strong EXCEPT ![CgField] = @ - 1] ELSE cg_strong BY <2>4 DEF CgDecrement
    <3>5. cg_strong' \in [CgObjs -> Int] BY <1>3, <3>1, <3>4
    <3> QED BY <1>3, <2>4, <3>3, <3>5 DEF CgDecrement
  <2>5. CASE CgScanRoot
    <3>1. Suspect \in CgObjs BY <1>7, <2>5 DEF CgScanRoot, AtSuspect
    <3>2. CASE Suspect \in cg_buffered
      <4>1. ScanLive(Suspect, cg_stack) BY <2>5, <3>2 DEF CgScanRoot
      <4> QED BY <1>3, <1>8, <2>5, <3>1, <4>1 DEF CgScanRoot
    <3>3. CASE Suspect \notin cg_buffered BY <1>3, <2>5, <3>3 DEF CgScanRoot
    <3> QED BY <3>2, <3>3
  <2>6. CASE CgLive
    <3>1. CgField \in CgObjs /\ CgPassed \in Seq(CgFrames) BY <1>6, <2>6 DEF CgLive, CgVisits, CgWorks
    <3>2. ScanLive(CgField, CgPassed) BY <2>6 DEF CgLive
    <3> QED BY <1>3, <1>8, <2>6, <3>1, <3>2 DEF CgLive
  <2>7. CASE CgRestore
    <3>1. CgField \in CgObjs /\ CgPassed \in Seq(CgFrames) BY <1>6, <2>7 DEF CgRestore, CgVisits, CgWorks
    <3>2. Restores(CgField, CgPassed) BY <2>7 DEF CgRestore
    <3> QED BY <1>3, <2>7, <3>1, <3>2, CgRestoresFacts DEF CgRestore
  <2>8. CASE CgCollectRoot
    <3>1. Suspect \in CgObjs BY <1>7, <2>8 DEF CgCollectRoot, AtSuspect
    <3>2. CgEnters(Suspect \in cg_buffered /\ CollectsWhite(Suspect), cg_stack, "white", Suspect, "black") BY <2>8 DEF CgCollectRoot
    <3>3. cg_color' \in Colors /\ cg_stack' \in Seq(CgFrames) BY <1>3, <3>1, <3>2, CgEntersFacts
    <3> QED BY <1>3, <2>8, <3>3 DEF CgCollectRoot
  <2>9. CASE CgWhite
    <3>1. CgField \in CgObjs /\ CgPassed \in Seq(CgFrames) BY <1>6, <2>9 DEF CgWhite, CgVisits, CgWorks
    <3>2. CgEnters(CollectsWhite(CgField), CgPassed, "white", CgField, "black") BY <2>9 DEF CgWhite
    <3>3. CollectsWhite(CgField) \in BOOLEAN BY DEF CollectsWhite
    <3>4. cg_color' \in Colors /\ cg_stack' \in Seq(CgFrames) BY <3>1, <3>2, <3>3, CgEntersFacts
    <3> QED BY <1>3, <2>9, <3>4 DEF CgWhite
  <2>10. CASE CgFinalize
    <3>1. CgTop.obj \in CgObjs /\ CgBelow \in Seq(CgFrames) BY <1>6, <2>10 DEF CgFinalize, CgReturns, CgWorks
    <3>2. Append(CgBelow, CgFrame("release", CgTop.obj)) \in Seq(CgFrames) BY <3>1, CgFrameType, CgCallFacts
    <3>3. cg_dead' \subseteq CgObjs /\ cg_stack' \in Seq(CgFrames) BY <1>3, <2>10, <3>1, <3>2 DEF CgFinalize
    <3> QED BY <1>3, <2>10, <3>3 DEF CgFinalize
  <2>11. CASE CgRelease
    <3>1. CgField \in CgObjs /\ CgPassed \in Seq(CgFrames) BY <1>6, <2>11 DEF CgRelease, CgVisits, CgWorks
    <3>2. Append(CgPassed, CgFrame("release", CgField)) \in Seq(CgFrames) BY <3>1, CgFrameType, CgCallFacts
    <3>3. cg_dead' \subseteq CgObjs /\ cg_stack' \in Seq(CgFrames) /\ cg_abort' \in BOOLEAN
      BY <1>3, <2>11, <3>1, <3>2 DEF CgRelease
    <3>4. cg_strong' = IF cg_strong[CgField] > 0 THEN [cg_strong EXCEPT ![CgField] = @ - 1] ELSE cg_strong BY <2>11 DEF CgRelease
    <3>5. cg_strong' \in [CgObjs -> Int] BY <1>3, <3>1, <3>4
    <3> QED BY <1>3, <2>11, <3>3, <3>5 DEF CgRelease
  <2>12. CASE CgFinalized
    <3>1. CgTop.obj \in CgObjs /\ CgBelow \in Seq(CgFrames) BY <1>6, <2>12 DEF CgFinalized, CgReturns, CgWorks
    <3>2. cg_freed' \in Seq(CgObjs) /\ cg_color' \in Colors /\ cg_stack' \in Seq(CgFrames) BY <1>3, <2>12, <3>1 DEF CgFinalized
    <3> QED BY <1>3, <2>12, <3>2 DEF CgFinalized
  <2> QED BY <2>1, <2>2, <2>3, <2>4, <2>5, <2>6, <2>7, <2>8, <2>9, <2>10, <2>11, <2>12 DEF CgNext
<1> QED BY <1>2, <1>5, <1>9 DEF CgTypeOK

-----------------------------------------------------------------------------
(* Marking. *)

(* In the first state nothing was tried. *)
LEMMA CgInitInv == CgInit => CgInv
<1> SUFFICES ASSUME CgInit PROVE CgInv OBVIOUS
<1>1. /\ cg_fields \in CgHeaps /\ cg_suspects \in CgBuffers /\ cg_outside \in [CgObjs -> 0 .. CgMaxOutside]
      /\ cg_strong = [o \in CgObjs |-> Exact(o)] /\ cg_buffered = Range(cg_suspects)
      /\ cg_color = [o \in CgObjs |-> IF o \in Range(cg_suspects) THEN "purple" ELSE "black"]
      /\ cg_dead = {} /\ cg_freed = <<>> /\ cg_abort = FALSE /\ cg_pc = "mark" /\ cg_at = 1 /\ cg_stack = <<>>
      /\ cg_traced = CgReach(Range(cg_suspects))
      /\ \A o \in CgObjs : Exact(o) > 0
  BY DEF CgInit
<1>2. cg_suspects \in Seq(CgObjs) /\ IsInjective(cg_suspects) /\ cg_outside \in [CgObjs -> Nat]
  BY <1>1, CgAssumption
<1>3. Range(cg_suspects) \subseteq CgObjs BY <1>2 DEF Range
<1>4. cg_traced \in CgClosed /\ Range(cg_suspects) \subseteq cg_traced BY <1>1, <1>3, CgHeapReach
<1>5. cg_suspects \in Seq(cg_traced)
  <2>1. \A k \in 1 .. Len(cg_suspects) : cg_suspects[k] \in cg_traced BY <1>2, <1>4 DEF Range
  <2> QED BY <1>2, <2>1
<1>6. \A o \in CgObjs : Exact(o) \in Int
  <2> TAKE o \in CgObjs
  <2>1. Cardinality(CgRefs(o)) \in Nat /\ cg_outside[o] \in Nat BY <1>1, <1>2, CgHeapRefs, CgHeapCount
  <2> QED BY <2>1 DEF Exact
<1>7. CgTypeOK
  <2>1. cg_strong \in [CgObjs -> Int] BY <1>1, <1>6
  <2>2. cg_color \in [CgObjs -> {"black", "purple", "gray", "white"}] BY <1>1
  <2>3. <<>> \in Seq(CgObjs) /\ <<>> \in Seq(CgFrames) /\ {} \subseteq CgObjs /\ 1 \in Nat \ {0} OBVIOUS
  <2> QED BY <1>1, <1>2, <1>4, <1>5, <2>1, <2>2, <2>3 DEF CgTypeOK
<1>8. CgTried(cg_color, cg_stack) = {}
  <2>1. \A r \in CgAllRefs : cg_color[r[1]] # "gray" BY <1>1, <1>7, CgRefFacts
  <2> QED BY <2>1 DEF CgTried
<1>9. CgBefore(cg_at) = {} /\ CgColored(cg_color, "gray") = {}
  <2>1. DOMAIN cg_suspects = 1 .. Len(cg_suspects) BY <1>2
  <2>2. \A k \in DOMAIN cg_suspects : ~(k < cg_at) BY <1>1, <2>1
  <2>3. CgBefore(cg_at) = {} BY <2>2 DEF CgBefore
  <2> QED BY <1>1, <2>3 DEF CgColored
<1>10. \A o \in CgObjs : cg_strong[o] = Exact(o) - Cardinality(CgRefs(o) \cap CgTried(cg_color, cg_stack))
  <2> TAKE o \in CgObjs
  <2>1. CgRefs(o) \cap CgTried(cg_color, cg_stack) = {} BY <1>8
  <2>2. Cardinality(CgRefs(o) \cap CgTried(cg_color, cg_stack)) = 0 BY <2>1, FS_EmptySet
  <2> QED BY <1>1, <1>6, <2>2
<1>11. CgMarkInv
  <2>1. DOMAIN cg_stack = {} BY <1>1
  <2> QED BY <1>1, <1>8, <1>9, <1>10, <2>1 DEF CgMarkInv, CgOneFrame
<1> QED BY <1>1, <1>7, <1>11 DEF CgInv

(* The invariant of marking after a step, in terms of the heap before it. *)
LEMMA CgMarkPrimed ==
  ASSUME UNCHANGED cgHeap, UNCHANGED cg_suspects, CgMarkInv,
         cg_dead' = {}, cg_freed' = <<>>, ~cg_abort', CgOneFrame(cg_stack'),
         \A k \in DOMAIN cg_stack' : cg_stack'[k].op = "decrement" /\ cg_color'[cg_stack'[k].obj] = "gray",
         \A o \in CgObjs :
           /\ cg_color'[o] = "gray" \/ cg_color'[o] = cg_color[o]
           /\ cg_strong'[o] = Exact(o) - Cardinality(CgRefs(o) \cap CgTried(cg_color', cg_stack')),
         \A r \in CgTried(cg_color', cg_stack') : cg_color'[CgTarget(r)] = "gray",
         CgBefore(cg_at') \subseteq CgColored(cg_color', "gray"),
         Range(cg_suspects) \ CgBefore(cg_at') \subseteq cg_buffered',
         CgColored(cg_color', "gray") \subseteq CgReach(CgBefore(cg_at') \cap cg_buffered')
  PROVE  CgMarkInv'
<1>1. CgTried(cg_color, cg_stack)' = CgTried(cg_color', cg_stack') BY CgHeapSame DEF CgTried, CgPending
<1>2. CgBefore(cg_at)' = CgBefore(cg_at') BY DEF CgBefore
<1>3. CgColored(cg_color, "gray")' = CgColored(cg_color', "gray") BY DEF CgColored
<1>4. CgReach(CgBefore(cg_at) \cap cg_buffered)' = CgReach(CgBefore(cg_at') \cap cg_buffered')
  BY <1>2, CgHeapSame DEF CgReach
<1>5. CgReach(Range(cg_suspects))' = CgReach(Range(cg_suspects)) BY CgHeapSame DEF CgReach
<1>6. cg_traced' = cg_traced BY DEF cgHeap
<1>7. CgOneFrame(cg_stack)' BY DEF CgOneFrame
<1>8. \A o \in CgObjs : (cg_color[o] = "gray" \/ cg_color[o] = IF o \in Range(cg_suspects) THEN "purple" ELSE "black")'
  BY DEF CgMarkInv
<1>9. \A o \in CgObjs : /\ (Exact(o) > 0)'
                        /\ (cg_strong[o] = Exact(o) - Cardinality(CgRefs(o) \cap CgTried(cg_color, cg_stack)))'
  <2> TAKE o \in CgObjs
  <2>1. Exact(o)' = Exact(o) /\ CgRefs(o)' = CgRefs(o) BY CgHeapSame
  <2>2. (CgRefs(o) \cap CgTried(cg_color, cg_stack))' = CgRefs(o) \cap CgTried(cg_color', cg_stack') BY <1>1, <2>1
  <2>3. Cardinality(CgRefs(o) \cap CgTried(cg_color, cg_stack))' = Cardinality(CgRefs(o) \cap CgTried(cg_color', cg_stack')) BY <2>2
  <2>4. Exact(o) > 0 BY DEF CgMarkInv
  <2> QED BY <2>1, <2>3, <2>4
<1>10. \A r \in CgTried(cg_color, cg_stack)' : (cg_color[CgTarget(r)] = "gray")' BY <1>1, CgHeapSame
<1>11. (CgColored(cg_color, "gray") \subseteq CgReach(CgBefore(cg_at) \cap cg_buffered))' BY <1>3, <1>4
<1>12. (cg_traced = CgReach(Range(cg_suspects)))' BY <1>5, <1>6 DEF CgMarkInv
<1>13. (CgBefore(cg_at) \subseteq CgColored(cg_color, "gray") /\ Range(cg_suspects) \ CgBefore(cg_at) \subseteq cg_buffered)'
  BY <1>2, <1>3
<1> QED BY <1>7, <1>8, <1>9, <1>10, <1>11, <1>12, <1>13 DEF CgMarkInv

(* The frames after a visit and after a call are those before, and the new one. *)
LEMMA CgPassedSame ==
  ASSUME CgTypeOK, cg_stack # <<>>, NEW k \in DOMAIN CgPassed
  PROVE  k \in DOMAIN cg_stack /\ CgPassed[k].op = cg_stack[k].op /\ CgPassed[k].obj = cg_stack[k].obj
<1>1. CASE k = Len(cg_stack) BY <1>1, CgTopFacts
<1>2. CASE k # Len(cg_stack) BY <1>2, CgTopFacts
<1> QED BY <1>1, <1>2

LEMMA CgCallSame ==
  ASSUME NEW stack \in Seq(CgFrames), NEW o \in CgObjs, NEW op \in {"decrement", "restore", "live", "white", "release"},
         NEW k \in DOMAIN Append(stack, CgFrame(op, o))
  PROVE  \/ k \in DOMAIN stack /\ Append(stack, CgFrame(op, o))[k] = stack[k]
         \/ k = Len(stack) + 1 /\ Append(stack, CgFrame(op, o))[k].op = op /\ Append(stack, CgFrame(op, o))[k].obj = o
<1> DEFINE f == CgFrame(op, o)
<1>1. f \in CgFrames /\ f.op = op /\ f.obj = o BY CgFrameType
<1> HIDE DEF f
<1>2. /\ Len(stack) \in Nat /\ DOMAIN stack = 1 .. Len(stack) /\ DOMAIN Append(stack, f) = 1 .. Len(stack) + 1
      /\ \A j \in 1 .. Len(stack) : Append(stack, f)[j] = stack[j]
      /\ Append(stack, f)[Len(stack) + 1] = f
  BY <1>1, CgCallFacts
<1>3. k \in 1 .. Len(stack) + 1 BY <1>2 DEF f
<1>4. k \in 1 .. Len(stack) \/ k = Len(stack) + 1 BY <1>2, <1>3
<1>5. \/ k \in DOMAIN stack /\ Append(stack, f)[k] = stack[k]
      \/ k = Len(stack) + 1 /\ Append(stack, f)[k].op = op /\ Append(stack, f)[k].obj = o
  BY <1>1, <1>2, <1>4
<1> QED BY <1>5 DEF f

(* A root of the marking is purple and turns gray, another suspect was traced
   from an earlier one and leaves the buffer. *)
LEMMA CgMarkRootInv ==
  ASSUME CgTypeOK, CgMarkInv, CgMarkRoot
  PROVE  CgMarkInv'
<1> DEFINE s == Suspect
           root == s \notin cg_dead /\ cg_color[s] = "purple" /\ cg_strong[s] > 0
<1>1. /\ UNCHANGED cgHeap /\ UNCHANGED cg_suspects /\ cg_strong' = cg_strong /\ cg_dead' = cg_dead
      /\ cg_freed' = cg_freed /\ cg_abort' = cg_abort /\ cg_at' = cg_at + 1 /\ cg_stack = <<>>
      /\ CgEnters(root, cg_stack, "decrement", s, "gray") /\ cg_at <= Len(cg_suspects)
      /\ cg_buffered' = IF root THEN cg_buffered ELSE cg_buffered \ {s}
  BY DEF CgMarkRoot, AtSuspect
<1>2. /\ s \in Range(cg_suspects) /\ s \in CgObjs /\ CgBefore(cg_at') = CgBefore(cg_at) \cup {s} /\ s \notin CgBefore(cg_at)
  BY <1>1, CgSuspectFacts
<1>3. cg_dead = {} /\ cg_freed = <<>> /\ ~cg_abort BY DEF CgMarkInv
<1> DEFINE Tried == CgTried(cg_color, cg_stack)
<1>4. \A o \in CgObjs : /\ cg_color[o] = "gray" \/ cg_color[o] = IF o \in Range(cg_suspects) THEN "purple" ELSE "black"
                        /\ Exact(o) > 0 /\ cg_strong[o] = Exact(o) - Cardinality(CgRefs(o) \cap Tried)
  BY DEF CgMarkInv
<1>5. \A r \in Tried : r \in CgAllRefs /\ cg_color[CgTarget(r)] = "gray" BY DEF CgMarkInv, CgTried
<1>6. /\ CgBefore(cg_at) \subseteq CgColored(cg_color, "gray")
      /\ Range(cg_suspects) \ CgBefore(cg_at) \subseteq cg_buffered
      /\ CgColored(cg_color, "gray") \subseteq CgReach(CgBefore(cg_at) \cap cg_buffered)
  BY DEF CgMarkInv
<1>7. cg_stack \in Seq(CgFrames) /\ DOMAIN cg_stack = {} BY <1>1 DEF CgTypeOK
<1>8. root \in BOOLEAN OBVIOUS
<1>9. cg_color[s] # "gray" => root
  <2> SUFFICES ASSUME cg_color[s] # "gray" PROVE root OBVIOUS
  <2>1. CgRefs(s) \cap Tried = {} BY <1>5 DEF CgRefs
  <2>2. Cardinality(CgRefs(s) \cap Tried) = 0 BY <2>1, FS_EmptySet
  <2>3. Exact(s) \in Nat BY <1>2, CgBaseFacts
  <2>4. cg_strong[s] > 0 BY <1>2, <1>4, <2>2, <2>3
  <2> QED BY <1>2, <1>3, <1>4, <2>4
<1>10. CASE root
  <2>1. cg_color[s] = "purple" BY <1>10
  <2>2. /\ cg_stack' = Append(cg_stack, CgFrame("decrement", s)) /\ cg_color'[s] = "gray"
        /\ \A o \in CgObjs : o # s => cg_color'[o] = cg_color[o]
    <3> HIDE DEF root
    <3> QED BY <1>1, <1>2, <1>7, <1>8, <1>10, CgEntersFacts
  <2>3. CgTried(cg_color', cg_stack') = Tried
    <3>1. ASSUME NEW r \in CgAllRefs
          PROVE  cg_color'[r[1]] = "gray" /\ ~CgPending(cg_stack', "decrement", r)
                 <=> cg_color[r[1]] = "gray" /\ ~CgPending(cg_stack, "decrement", r)
      <4>1. CgPending(cg_stack', "decrement", r) <=> CgPending(cg_stack, "decrement", r) \/ r[1] = s
        BY <1>2, <1>7, <2>2, CgCallPending
      <4>2. r[1] \in CgObjs BY CgRefFacts
      <4> QED BY <2>1, <2>2, <4>1, <4>2
    <3> QED BY <3>1 DEF CgTried
  <2>4. ASSUME NEW k \in DOMAIN cg_stack'
        PROVE  cg_stack'[k].op = "decrement" /\ cg_color'[cg_stack'[k].obj] = "gray"
    <3> DEFINE up == Append(cg_stack, CgFrame("decrement", s))
    <3>2. k \in DOMAIN up BY <2>2, <2>4
    <3>3. \/ k \in DOMAIN cg_stack /\ up[k] = cg_stack[k]
          \/ k = Len(cg_stack) + 1 /\ up[k].op = "decrement" /\ up[k].obj = s
      <4>1. s \in CgObjs /\ cg_stack \in Seq(CgFrames) BY <1>2, <1>7
      <4> HIDE DEF s
      <4> QED BY <3>2, <4>1, CgCallSame
    <3>1. cg_stack'[k].op = "decrement" /\ cg_stack'[k].obj = s BY <1>7, <2>2, <3>3
    <3> QED BY <2>2, <3>1
  <2>5. CgOneFrame(cg_stack')
    <3>1. CgOneFrame(cg_stack) BY <1>7 DEF CgOneFrame
    <3> QED BY <1>2, <1>7, <2>2, <3>1, CgCallOneFrame
  <2>6. \A o \in CgObjs : cg_color[o] = "gray" => cg_color'[o] = "gray" BY <2>2
  <2>7. \A r \in Tried : cg_color'[CgTarget(r)] = "gray" BY <1>5, <2>6, CgRefFacts
  <2>8. CgColored(cg_color', "gray") = CgColored(cg_color, "gray") \cup {s} BY <1>2, <2>2 DEF CgColored
  <2>9. cg_buffered' = cg_buffered /\ s \in cg_buffered BY <1>1, <1>2, <1>6, <1>10
  <2>10. CgColored(cg_color', "gray") \subseteq CgReach(CgBefore(cg_at') \cap cg_buffered')
    <3> DEFINE S == CgBefore(cg_at) \cap cg_buffered
               T == CgBefore(cg_at') \cap cg_buffered'
    <3>1. S \subseteq T /\ s \in T BY <1>2, <2>9
    <3>2. S \subseteq CgObjs /\ T \subseteq CgObjs
      BY <1>2, <1>6 DEF CgColored
    <3> HIDE DEF S, T
    <3>3. T \subseteq CgReach(T)
      <4>1. T \cap CgObjs \subseteq CgReach(T) BY CgReachFacts
      <4> QED BY <3>2, <4>1
    <3>4. CgReach(S) \subseteq CgReach(T) BY <3>1, <3>2, <3>3, CgReachMore
    <3>5. CgColored(cg_color, "gray") \subseteq CgReach(S) BY <1>6 DEF S
    <3>6. CgColored(cg_color', "gray") \subseteq CgReach(T) BY <2>8, <3>1, <3>3, <3>4, <3>5
    <3> QED BY <3>6 DEF T
  <2>11. CgBefore(cg_at') \subseteq CgColored(cg_color', "gray") BY <1>2, <1>6, <2>8
  <2>12. Range(cg_suspects) \ CgBefore(cg_at') \subseteq cg_buffered' BY <1>2, <1>6, <2>9
  <2> HIDE DEF root, s, Tried
  <2>13. \A o \in CgObjs :
           /\ cg_color'[o] = "gray" \/ cg_color'[o] = cg_color[o]
           /\ cg_strong'[o] = Exact(o) - Cardinality(CgRefs(o) \cap CgTried(cg_color', cg_stack'))
    BY <1>1, <1>4, <2>2, <2>3
  <2>14. \A r \in CgTried(cg_color', cg_stack') : cg_color'[CgTarget(r)] = "gray" BY <2>3, <2>7
  <2>15. cg_dead' = {} /\ cg_freed' = <<>> /\ ~cg_abort' BY <1>1, <1>3
  <2> QED BY <1>1, <2>4, <2>5, <2>10, <2>11, <2>12, <2>13, <2>14, <2>15, CgMarkPrimed
<1>11. CASE ~root
  <2>1. cg_color[s] = "gray" BY <1>9, <1>11
  <2>2. cg_stack' = cg_stack /\ cg_color' = cg_color /\ cg_buffered' = cg_buffered \ {s}
    <3> HIDE DEF root
    <3> QED BY <1>1, <1>2, <1>7, <1>8, <1>11, CgEntersFacts
  <2>3. CgTried(cg_color', cg_stack') = Tried BY <2>2
  <2>4. CgBefore(cg_at') \cap cg_buffered' = CgBefore(cg_at) \cap cg_buffered BY <1>2, <2>2
  <2>5. CgColored(cg_color', "gray") \subseteq CgReach(CgBefore(cg_at') \cap cg_buffered') BY <1>6, <2>2, <2>4
  <2>6. CgBefore(cg_at') \subseteq CgColored(cg_color', "gray") BY <1>2, <1>6, <2>1, <2>2 DEF CgColored
  <2>7. Range(cg_suspects) \ CgBefore(cg_at') \subseteq cg_buffered' BY <1>2, <1>6, <2>2
  <2> HIDE DEF root, s, Tried
  <2>8. \A o \in CgObjs :
           /\ cg_color'[o] = "gray" \/ cg_color'[o] = cg_color[o]
           /\ cg_strong'[o] = Exact(o) - Cardinality(CgRefs(o) \cap CgTried(cg_color', cg_stack'))
    BY <1>1, <1>4, <2>2, <2>3
  <2>9. \A r \in CgTried(cg_color', cg_stack') : cg_color'[CgTarget(r)] = "gray" BY <1>5, <2>2, <2>3
  <2>10. cg_dead' = {} /\ cg_freed' = <<>> /\ ~cg_abort' BY <1>1, <1>3
  <2>11. /\ \A k \in DOMAIN cg_stack' : cg_stack'[k].op = "decrement" /\ cg_color'[cg_stack'[k].obj] = "gray"
         /\ CgOneFrame(cg_stack')
    BY <2>2, <1>7 DEF CgOneFrame
  <2> QED BY <1>1, <2>5, <2>6, <2>7, <2>8, <2>9, <2>10, <2>11, CgMarkPrimed
<1> QED BY <1>10, <1>11

(* A decrement tries the reference of the field and no other. *)
LEMMA CgDecrementInv ==
  ASSUME CgTypeOK, CgMarkInv, CgDecrement
  PROVE  CgMarkInv'
<1> DEFINE c == CgField
           r0 == <<CgTop.obj, CgTop.at>>
           counted == c \notin cg_dead /\ cg_strong[c] > 0
           Tried == CgTried(cg_color, cg_stack)
           Tried1 == CgTried(cg_color', cg_stack')
<1>1. /\ UNCHANGED cgHeap /\ UNCHANGED cg_suspects /\ cg_buffered' = cg_buffered /\ cg_dead' = cg_dead
      /\ cg_freed' = cg_freed /\ cg_abort' = cg_abort /\ cg_at' = cg_at
      /\ cg_stack # <<>> /\ CgTop.op = "decrement" /\ CgTop.at <= Len(cg_fields[CgTop.obj])
      /\ cg_strong' = IF counted THEN [cg_strong EXCEPT ![c] = @ - 1] ELSE cg_strong
      /\ CgEnters(counted /\ cg_color[c] # "gray", CgPassed, "decrement", c, "gray")
  BY DEF CgDecrement, CgVisits, CgWorks
<1>2. r0 \in CgAllRefs /\ r0[1] = CgTop.obj /\ r0 \in CgRefs(c) /\ c \in CgObjs /\ CgTarget(r0) = c /\ CgTop.obj \in CgObjs
  BY <1>1, CgFieldFacts
<1>3. /\ cg_dead = {} /\ cg_freed = <<>> /\ ~cg_abort /\ CgOneFrame(cg_stack)
      /\ CgBefore(cg_at) \subseteq CgColored(cg_color, "gray")
      /\ Range(cg_suspects) \ CgBefore(cg_at) \subseteq cg_buffered
      /\ CgColored(cg_color, "gray") \subseteq CgReach(CgBefore(cg_at) \cap cg_buffered)
      /\ \A k \in DOMAIN cg_stack : cg_stack[k].op = "decrement" /\ cg_color[cg_stack[k].obj] = "gray"
  BY DEF CgMarkInv
<1>4. \A o \in CgObjs : Exact(o) > 0 /\ cg_strong[o] = Exact(o) - Cardinality(CgRefs(o) \cap Tried)
  BY DEF CgMarkInv
<1>5. \A r \in Tried : r \in CgAllRefs /\ cg_color[CgTarget(r)] = "gray" BY DEF CgMarkInv, CgTried
<1>6. cg_color[CgTop.obj] = "gray" /\ CgPending(cg_stack, "decrement", r0) /\ r0 \notin Tried
  <2> DEFINE n == Len(cg_stack)
  <2>1. n \in DOMAIN cg_stack /\ CgTop = cg_stack[n]
    <3>1. n \in Nat \ {0} BY <1>1, CgTopFacts
    <3>2. n \in 1 .. n BY <3>1
    <3> QED BY <1>1, <3>2, CgTopFacts
  <2>2. cg_stack[n].op = "decrement" /\ cg_stack[n].obj = r0[1] /\ cg_stack[n].at <= r0[2]
    BY <1>1, <2>1, CgFieldFacts
  <2>3. CgPending(cg_stack, "decrement", r0) BY <2>1, <2>2, Zenon DEF CgPending
  <2>4. cg_color[CgTop.obj] = "gray" BY <1>3, <2>1
  <2> QED BY <2>3, <2>4 DEF CgTried
<1>7. counted
  <2> DEFINE Had == CgRefs(c) \cap Tried
  <2>1. Had \in SUBSET CgAllRefs /\ r0 \notin Had /\ CgRefs(c) \in SUBSET CgAllRefs /\ Had \cup {r0} \subseteq CgRefs(c)
    BY <1>2, <1>6, CgRefFacts
  <2> HIDE DEF Had
  <2>2. Cardinality(Had \cup {r0}) = Cardinality(Had) + 1 BY <1>2, <2>1, CgOneMoreRef
  <2>3. Cardinality(Had \cup {r0}) <= Cardinality(CgRefs(c)) BY <2>1, CgRefsCount, FS_Subset
  <2>4. Cardinality(Had) \in Nat /\ Cardinality(CgRefs(c)) \in Nat /\ cg_outside[c] \in Nat BY <1>2, <2>1, CgRefsCount, CgBaseFacts
  <2>5. Exact(c) = Cardinality(CgRefs(c)) + cg_outside[c] BY DEF Exact
  <2>6. cg_strong[c] = Exact(c) - Cardinality(Had) BY <1>2, <1>4 DEF Had
  <2>7. cg_strong[c] > 0 BY <2>2, <2>3, <2>4, <2>5, <2>6
  <2> QED BY <1>3, <2>7
<1>8. CgPassed \in Seq(CgFrames) /\ CgOneFrame(CgPassed) BY <1>1, <1>3, CgTopFacts, CgOneFrameFacts
<1>9. \A k \in DOMAIN CgPassed : CgPassed[k].op = "decrement" /\ cg_color[CgPassed[k].obj] = "gray"
  BY <1>1, <1>3, CgPassedSame
<1>10. \A r \in CgAllRefs : CgPending(cg_stack, "decrement", r) <=> CgPending(CgPassed, "decrement", r) \/ r = r0
  <2> TAKE r \in CgAllRefs
  <2>1. r = r0 => CgPending(cg_stack, "decrement", r) BY <1>6
  <2> QED BY <1>1, <2>1, CgPassedPending
<1>11. \A r \in CgAllRefs : r = r0 => ~CgPending(CgPassed, "decrement", r)
  BY <1>1, <1>3, CgPassedPending
<1> DEFINE Grayer == \A o \in CgObjs : /\ cg_color[o] = "gray" \/ o = c => cg_color'[o] = "gray"
                                       /\ o # c => cg_color'[o] = cg_color[o]
           Stack1 == /\ CgOneFrame(cg_stack')
                     /\ \A k \in DOMAIN cg_stack' : cg_stack'[k].op = "decrement" /\ cg_color'[cg_stack'[k].obj] = "gray"
<1>12. Grayer /\ Stack1 /\ Tried1 = Tried \cup {r0}
  <2>1. CASE cg_color[c] = "gray"
    <3>1. cg_stack' = CgPassed /\ cg_color' = cg_color
      <4>1. ~(counted /\ cg_color[c] # "gray") /\ (counted /\ cg_color[c] # "gray") \in BOOLEAN BY <2>1
      <4> HIDE DEF counted
      <4> QED BY <1>1, <1>2, <1>8, <4>1, CgEntersFacts
    <3>2. Tried1 = Tried \cup {r0}
      <4>1. ASSUME NEW r \in CgAllRefs
            PROVE  cg_color[r[1]] = "gray" /\ ~CgPending(CgPassed, "decrement", r)
                   <=> (cg_color[r[1]] = "gray" /\ ~CgPending(cg_stack, "decrement", r)) \/ r = r0
        BY <1>2, <1>6, <1>10, <1>11
      <4> QED BY <1>2, <3>1, <4>1 DEF CgTried
    <3>3. Stack1 BY <1>8, <1>9, <3>1
    <3> QED BY <2>1, <3>1, <3>2, <3>3
  <2>2. CASE cg_color[c] # "gray"
    <3>1. /\ cg_stack' = Append(CgPassed, CgFrame("decrement", c)) /\ cg_color'[c] = "gray"
          /\ \A o \in CgObjs : o # c => cg_color'[o] = cg_color[o]
      <4>1. (counted /\ cg_color[c] # "gray") /\ (counted /\ cg_color[c] # "gray") \in BOOLEAN BY <1>7, <2>2
      <4> HIDE DEF counted
      <4> QED BY <1>1, <1>2, <1>8, <4>1, CgEntersFacts
    <3>2. Tried1 = Tried \cup {r0}
      <4>1. ASSUME NEW r \in CgAllRefs
            PROVE  cg_color'[r[1]] = "gray" /\ ~CgPending(cg_stack', "decrement", r)
                   <=> (cg_color[r[1]] = "gray" /\ ~CgPending(cg_stack, "decrement", r)) \/ r = r0
        <5>1. CgPending(cg_stack', "decrement", r) <=> CgPending(CgPassed, "decrement", r) \/ r[1] = c
          BY <1>2, <1>8, <3>1, CgCallPending
        <5>2. r[1] \in CgObjs BY CgRefFacts
        <5>3. CASE r[1] = c
          <6>1. r # r0 BY <5>3, <2>2, <1>2, <1>6
          <6> QED BY <5>1, <5>3, <6>1, <2>2
        <5>4. CASE r[1] # c BY <1>2, <1>6, <1>10, <1>11, <3>1, <5>1, <5>2, <5>4
        <5> QED BY <5>3, <5>4
      <4> QED BY <1>2, <4>1 DEF CgTried
    <3>3. \A k \in DOMAIN CgPassed : CgPassed[k].obj # c BY <1>9, <2>2
    <3>4. CgOneFrame(cg_stack') BY <1>2, <1>8, <3>1, <3>3, CgCallOneFrame
    <3>5. Grayer BY <2>2, <3>1
    <3>6. ASSUME NEW k \in DOMAIN cg_stack'
          PROVE  cg_stack'[k].op = "decrement" /\ cg_color'[cg_stack'[k].obj] = "gray"
      <4>1. CASE k \in DOMAIN CgPassed /\ cg_stack'[k] = CgPassed[k]
        <5>1. CgPassed[k] \in CgFrames BY <4>1, <1>8
        <5>2. CgPassed[k].obj \in CgObjs BY <5>1 DEF CgFrames
        <5> QED BY <4>1, <5>2, <1>9, <3>5
      <4>2. CASE cg_stack'[k].op = "decrement" /\ cg_stack'[k].obj = c BY <4>2, <3>1
      <4> QED BY <1>2, <1>8, <3>1, <3>6, <4>1, <4>2, CgCallSame
    <3> QED BY <3>2, <3>4, <3>5, <3>6
  <2> QED BY <2>1, <2>2
<1>13. \A o \in CgObjs : cg_strong'[o] = Exact(o) - Cardinality(CgRefs(o) \cap Tried1)
  <2>1. cg_strong' = [cg_strong EXCEPT ![c] = @ - 1] /\ cg_strong \in [CgObjs -> Int] BY <1>1, <1>7 DEF CgTypeOK
  <2>2. ASSUME NEW o \in CgObjs, o # c PROVE cg_strong'[o] = Exact(o) - Cardinality(CgRefs(o) \cap Tried1)
    <3>1. CgRefs(o) \cap Tried1 = CgRefs(o) \cap Tried
      <4>1. r0 \notin CgRefs(o) BY <1>2, <2>2 DEF CgRefs
      <4> QED BY <1>12, <4>1
    <3> QED BY <2>1, <2>2, <3>1, <1>4
  <2>3. cg_strong'[c] = Exact(c) - Cardinality(CgRefs(c) \cap Tried1)
    <3> DEFINE Had == CgRefs(c) \cap Tried
    <3>1. Had \in SUBSET CgAllRefs /\ r0 \notin Had /\ CgRefs(c) \cap Tried1 = Had \cup {r0}
      BY <1>2, <1>6, <1>12, CgRefFacts
    <3>2. cg_strong[c] = Exact(c) - Cardinality(Had) BY <1>2, <1>4
    <3> HIDE DEF Had
    <3>3. Cardinality(Had \cup {r0}) = Cardinality(Had) + 1 /\ Cardinality(Had) \in Nat
      BY <1>2, <3>1, CgOneMoreRef, CgRefsCount
    <3>4. Exact(c) \in Nat /\ cg_strong'[c] = cg_strong[c] - 1 BY <1>2, <2>1, CgBaseFacts
    <3>5. Cardinality(CgRefs(c) \cap Tried1) = Cardinality(Had) + 1 BY <3>1, <3>3
    <3> HIDE DEF c, Tried1
    <3> QED BY <3>2, <3>3, <3>4, <3>5
  <2> QED BY <2>2, <2>3
<1>14. \A r \in Tried1 : cg_color'[CgTarget(r)] = "gray" BY <1>2, <1>5, <1>12, CgRefFacts
<1>15. CgColored(cg_color', "gray") = CgColored(cg_color, "gray") \cup {c} BY <1>2, <1>12 DEF CgColored
<1>16. CgColored(cg_color', "gray") \subseteq CgReach(CgBefore(cg_at') \cap cg_buffered')
  <2> DEFINE S == CgBefore(cg_at) \cap cg_buffered
  <2>1. CgColored(cg_color, "gray") \subseteq CgReach(S) BY <1>3
  <2>2. r0[1] \in CgReach(S) BY <2>1, <1>2, <1>6 DEF CgColored
  <2> HIDE DEF S, c, r0
  <2>3. c \in CgReach(S) BY <1>2, <2>2, CgReachFacts
  <2>4. CgColored(cg_color', "gray") \subseteq CgReach(S) BY <2>1, <2>3, <1>15
  <2> QED BY <1>1, <2>4 DEF S
<1>17. \A o \in CgObjs : cg_color'[o] = "gray" \/ cg_color'[o] = cg_color[o] BY <1>12
<1>18. CgBefore(cg_at') \subseteq CgColored(cg_color', "gray") /\ Range(cg_suspects) \ CgBefore(cg_at') \subseteq cg_buffered'
  BY <1>1, <1>3, <1>15
<1>19. cg_dead' = {} /\ cg_freed' = <<>> /\ ~cg_abort' BY <1>1, <1>3
<1> HIDE DEF c, r0, counted, Tried, Grayer
<1> QED BY <1>1, <1>12, <1>13, <1>14, <1>16, <1>17, <1>18, <1>19, CgMarkPrimed DEF Tried1

(* A scanner that returns has tried all its references. *)
LEMMA CgReturnMark ==
  ASSUME CgTypeOK, CgMarkInv, CgReturn
  PROVE  CgMarkInv'
<1>1. /\ UNCHANGED cgHeap /\ UNCHANGED cg_suspects /\ cg_buffered' = cg_buffered /\ cg_dead' = cg_dead
      /\ cg_freed' = cg_freed /\ cg_abort' = cg_abort /\ cg_at' = cg_at /\ cg_strong' = cg_strong /\ cg_color' = cg_color
      /\ cg_stack # <<>> /\ CgTop.at > Len(cg_fields[CgTop.obj]) /\ cg_stack' = CgBelow
  BY DEF CgReturn, CgReturns, CgWorks
<1>2. CgTried(cg_color', cg_stack') = CgTried(cg_color, cg_stack)
  <2>1. \A r \in CgAllRefs : CgPending(CgBelow, "decrement", r) <=> CgPending(cg_stack, "decrement", r)
    BY <1>1, CgReturnPending
  <2> QED BY <1>1, <2>1 DEF CgTried
<1>3. CgOneFrame(cg_stack') BY <1>1, CgOneFrameFacts DEF CgMarkInv
<1>4. ASSUME NEW k \in DOMAIN cg_stack'
      PROVE  cg_stack'[k].op = "decrement" /\ cg_color'[cg_stack'[k].obj] = "gray"
  <2>1. k \in DOMAIN cg_stack /\ CgBelow[k] = cg_stack[k]
    <3>1. k \in 1 .. Len(cg_stack) - 1 BY <1>1, <1>4, CgTopFacts
    <3>2. Len(cg_stack) \in Nat /\ DOMAIN cg_stack = 1 .. Len(cg_stack) BY <1>1, CgTopFacts
    <3>3. k \in 1 .. Len(cg_stack) BY <3>1, <3>2
    <3> QED BY <1>1, <3>1, <3>2, <3>3, CgTopFacts
  <2> QED BY <1>1, <2>1 DEF CgMarkInv
<1>5. /\ cg_dead' = {} /\ cg_freed' = <<>> /\ ~cg_abort'
      /\ CgBefore(cg_at') \subseteq CgColored(cg_color', "gray")
      /\ Range(cg_suspects) \ CgBefore(cg_at') \subseteq cg_buffered'
      /\ CgColored(cg_color', "gray") \subseteq CgReach(CgBefore(cg_at') \cap cg_buffered')
  BY <1>1 DEF CgMarkInv
<1>6. /\ \A o \in CgObjs :
           /\ cg_color'[o] = "gray" \/ cg_color'[o] = cg_color[o]
           /\ cg_strong'[o] = Exact(o) - Cardinality(CgRefs(o) \cap CgTried(cg_color', cg_stack'))
      /\ \A r \in CgTried(cg_color', cg_stack') : cg_color'[CgTarget(r)] = "gray"
  BY <1>1, <1>2 DEF CgMarkInv
<1> QED BY <1>1, <1>3, <1>4, <1>5, <1>6, CgMarkPrimed

-----------------------------------------------------------------------------
(* Scanning. *)

(* After the last suspect, they are all before the index. *)
LEMMA CgAllBefore ==
  ASSUME CgTypeOK, cg_at > Len(cg_suspects)
  PROVE  CgBefore(cg_at) = Range(cg_suspects) /\ Range(cg_suspects) \subseteq cg_traced
<1>1. cg_suspects \in Seq(cg_traced) /\ cg_at \in Nat BY DEF CgTypeOK
<1>2. DOMAIN cg_suspects = 1 .. Len(cg_suspects) /\ Len(cg_suspects) \in Nat BY <1>1
<1>3. {l \in DOMAIN cg_suspects : l < cg_at} = DOMAIN cg_suspects BY <1>1, <1>2
<1> QED BY <1>1, <1>2, <1>3 DEF CgBefore, Range

(* The invariant of scanning after a step, in terms of the heap before it. *)
LEMMA CgScanPrimed ==
  ASSUME UNCHANGED cgHeap, UNCHANGED cg_suspects,
         cg_dead' = {}, cg_freed' = <<>>, ~cg_abort', CgScanning(cg_strong', cg_color', cg_stack'),
         cg_traced \subseteq CgReach(cg_buffered' \cup (CgColored(cg_color', "black") \cap cg_traced)),
         CgBefore(cg_at') \cap cg_buffered' \cap CgColored(cg_color', "gray") = {},
         cg_pc' = "scanned" => cg_at' <= Len(cg_suspects) /\ cg_color'[cg_suspects[cg_at']] # "gray"
  PROVE  CgScanInv'
<1>1. cg_traced' = cg_traced BY DEF cgHeap
<1>2. CgScanning(cg_strong, cg_color, cg_stack)'
  <2>1. CgAllRefs' = CgAllRefs /\ CgHeld' = CgHeld /\ \A r : CgTarget(r)' = CgTarget(r) BY CgHeapSame
  <2>2. \A o : Exact(o)' = Exact(o) /\ Base(o)' = Base(o) BY CgHeapSame
  <2> QED BY <1>1, <2>1, <2>2 DEF CgScanning, CgPending
<1>3. CgColored(cg_color, "gray")' = CgColored(cg_color', "gray") BY DEF CgColored
<1>4. CgReach(cg_buffered \cup (CgColored(cg_color, "black") \cap cg_traced))'
        = CgReach(cg_buffered' \cup (CgColored(cg_color', "black") \cap cg_traced))
  BY <1>1, CgHeapSame DEF CgReach, CgColored
<1>5. CgBefore(cg_at)' = CgBefore(cg_at') BY DEF CgBefore
<1> QED BY <1>1, <1>2, <1>3, <1>4, <1>5 DEF CgScanInv

(* Marking turns what the suspects reach gray, and nothing else, and leaves
   each object the references of others. *)
LEMMA CgMarked ==
  ASSUME CgTypeOK, CgMarkInv, CgNextPhase, cg_pc = "mark"
  PROVE  CgScanInv'
<1>1. /\ UNCHANGED cgHeap /\ UNCHANGED cg_suspects /\ cg_buffered' = cg_buffered /\ cg_dead' = cg_dead
      /\ cg_freed' = cg_freed /\ cg_abort' = cg_abort /\ cg_at' = 1 /\ cg_strong' = cg_strong /\ cg_color' = cg_color
      /\ cg_stack = <<>> /\ cg_stack' = cg_stack /\ cg_pc' = "scan" /\ cg_at > Len(cg_suspects)
  BY DEF CgNextPhase
<1> DEFINE Gray == CgColored(cg_color, "gray")
           Tried == CgTried(cg_color, cg_stack)
<1>2. CgBefore(cg_at) = Range(cg_suspects) /\ Range(cg_suspects) \subseteq cg_traced BY <1>1, CgAllBefore
<1>3. /\ cg_traced = CgReach(Range(cg_suspects)) /\ Range(cg_suspects) \subseteq Gray
      /\ Gray \subseteq CgReach(Range(cg_suspects) \cap cg_buffered)
      /\ \A r \in Tried : cg_color[CgTarget(r)] = "gray"
      /\ \A o \in CgObjs :
           /\ cg_color[o] = "gray" \/ cg_color[o] = IF o \in Range(cg_suspects) THEN "purple" ELSE "black"
           /\ cg_strong[o] = Exact(o) - Cardinality(CgRefs(o) \cap Tried)
  BY <1>2 DEF CgMarkInv
<1>4. Tried = {r \in CgAllRefs : r[1] \in Gray}
  <2>1. \A r \in CgAllRefs : ~CgPending(cg_stack, "decrement", r) BY <1>1 DEF CgPending
  <2>2. \A r \in CgAllRefs : r[1] \in CgObjs BY CgRefFacts
  <2> QED BY <2>1, <2>2 DEF CgTried, CgColored
<1>5. Gray \in CgClosed
  <2>1. \A r \in CgAllRefs : r[1] \in Gray => CgTarget(r) \in Gray BY <1>3, <1>4, CgRefFacts DEF CgColored
  <2>2. Gray \subseteq CgObjs BY DEF CgColored
  <2> HIDE DEF Gray
  <2> QED BY <2>1, <2>2 DEF CgClosed
<1>6. Gray = cg_traced
  <2>1. cg_traced \subseteq Gray
    <3> HIDE DEF Gray
    <3> QED BY <1>3, <1>5, CgReachFacts
  <2>2. Gray \subseteq cg_traced
    <3> HIDE DEF Gray
    <3>1. CgReach(Range(cg_suspects) \cap cg_buffered) \subseteq cg_traced
      <4>1. cg_traced \in CgClosed BY DEF CgTypeOK
      <4>2. Range(cg_suspects) \cap cg_buffered \subseteq cg_traced BY <1>2
      <4> QED BY <4>1, <4>2, CgReachFacts
    <3> QED BY <1>3, <3>1
  <2> QED BY <2>1, <2>2
<1>7. \A o \in CgObjs : o \in cg_traced <=> cg_color[o] = "gray" BY <1>6 DEF CgColored
<1>8. ASSUME NEW o \in CgObjs PROVE cg_strong[o] = Base(o)
  <2>1. CgRefs(o) \cap Tried = TracedRefs(o) BY <1>4, <1>6, CgRefFacts DEF TracedRefs
  <2>2. Exact(o) = Base(o) + Cardinality(TracedRefs(o)) /\ Base(o) \in Nat /\ TracedRefs(o) \in SUBSET CgAllRefs BY CgBaseFacts
  <2>3. Cardinality(TracedRefs(o)) \in Nat BY <2>2, CgRefsCount
  <2>4. cg_strong[o] = Exact(o) - Cardinality(TracedRefs(o)) BY <1>3, <2>1
  <2> QED BY <2>2, <2>3, <2>4
<1>9. CgScanning(cg_strong', cg_color', cg_stack')
  <2>1. ASSUME NEW o \in CgObjs \ cg_traced PROVE cg_color[o] = "black" /\ cg_strong[o] = Exact(o)
    <3>1. cg_color[o] # "gray" BY <1>7
    <3>2. o \notin Range(cg_suspects) BY <1>2
    <3> QED BY <1>3, <1>8, <3>1, <3>2, CgTracedClosed
  <2>2. \A o \in cg_traced : cg_color[o] = "gray" /\ cg_strong[o] = Base(o) BY <1>7, <1>8, CgTracedClosed
  <2>3. DOMAIN cg_stack = {} BY <1>1
  <2> QED BY <1>1, <2>1, <2>2, <2>3, CgRefFacts DEF CgScanning
<1>10. cg_traced \subseteq CgReach(cg_buffered' \cup (CgColored(cg_color', "black") \cap cg_traced))
  <2> DEFINE S == Range(cg_suspects) \cap cg_buffered
             T == cg_buffered \cup (CgColored(cg_color, "black") \cap cg_traced)
  <2>1. S \subseteq CgObjs /\ S \subseteq T BY <1>2, CgTracedClosed
  <2>2. T \cap CgObjs \subseteq CgReach(T)
    <3> HIDE DEF T
    <3> QED BY CgReachFacts
  <2>3. CgReach(S) \subseteq CgReach(T)
    <3> HIDE DEF S, T
    <3> QED BY <2>1, <2>2, CgReachMore
  <2> QED BY <1>1, <1>3, <1>6, <2>3
<1>11. CgBefore(cg_at') = {}
  <2>1. DOMAIN cg_suspects = 1 .. Len(cg_suspects) BY DEF CgTypeOK
  <2>2. {l \in DOMAIN cg_suspects : l < 1} = {} BY <2>1
  <2> QED BY <1>1, <2>2 DEF CgBefore
<1>12. cg_dead' = {} /\ cg_freed' = <<>> /\ ~cg_abort' /\ cg_pc' # "scanned" BY <1>1 DEF CgMarkInv
<1> QED BY <1>1, <1>9, <1>10, <1>11, <1>12, CgScanPrimed

(* An object that is restored passes that on to its fields. *)
LEMMA CgRestoresInv ==
  ASSUME CgTypeOK, CgScanInv, NEW stack \in Seq(CgFrames), NEW o \in cg_traced, o \in CgHeld, Restores(o, stack),
         \A k \in DOMAIN stack : /\ stack[k].obj \in cg_traced
                                 /\ \/ stack[k].op = "restore" /\ cg_color[stack[k].obj] = "black"
                                    \/ stack[k].op = "live" /\ cg_color[stack[k].obj] \in {"white", "black"},
         \A r \in CgAllRefs : CgTarget(r) # o => /\ CgPending(cg_stack, "restore", r) => CgPending(stack, "restore", r)
                                                 /\ CgPending(cg_stack, "live", r) => CgPending(stack, "live", r)
  PROVE  /\ CgScanning(cg_strong', cg_color', cg_stack')
         /\ cg_color'[o] # "gray"
         /\ \A p \in CgObjs : cg_color'[p] = cg_color[p] \/ cg_color'[p] = "black"
<1> DEFINE goes == o \notin cg_dead /\ cg_color[o] # "black"
<1>1. o \in CgObjs /\ cg_traced \subseteq CgObjs BY CgTracedClosed
<1>2. /\ cg_stack' \in Seq(CgFrames)
      /\ goes => /\ cg_stack' = Append(stack, CgFrame("restore", o)) /\ cg_color'[o] = "black"
                 /\ \A p \in CgObjs : p # o => cg_color'[p] = cg_color[p] /\ cg_strong'[p] = cg_strong[p]
                 /\ cg_strong'[o] = cg_strong[o] + 1
      /\ ~goes => cg_stack' = stack /\ cg_color' = cg_color /\ cg_strong' = cg_strong
  BY <1>1, CgRestoresFacts
<1>3. cg_dead = {} /\ CgScanning(cg_strong, cg_color, cg_stack) BY DEF CgScanInv
<1>4. \A p \in CgObjs \ cg_traced : cg_color[p] = "black" /\ cg_strong[p] = Exact(p) BY <1>3 DEF CgScanning
<1>5. \A p \in cg_traced :
        \/ cg_color[p] = "gray" /\ cg_strong[p] = Base(p)
        \/ cg_color[p] = "white" /\ cg_strong[p] = Base(p) /\ Base(p) = 0
        \/ cg_color[p] = "black" /\ cg_strong[p] = Base(p) + 1 /\ p \in CgHeld
  BY <1>3 DEF CgScanning
<1>6. \A r \in CgAllRefs : r[1] \in cg_traced =>
        /\ cg_color[r[1]] = "black" => CgPending(cg_stack, "restore", r) \/ cg_color[CgTarget(r)] = "black"
        /\ cg_color[r[1]] = "white" => CgPending(cg_stack, "live", r) \/ cg_color[CgTarget(r)] # "gray"
  BY <1>3 DEF CgScanning
<1>7. CASE goes
  <2> HIDE DEF goes
  <2>1. \A p \in CgObjs : p # o => cg_color'[p] = cg_color[p] /\ cg_strong'[p] = cg_strong[p] BY <1>2, <1>7
  <2>2. cg_color'[o] = "black" /\ cg_strong'[o] = cg_strong[o] + 1 /\ cg_stack' = Append(stack, CgFrame("restore", o))
    BY <1>2, <1>7
  <2>3. \A p \in CgObjs \ cg_traced : cg_color'[p] = "black" /\ cg_strong'[p] = Exact(p) BY <1>4, <2>1
  <2>4. \A p \in cg_traced :
          \/ cg_color'[p] = "gray" /\ cg_strong'[p] = Base(p)
          \/ cg_color'[p] = "white" /\ cg_strong'[p] = Base(p) /\ Base(p) = 0
          \/ cg_color'[p] = "black" /\ cg_strong'[p] = Base(p) + 1 /\ p \in CgHeld
    <3> TAKE p \in cg_traced
    <3>1. CASE p = o
      <4>1. cg_color[o] # "black" BY <1>7 DEF goes
      <4>2. cg_strong[o] = Base(o) BY <1>5, <4>1
      <4> QED BY <2>2, <3>1, <4>2
    <3>2. CASE p # o BY <1>1, <1>5, <2>1, <3>2
    <3> QED BY <3>1, <3>2
  <2>5. ASSUME NEW k \in DOMAIN cg_stack'
        PROVE  /\ cg_stack'[k].obj \in cg_traced
               /\ \/ cg_stack'[k].op = "restore" /\ cg_color'[cg_stack'[k].obj] = "black"
                  \/ cg_stack'[k].op = "live" /\ cg_color'[cg_stack'[k].obj] \in {"white", "black"}
    <3>1. CASE k \in DOMAIN stack /\ cg_stack'[k] = stack[k]
      <4>1. stack[k].obj \in CgObjs BY <1>1, <3>1
      <4>2. CASE stack[k].obj = o BY <2>2, <3>1, <4>2
      <4>3. CASE stack[k].obj # o BY <2>1, <3>1, <4>1, <4>3
      <4> QED BY <4>2, <4>3
    <3>2. CASE cg_stack'[k].op = "restore" /\ cg_stack'[k].obj = o BY <2>2, <3>2
    <3> QED BY <1>1, <2>2, <2>5, <3>1, <3>2, CgCallSame
  <2>6. ASSUME NEW r \in CgAllRefs, r[1] \in cg_traced
        PROVE  /\ cg_color'[r[1]] = "black" => CgPending(cg_stack', "restore", r) \/ cg_color'[CgTarget(r)] = "black"
               /\ cg_color'[r[1]] = "white" => CgPending(cg_stack', "live", r) \/ cg_color'[CgTarget(r)] # "gray"
    <3>1. r[1] \in CgObjs /\ CgTarget(r) \in CgObjs BY CgRefFacts
    <3>2. CASE CgTarget(r) = o BY <2>2, <3>2
    <3>3. CASE CgTarget(r) # o
      <4>1. /\ CgPending(cg_stack', "restore", r) <=> CgPending(stack, "restore", r) \/ r[1] = o
            /\ CgPending(cg_stack', "live", r) <=> CgPending(stack, "live", r)
        BY <1>1, <2>2, CgCallPending
      <4>2. CASE r[1] = o BY <2>2, <4>1, <4>2
      <4>3. CASE r[1] # o BY <1>6, <2>1, <2>6, <3>1, <3>3, <4>1, <4>3
      <4> QED BY <4>2, <4>3
    <3> QED BY <3>2, <3>3
  <2>7. \A p \in CgObjs : cg_color'[p] = cg_color[p] \/ cg_color'[p] = "black" BY <2>1, <2>2
  <2>8. CgScanning(cg_strong', cg_color', cg_stack') BY <2>3, <2>4, <2>5, <2>6 DEF CgScanning
  <2> QED BY <2>2, <2>7, <2>8
<1>8. CASE ~goes
  <2>1. cg_color[o] = "black" BY <1>3, <1>8
  <2>2. cg_stack' = stack /\ cg_color' = cg_color /\ cg_strong' = cg_strong
    <3> HIDE DEF goes
    <3> QED BY <1>2, <1>8
  <2>3. ASSUME NEW r \in CgAllRefs, r[1] \in cg_traced
        PROVE  /\ cg_color[r[1]] = "black" => CgPending(stack, "restore", r) \/ cg_color[CgTarget(r)] = "black"
               /\ cg_color[r[1]] = "white" => CgPending(stack, "live", r) \/ cg_color[CgTarget(r)] # "gray"
    <3>1. CASE CgTarget(r) = o BY <2>1, <3>1
    <3>2. CASE CgTarget(r) # o BY <1>6, <2>3, <3>2
    <3> QED BY <3>1, <3>2
  <2>4. CgScanning(cg_strong', cg_color', cg_stack') BY <1>4, <1>5, <2>2, <2>3 DEF CgScanning
  <2> QED BY <2>1, <2>2, <2>4
<1> QED BY <1>7, <1>8

(* An object that is scanned is restored if it has a reference left, or passes
   the scan on to its fields. *)
LEMMA CgScanLiveInv ==
  ASSUME CgTypeOK, CgScanInv, NEW stack \in Seq(CgFrames), NEW o \in cg_traced, ScanLive(o, stack),
         \A k \in DOMAIN stack : /\ stack[k].obj \in cg_traced
                                 /\ \/ stack[k].op = "restore" /\ cg_color[stack[k].obj] = "black"
                                    \/ stack[k].op = "live" /\ cg_color[stack[k].obj] \in {"white", "black"},
         \A r \in CgAllRefs : /\ CgPending(cg_stack, "restore", r) => CgPending(stack, "restore", r)
                              /\ CgTarget(r) # o /\ CgPending(cg_stack, "live", r) => CgPending(stack, "live", r)
  PROVE  /\ CgScanning(cg_strong', cg_color', cg_stack')
         /\ cg_color'[o] # "gray"
         /\ \A p \in CgObjs : cg_color'[p] = cg_color[p] \/ cg_color'[p] = "black"
                              \/ (cg_color[p] = "gray" /\ cg_color'[p] = "white")
<1>1. o \in CgObjs /\ cg_traced \subseteq CgObjs BY CgTracedClosed
<1>2. cg_dead = {} /\ CgScanning(cg_strong, cg_color, cg_stack) BY DEF CgScanInv
<1>3. \A p \in CgObjs \ cg_traced : cg_color[p] = "black" /\ cg_strong[p] = Exact(p) BY <1>2 DEF CgScanning
<1>4. \A p \in cg_traced :
        \/ cg_color[p] = "gray" /\ cg_strong[p] = Base(p)
        \/ cg_color[p] = "white" /\ cg_strong[p] = Base(p) /\ Base(p) = 0
        \/ cg_color[p] = "black" /\ cg_strong[p] = Base(p) + 1 /\ p \in CgHeld
  BY <1>2 DEF CgScanning
<1>5. \A r \in CgAllRefs : r[1] \in cg_traced =>
        /\ cg_color[r[1]] = "black" => CgPending(cg_stack, "restore", r) \/ cg_color[CgTarget(r)] = "black"
        /\ cg_color[r[1]] = "white" => CgPending(cg_stack, "live", r) \/ cg_color[CgTarget(r)] # "gray"
  BY <1>2 DEF CgScanning
<1>6. CASE cg_color[o] = "gray" /\ cg_strong[o] > 0
  <2>1. Restores(o, stack) BY <1>2, <1>6 DEF ScanLive
  <2>2. Base(o) > 0 BY <1>4, <1>6
  <2>3. o \in CgHeld BY <1>1, <2>2, CgHeldFacts
  <2>4. \A r \in CgAllRefs : CgTarget(r) # o => /\ CgPending(cg_stack, "restore", r) => CgPending(stack, "restore", r)
                                                /\ CgPending(cg_stack, "live", r) => CgPending(stack, "live", r)
    OBVIOUS
  <2> QED BY <2>1, <2>3, <2>4, CgRestoresInv
<1>7. CASE cg_color[o] = "gray" /\ ~(cg_strong[o] > 0)
  <2>1. CgEnters(TRUE, stack, "live", o, "white") /\ cg_strong' = cg_strong BY <1>2, <1>7 DEF ScanLive
  <2>2. /\ cg_stack' = Append(stack, CgFrame("live", o)) /\ cg_color'[o] = "white"
        /\ \A p \in CgObjs : p # o => cg_color'[p] = cg_color[p]
    <3>1. cg_color \in [CgObjs -> {"black", "purple", "gray", "white"}] BY DEF CgTypeOK
    <3> QED BY <1>1, <2>1, <3>1 DEF CgEnters
  <2>3. cg_strong[o] = Base(o) /\ Base(o) = 0
    <3>1. Base(o) \in Nat BY <1>1, CgBaseFacts
    <3>2. cg_strong[o] = Base(o) BY <1>4, <1>7
    <3> QED BY <1>7, <3>1, <3>2
  <2>4. \A p \in CgObjs \ cg_traced : cg_color'[p] = "black" /\ cg_strong'[p] = Exact(p) BY <1>3, <2>1, <2>2
  <2>5. \A p \in cg_traced :
          \/ cg_color'[p] = "gray" /\ cg_strong'[p] = Base(p)
          \/ cg_color'[p] = "white" /\ cg_strong'[p] = Base(p) /\ Base(p) = 0
          \/ cg_color'[p] = "black" /\ cg_strong'[p] = Base(p) + 1 /\ p \in CgHeld
    <3> TAKE p \in cg_traced
    <3>1. CASE p = o BY <2>1, <2>2, <2>3, <3>1
    <3>2. CASE p # o BY <1>1, <1>4, <2>1, <2>2, <3>2
    <3> QED BY <3>1, <3>2
  <2>6. ASSUME NEW k \in DOMAIN cg_stack'
        PROVE  /\ cg_stack'[k].obj \in cg_traced
               /\ \/ cg_stack'[k].op = "restore" /\ cg_color'[cg_stack'[k].obj] = "black"
                  \/ cg_stack'[k].op = "live" /\ cg_color'[cg_stack'[k].obj] \in {"white", "black"}
    <3>1. CASE k \in DOMAIN stack /\ cg_stack'[k] = stack[k]
      <4>1. stack[k].obj \in CgObjs BY <1>1, <3>1
      <4>2. stack[k].obj # o BY <1>7, <3>1
      <4> QED BY <2>2, <3>1, <4>1, <4>2
    <3>2. CASE cg_stack'[k].op = "live" /\ cg_stack'[k].obj = o BY <2>2, <3>2
    <3> QED BY <1>1, <2>2, <2>6, <3>1, <3>2, CgCallSame
  <2>7. ASSUME NEW r \in CgAllRefs, r[1] \in cg_traced
        PROVE  /\ cg_color'[r[1]] = "black" => CgPending(cg_stack', "restore", r) \/ cg_color'[CgTarget(r)] = "black"
               /\ cg_color'[r[1]] = "white" => CgPending(cg_stack', "live", r) \/ cg_color'[CgTarget(r)] # "gray"
    <3>1. r[1] \in CgObjs /\ CgTarget(r) \in CgObjs BY CgRefFacts
    <3>2. /\ CgPending(cg_stack', "restore", r) <=> CgPending(stack, "restore", r)
          /\ CgPending(cg_stack', "live", r) <=> CgPending(stack, "live", r) \/ r[1] = o
      BY <1>1, <2>2, CgCallPending
    <3>3. CASE r[1] = o BY <2>2, <3>2, <3>3
    <3>4. CASE r[1] # o
      <4>1. cg_color'[r[1]] = cg_color[r[1]] BY <2>2, <3>1, <3>4
      <4>2. CASE CgTarget(r) = o
        <5>1. cg_color[r[1]] = "black" => CgPending(cg_stack', "restore", r) BY <1>5, <1>7, <2>7, <3>2, <4>2
        <5> QED BY <2>2, <4>1, <4>2, <5>1
      <4>3. CASE CgTarget(r) # o
        <5>1. cg_color'[CgTarget(r)] = cg_color[CgTarget(r)] BY <2>2, <3>1, <4>3
        <5> QED BY <1>5, <2>7, <3>2, <4>1, <4>3, <5>1
      <4> QED BY <4>2, <4>3
    <3> QED BY <3>3, <3>4
  <2>8. \A p \in CgObjs : cg_color'[p] = cg_color[p] \/ (cg_color[p] = "gray" /\ cg_color'[p] = "white") BY <1>7, <2>2
  <2>9. CgScanning(cg_strong', cg_color', cg_stack') BY <2>4, <2>5, <2>6, <2>7 DEF CgScanning
  <2> QED BY <2>2, <2>8, <2>9
<1>8. CASE cg_color[o] # "gray"
  <2>1. CgEnters(FALSE, stack, "live", o, "white") /\ cg_strong' = cg_strong BY <1>2, <1>8 DEF ScanLive
  <2>2. cg_stack' = stack /\ cg_color' = cg_color BY <2>1 DEF CgEnters
  <2>3. ASSUME NEW r \in CgAllRefs, r[1] \in cg_traced
        PROVE  /\ cg_color[r[1]] = "black" => CgPending(stack, "restore", r) \/ cg_color[CgTarget(r)] = "black"
               /\ cg_color[r[1]] = "white" => CgPending(stack, "live", r) \/ cg_color[CgTarget(r)] # "gray"
    <3>1. CASE CgTarget(r) = o BY <1>5, <1>8, <2>3, <3>1
    <3>2. CASE CgTarget(r) # o BY <1>5, <2>3, <3>2
    <3> QED BY <3>1, <3>2
  <2>4. CgScanning(cg_strong', cg_color', cg_stack') BY <1>3, <1>4, <2>1, <2>2, <2>3 DEF CgScanning
  <2> QED BY <1>8, <2>2, <2>4
<1> QED BY <1>6, <1>7, <1>8

(* The rest of the invariant of scanning, when colours change as they do. *)
LEMMA CgScanColors ==
  ASSUME CgTypeOK, CgScanInv,
         \A p \in CgObjs : cg_color'[p] = cg_color[p] \/ cg_color'[p] = "black"
                           \/ (cg_color[p] = "gray" /\ cg_color'[p] = "white")
  PROVE  /\ cg_traced \subseteq CgReach(cg_buffered \cup (CgColored(cg_color', "black") \cap cg_traced))
         /\ CgBefore(cg_at) \cap cg_buffered \cap CgColored(cg_color', "gray") = {}
<1>1. CgColored(cg_color, "black") \subseteq CgColored(cg_color', "black")
  BY DEF CgColored
<1>2. CgColored(cg_color', "gray") \subseteq CgColored(cg_color, "gray")
  BY DEF CgColored
<1> DEFINE S == cg_buffered \cup (CgColored(cg_color, "black") \cap cg_traced)
           T == cg_buffered \cup (CgColored(cg_color', "black") \cap cg_traced)
<1>3. cg_traced \subseteq CgReach(S) BY DEF CgScanInv
<1>4. S \subseteq T BY <1>1
<1> HIDE DEF S, T
<1>5. CgReach(S) \subseteq CgReach(T) BY <1>4 DEF CgReach
<1>6. cg_traced \subseteq CgReach(T) BY <1>3, <1>5
<1> QED BY <1>2, <1>6 DEF CgScanInv, T

(* The loop of the scan. *)
LEMMA CgScanRootInv ==
  ASSUME CgTypeOK, CgScanInv, CgScanRoot
  PROVE  CgScanInv'
<1>1. /\ UNCHANGED cgHeap /\ UNCHANGED cg_suspects /\ cg_buffered' = cg_buffered /\ cg_dead' = cg_dead
      /\ cg_freed' = cg_freed /\ cg_abort' = cg_abort /\ cg_stack = <<>> /\ cg_at <= Len(cg_suspects) /\ cg_pc = "scan"
  BY DEF CgScanRoot, AtSuspect
<1>2. Suspect \in cg_traced /\ CgBefore(cg_at + 1) = CgBefore(cg_at) \cup {Suspect} BY <1>1, CgSuspectFacts
<1>3. cg_dead' = {} /\ cg_freed' = <<>> /\ ~cg_abort' BY <1>1 DEF CgScanInv
<1>4. CASE Suspect \in cg_buffered
  <2>1. ScanLive(Suspect, cg_stack) /\ cg_pc' = "scanned" /\ cg_at' = cg_at BY <1>4 DEF CgScanRoot
  <2>2. cg_stack \in Seq(CgFrames) /\ DOMAIN cg_stack = {} BY <1>1 DEF CgTypeOK
  <2>3. /\ CgScanning(cg_strong', cg_color', cg_stack')
        /\ cg_color'[Suspect] # "gray"
        /\ \A p \in CgObjs : cg_color'[p] = cg_color[p] \/ cg_color'[p] = "black"
                             \/ (cg_color[p] = "gray" /\ cg_color'[p] = "white")
    BY <1>2, <2>1, <2>2, CgScanLiveInv
  <2>4. /\ cg_traced \subseteq CgReach(cg_buffered \cup (CgColored(cg_color', "black") \cap cg_traced))
        /\ CgBefore(cg_at) \cap cg_buffered \cap CgColored(cg_color', "gray") = {}
    BY <2>3, CgScanColors
  <2>5. cg_at' <= Len(cg_suspects) /\ cg_color'[cg_suspects[cg_at']] # "gray" BY <1>1, <2>1, <2>3 DEF Suspect
  <2> QED BY <1>1, <1>3, <2>1, <2>3, <2>4, <2>5, CgScanPrimed
<1>5. CASE Suspect \notin cg_buffered
  <2>1. cg_pc' = "scan" /\ cg_at' = cg_at + 1 /\ UNCHANGED <<cg_strong, cg_color, cg_stack>> BY <1>1, <1>5 DEF CgScanRoot
  <2>2. /\ CgScanning(cg_strong', cg_color', cg_stack')
        /\ cg_traced \subseteq CgReach(cg_buffered' \cup (CgColored(cg_color', "black") \cap cg_traced))
        /\ CgBefore(cg_at) \cap cg_buffered \cap CgColored(cg_color, "gray") = {}
    BY <1>1, <2>1 DEF CgScanInv
  <2>3. CgBefore(cg_at') \cap cg_buffered' \cap CgColored(cg_color', "gray") = {} BY <1>1, <1>2, <1>5, <2>1, <2>2
  <2> QED BY <1>1, <1>3, <2>1, <2>2, <2>3, CgScanPrimed
<1> QED BY <1>4, <1>5

LEMMA CgRootScannedInv ==
  ASSUME CgTypeOK, CgScanInv, CgRootScanned
  PROVE  CgScanInv'
<1>1. /\ UNCHANGED cgHeap /\ UNCHANGED cg_suspects /\ cg_dead' = cg_dead /\ cg_strong' = cg_strong /\ cg_color' = cg_color
      /\ cg_freed' = cg_freed /\ cg_abort' = cg_abort /\ cg_stack' = cg_stack /\ cg_at <= Len(cg_suspects)
      /\ cg_pc = "scanned" /\ cg_pc' = "scan" /\ cg_at' = cg_at + 1
      /\ cg_buffered' = IF cg_color[Suspect] = "black" THEN cg_buffered \ {Suspect} ELSE cg_buffered
  BY DEF CgRootScanned, AtSuspect
<1>2. Suspect \in cg_traced /\ Suspect \in CgObjs /\ CgBefore(cg_at + 1) = CgBefore(cg_at) \cup {Suspect} BY <1>1, CgSuspectFacts
<1>3. cg_dead' = {} /\ cg_freed' = <<>> /\ ~cg_abort' BY <1>1 DEF CgScanInv
<1>4. cg_color[Suspect] # "gray" BY <1>1 DEF CgScanInv, Suspect
<1>5. CgScanning(cg_strong', cg_color', cg_stack') BY <1>1 DEF CgScanInv
<1> DEFINE S == cg_buffered \cup (CgColored(cg_color, "black") \cap cg_traced)
           T == cg_buffered' \cup (CgColored(cg_color', "black") \cap cg_traced)
<1>6. S = T BY <1>1, <1>2 DEF CgColored
<1>7. cg_traced \subseteq CgReach(S) BY DEF CgScanInv
<1>8. cg_traced \subseteq CgReach(T) BY <1>6, <1>7
<1>9. CgBefore(cg_at) \cap cg_buffered \cap CgColored(cg_color, "gray") = {} BY DEF CgScanInv
<1>10. cg_buffered' \subseteq cg_buffered /\ Suspect \notin CgColored(cg_color, "gray") BY <1>1, <1>4 DEF CgColored
<1>11. CgBefore(cg_at') \cap cg_buffered' \cap CgColored(cg_color', "gray") = {} BY <1>1, <1>2, <1>9, <1>10
<1> QED BY <1>1, <1>3, <1>5, <1>8, <1>11, CgScanPrimed

(* The frames of a scan after a visit of the field on top. *)
LEMMA CgScanPassed ==
  ASSUME CgTypeOK, CgScanInv, cg_stack # <<>>, CgTop.at <= Len(cg_fields[CgTop.obj])
  PROVE  /\ CgPassed \in Seq(CgFrames) /\ CgField \in cg_traced /\ CgTop.obj \in cg_traced
         /\ CgTop.op = "restore" => cg_color[CgTop.obj] = "black" /\ CgField \in CgHeld
         /\ \A k \in DOMAIN CgPassed :
              /\ CgPassed[k].obj \in cg_traced
              /\ \/ CgPassed[k].op = "restore" /\ cg_color[CgPassed[k].obj] = "black"
                 \/ CgPassed[k].op = "live" /\ cg_color[CgPassed[k].obj] \in {"white", "black"}
         /\ \A r \in CgAllRefs : \A op :
              CgPending(cg_stack, op, r) => CgPending(CgPassed, op, r) \/ (op = CgTop.op /\ CgTarget(r) = CgField)
<1> DEFINE n == Len(cg_stack)
<1>1. n \in DOMAIN cg_stack /\ CgTop = cg_stack[n]
  <2>1. n \in Nat \ {0} BY CgTopFacts
  <2>2. n \in 1 .. n BY <2>1
  <2> QED BY <2>2, CgTopFacts
<1>2. CgScanning(cg_strong, cg_color, cg_stack) BY DEF CgScanInv
<1>3. \A k \in DOMAIN cg_stack :
        /\ cg_stack[k].obj \in cg_traced
        /\ \/ cg_stack[k].op = "restore" /\ cg_color[cg_stack[k].obj] = "black"
           \/ cg_stack[k].op = "live" /\ cg_color[cg_stack[k].obj] \in {"white", "black"}
  BY <1>2 DEF CgScanning
<1>4. \A k \in DOMAIN CgPassed : k \in DOMAIN cg_stack /\ CgPassed[k].op = cg_stack[k].op /\ CgPassed[k].obj = cg_stack[k].obj
  BY CgPassedSame
<1>5. CgTop.obj \in cg_traced /\ (CgTop.op = "restore" => cg_color[CgTop.obj] = "black") BY <1>1, <1>3
<1> DEFINE r0 == <<CgTop.obj, CgTop.at>>
<1>6. r0 \in CgAllRefs /\ CgField = CgTarget(r0) /\ r0[1] = CgTop.obj BY CgFieldFacts
<1>7. CgField \in cg_traced BY <1>5, <1>6, CgTracedClosed
<1>8. CgTop.op = "restore" => CgField \in CgHeld
  <2> HAVE CgTop.op = "restore"
  <2>1. CgTop.obj \in CgHeld
    <3>1. cg_color[CgTop.obj] = "black" BY <1>5
    <3> QED BY <1>2, <1>5, <3>1 DEF CgScanning
  <2> QED BY <1>6, <2>1, CgHeldFacts
<1>9. \A r \in CgAllRefs : \A op :
        CgPending(cg_stack, op, r) => CgPending(CgPassed, op, r) \/ (op = CgTop.op /\ CgTarget(r) = CgField)
  BY <1>6, CgPassedPending
<1>10. \A k \in DOMAIN CgPassed :
         /\ CgPassed[k].obj \in cg_traced
         /\ \/ CgPassed[k].op = "restore" /\ cg_color[CgPassed[k].obj] = "black"
            \/ CgPassed[k].op = "live" /\ cg_color[CgPassed[k].obj] \in {"white", "black"}
  BY <1>3, <1>4
<1> QED BY <1>5, <1>7, <1>8, <1>9, <1>10, CgTopFacts

(* A visit of a scan, and of a restoration. *)
LEMMA CgVisitInv ==
  ASSUME CgTypeOK, CgScanInv, cg_pc \in {"scan", "scanned"}, CgLive \/ CgRestore
  PROVE  CgScanInv'
<1>1. /\ UNCHANGED cgHeap /\ UNCHANGED cg_suspects /\ cg_buffered' = cg_buffered /\ cg_dead' = cg_dead
      /\ cg_freed' = cg_freed /\ cg_abort' = cg_abort /\ cg_pc' = cg_pc /\ cg_at' = cg_at
      /\ cg_stack # <<>> /\ CgTop.at <= Len(cg_fields[CgTop.obj])
  BY DEF CgLive, CgRestore, CgVisits, CgWorks
<1>2. cg_dead' = {} /\ cg_freed' = <<>> /\ ~cg_abort' BY <1>1 DEF CgScanInv
<1>3. CgPassed \in Seq(CgFrames) /\ CgField \in cg_traced BY <1>1, CgScanPassed
<1>4. \A k \in DOMAIN CgPassed :
        /\ CgPassed[k].obj \in cg_traced
        /\ \/ CgPassed[k].op = "restore" /\ cg_color[CgPassed[k].obj] = "black"
           \/ CgPassed[k].op = "live" /\ cg_color[CgPassed[k].obj] \in {"white", "black"}
  BY <1>1, CgScanPassed
<1>5. \A r \in CgAllRefs : \A op :
        CgPending(cg_stack, op, r) => CgPending(CgPassed, op, r) \/ (op = CgTop.op /\ CgTarget(r) = CgField)
  BY <1>1, CgScanPassed
<1>6. /\ CgScanning(cg_strong', cg_color', cg_stack')
      /\ \A p \in CgObjs : cg_color'[p] = cg_color[p] \/ cg_color'[p] = "black"
                           \/ (cg_color[p] = "gray" /\ cg_color'[p] = "white")
  <2>1. CASE CgLive
    <3>1. ScanLive(CgField, CgPassed) /\ CgTop.op = "live" BY <2>1 DEF CgLive, CgVisits, CgWorks
    <3>2. \A r \in CgAllRefs : /\ CgPending(cg_stack, "restore", r) => CgPending(CgPassed, "restore", r)
                               /\ CgTarget(r) # CgField /\ CgPending(cg_stack, "live", r) => CgPending(CgPassed, "live", r)
      BY <1>5, <3>1
    <3> QED BY <1>3, <1>4, <3>1, <3>2, CgScanLiveInv
  <2>2. CASE CgRestore
    <3>1. Restores(CgField, CgPassed) /\ CgTop.op = "restore" BY <2>2 DEF CgRestore, CgVisits, CgWorks
    <3>2. \A r \in CgAllRefs : CgTarget(r) # CgField =>
            /\ CgPending(cg_stack, "restore", r) => CgPending(CgPassed, "restore", r)
            /\ CgPending(cg_stack, "live", r) => CgPending(CgPassed, "live", r)
      BY <1>5
    <3>3. CgField \in CgHeld BY <1>1, <3>1, CgScanPassed
    <3> QED BY <1>3, <1>4, <3>1, <3>2, <3>3, CgRestoresInv
  <2> QED BY <2>1, <2>2
<1>7. /\ cg_traced \subseteq CgReach(cg_buffered \cup (CgColored(cg_color', "black") \cap cg_traced))
      /\ CgBefore(cg_at) \cap cg_buffered \cap CgColored(cg_color', "gray") = {}
  BY <1>6, CgScanColors
<1>8. cg_pc' = "scanned" => cg_at' <= Len(cg_suspects) /\ cg_color'[cg_suspects[cg_at']] # "gray"
  <2> HAVE cg_pc' = "scanned"
  <2>1. cg_at <= Len(cg_suspects) /\ cg_color[Suspect] # "gray" BY <1>1 DEF CgScanInv, Suspect
  <2>2. Suspect \in CgObjs BY <2>1, CgSuspectFacts
  <2>3. cg_color'[Suspect] # "gray" BY <1>6, <2>1, <2>2
  <2> QED BY <1>1, <2>1, <2>3 DEF Suspect
<1> QED BY <1>1, <1>2, <1>6, <1>7, <1>8, CgScanPrimed

LEMMA CgReturnScan ==
  ASSUME CgTypeOK, CgScanInv, CgReturn
  PROVE  CgScanInv'
<1>1. /\ UNCHANGED cgHeap /\ UNCHANGED cg_suspects /\ cg_buffered' = cg_buffered /\ cg_dead' = cg_dead
      /\ cg_freed' = cg_freed /\ cg_abort' = cg_abort /\ cg_at' = cg_at /\ cg_strong' = cg_strong /\ cg_color' = cg_color
      /\ cg_pc' = cg_pc
      /\ cg_stack # <<>> /\ CgTop.at > Len(cg_fields[CgTop.obj]) /\ cg_stack' = CgBelow
  BY DEF CgReturn, CgReturns, CgWorks
<1>2. \A r \in CgAllRefs : /\ CgPending(CgBelow, "restore", r) <=> CgPending(cg_stack, "restore", r)
                           /\ CgPending(CgBelow, "live", r) <=> CgPending(cg_stack, "live", r)
  BY <1>1, CgReturnPending
<1>3. \A k \in DOMAIN CgBelow : k \in DOMAIN cg_stack /\ CgBelow[k] = cg_stack[k]
  <2>1. Len(cg_stack) \in Nat /\ DOMAIN cg_stack = 1 .. Len(cg_stack) /\ DOMAIN CgBelow = 1 .. Len(cg_stack) - 1
    BY <1>1, CgTopFacts
  <2>2. \A k \in 1 .. Len(cg_stack) - 1 : k \in 1 .. Len(cg_stack) BY <2>1
  <2> QED BY <1>1, <2>1, <2>2, CgTopFacts
<1>4. CgScanning(cg_strong, cg_color, CgBelow)
  <2>1. CgScanning(cg_strong, cg_color, cg_stack) BY DEF CgScanInv
  <2> QED BY <1>2, <1>3, <2>1 DEF CgScanning
<1> QED BY <1>1, <1>4, CgScanPrimed DEF CgScanInv

-----------------------------------------------------------------------------
(* Collecting. *)

(* The invariants of collecting after a step, in terms of the heap before it. *)
LEMMA CgColorPrimed ==
  ASSUME UNCHANGED cgHeap,
         \A o \in CgObjs \ CgGarbage : cg_color'[o] = "black",
         \A o \in CgGarbage : cg_color'[o] \in {"white", "black"} /\ cg_strong'[o] = 0,
         \A r \in CgAllRefs : r[1] \in CgGarbage /\ cg_color'[r[1]] = "black" =>
           CgPending(cg_stack', "white", r) \/ cg_color'[CgTarget(r)] # "white",
         \A o \in CgGarbage : cg_color'[o] = "black" => CgFramed(cg_stack', "white", o) \/ o \in cg_dead',
         cg_traced \subseteq CgReach(cg_buffered' \cup cg_dead' \cup (CgHeld \cap cg_traced)),
         CgBefore(cg_at)' \cap cg_buffered' \cap CgColored(cg_color', "white") = {}
  PROVE  CgColorInv'
<1>1. cg_traced' = cg_traced BY DEF cgHeap
<1>2. /\ CgGarbage' = CgGarbage /\ CgHeld' = CgHeld /\ CgAllRefs' = CgAllRefs
      /\ \A r : CgTarget(r)' = CgTarget(r)
  BY CgHeapSame
<1>3. CgReach(cg_buffered \cup cg_dead \cup (CgHeld \cap cg_traced))'
        = CgReach(cg_buffered' \cup cg_dead' \cup (CgHeld \cap cg_traced))
  BY <1>1, <1>2, CgHeapSame DEF CgReach
<1>4. CgColored(cg_color, "white")' = CgColored(cg_color', "white") BY DEF CgColored
<1>5. \A r \in CgAllRefs' : (r[1] \in CgGarbage /\ cg_color[r[1]] = "black" =>
                               CgPending(cg_stack, "white", r) \/ cg_color[CgTarget(r)] # "white")'
  BY <1>2 DEF CgPending
<1>6. \A o \in CgGarbage' : (cg_color[o] = "black" => CgFramed(cg_stack, "white", o) \/ o \in cg_dead)'
  BY <1>2 DEF CgFramed
<1>7. (cg_traced \subseteq CgReach(cg_buffered \cup cg_dead \cup (CgHeld \cap cg_traced)))' BY <1>1, <1>3
<1>8. (CgBefore(cg_at) \cap cg_buffered \cap CgColored(cg_color, "white") = {})' BY <1>4
<1>9. /\ \A o \in (CgObjs \ CgGarbage)' : (cg_color[o] = "black")'
      /\ \A o \in CgGarbage' : (cg_color[o] \in {"white", "black"} /\ cg_strong[o] = 0)'
  BY <1>2
<1> QED BY <1>5, <1>6, <1>7, <1>8, <1>9 DEF CgColorInv

LEMMA CgFramePrimed ==
  ASSUME UNCHANGED cgHeap, CgOneFrame(cg_stack'),
         \A k \in DOMAIN cg_stack' :
           /\ cg_color'[cg_stack'[k].obj] = "black"
           /\ \/ /\ cg_stack'[k].op = "white" /\ cg_stack'[k].obj \in CgGarbage \ cg_dead'
                 /\ (k = 1 => cg_stack'[k].obj \in cg_buffered') /\ CgDescent(cg_stack', k)
              \/ cg_stack'[k].op = "release" /\ cg_stack'[k].obj \in cg_dead' \ Range(cg_freed'),
         \A o \in cg_dead' : cg_color'[o] = "black" /\ (CgFramed(cg_stack', "release", o) \/ o \in Range(cg_freed')),
         Range(cg_freed') \subseteq cg_dead', IsInjective(cg_freed')
  PROVE  CgFrameInv'
<1>1. CgGarbage' = CgGarbage BY CgHeapSame
<1>2. CgOneFrame(cg_stack)' BY DEF CgOneFrame
<1>3. Range(cg_freed)' = Range(cg_freed') BY DEF Range
<1>4. IsInjective(cg_freed)' BY DEF IsInjective
<1>5. \A k \in DOMAIN cg_stack' : CgDescent(cg_stack, k)' <=> CgDescent(cg_stack', k)
  <2>1. CgAllRefs' = CgAllRefs /\ \A r : CgTarget(r)' = CgTarget(r) BY CgHeapSame
  <2>2. ASSUME NEW k \in DOMAIN cg_stack' PROVE CgRefs(cg_stack[k].obj)' = CgRefs(cg_stack'[k].obj)
    BY <2>1 DEF CgRefs
  <2> QED BY <2>2 DEF CgDescent
<1>6. \A o \in cg_dead' : (cg_color[o] = "black" /\ (CgFramed(cg_stack, "release", o) \/ o \in Range(cg_freed)))'
  BY <1>3 DEF CgFramed
<1>7. \A k \in DOMAIN cg_stack' :
        LET o == cg_stack'[k].obj
        IN /\ cg_color'[o] = "black"
           /\ \/ /\ cg_stack'[k].op = "white" /\ o \in CgGarbage' \ cg_dead' /\ (k = 1 => o \in cg_buffered')
                 /\ CgDescent(cg_stack, k)'
              \/ cg_stack'[k].op = "release" /\ o \in cg_dead' \ Range(cg_freed)'
  BY <1>1, <1>3, <1>5
<1> QED BY <1>2, <1>3, <1>4, <1>6, <1>7 DEF CgFrameInv

LEMMA CgKeptPrimed ==
  ASSUME UNCHANGED cgHeap,
         (\A o \in cg_traced : Cardinality(TracedRefs(o)) <= 1) =>
           /\ ~cg_abort' /\ cg_dead' \subseteq CgGarbage
           /\ \A o \in CgObjs \ CgGarbage :
                cg_strong'[o] = CgStart(o) - Cardinality(CgRefs(o) \cap CgReleased(cg_dead', cg_stack'))
  PROVE  CgKeptInv'
<1>1. cg_traced' = cg_traced BY DEF cgHeap
<1>2. CgGarbage' = CgGarbage /\ CgAllRefs' = CgAllRefs BY CgHeapSame
<1>3. CgReleased(cg_dead, cg_stack)' = CgReleased(cg_dead', cg_stack') BY <1>2 DEF CgReleased, CgPending
<1>4. \A o : /\ TracedRefs(o)' = TracedRefs(o) /\ CgRefs(o)' = CgRefs(o)
             /\ CgStart(o)' = CgStart(o)
  BY CgHeapSame
<1>5. \A o : Cardinality(TracedRefs(o))' = Cardinality(TracedRefs(o)) BY <1>4
<1>6. \A o : Cardinality(CgRefs(o) \cap CgReleased(cg_dead, cg_stack))'
               = Cardinality(CgRefs(o) \cap CgReleased(cg_dead', cg_stack'))
  BY <1>3, <1>4
<1> QED BY <1>1, <1>2, <1>4, <1>5, <1>6 DEF CgKeptInv

(* No reference is released by a step that changes neither who is dead nor
   what a destructor has before it. *)
LEMMA CgReleasedSame ==
  ASSUME cg_dead' = cg_dead,
         \A r \in CgAllRefs : CgPending(cg_stack', "release", r) <=> CgPending(cg_stack, "release", r)
  PROVE  CgReleased(cg_dead', cg_stack') = CgReleased(cg_dead, cg_stack)
BY DEF CgReleased

(* The scan leaves the garbage white and what is held black. *)
LEMMA CgScanned ==
  ASSUME CgTypeOK, CgScanInv, CgNextPhase, cg_pc = "scan"
  PROVE  (CgColorInv /\ CgFrameInv /\ CgKeptInv)'
<1>1. /\ UNCHANGED cgHeap /\ UNCHANGED cg_suspects /\ cg_buffered' = cg_buffered /\ cg_dead' = cg_dead
      /\ cg_freed' = cg_freed /\ cg_abort' = cg_abort /\ cg_at' = 1 /\ cg_strong' = cg_strong /\ cg_color' = cg_color
      /\ cg_stack = <<>> /\ cg_stack' = cg_stack /\ cg_at > Len(cg_suspects)
  BY DEF CgNextPhase
<1>2. CgBefore(cg_at) = Range(cg_suspects) /\ Range(cg_suspects) \subseteq cg_traced BY <1>1, CgAllBefore
<1>3. cg_buffered \subseteq Range(cg_suspects) BY DEF CgTypeOK
<1>4. cg_dead = {} /\ cg_freed = <<>> /\ ~cg_abort /\ CgScanning(cg_strong, cg_color, cg_stack) BY DEF CgScanInv
<1>5. \A o \in CgObjs \ cg_traced : cg_color[o] = "black" /\ cg_strong[o] = Exact(o) BY <1>4 DEF CgScanning
<1>6. \A o \in cg_traced :
        \/ cg_color[o] = "gray" /\ cg_strong[o] = Base(o)
        \/ cg_color[o] = "white" /\ cg_strong[o] = Base(o) /\ Base(o) = 0
        \/ cg_color[o] = "black" /\ cg_strong[o] = Base(o) + 1 /\ o \in CgHeld
  BY <1>4 DEF CgScanning
<1>7. \A op : \A r \in CgAllRefs : ~CgPending(cg_stack, op, r) BY <1>1 DEF CgPending
<1>8. \A r \in CgAllRefs : r[1] \in cg_traced =>
        /\ cg_color[r[1]] = "black" => cg_color[CgTarget(r)] = "black"
        /\ cg_color[r[1]] = "white" => cg_color[CgTarget(r)] # "gray"
  BY <1>4, <1>7 DEF CgScanning
<1>9. cg_traced \subseteq CgReach(cg_buffered \cup (CgColored(cg_color, "black") \cap cg_traced)) BY DEF CgScanInv
<1>10. \A o \in cg_traced : cg_color[o] # "gray"
  <2> DEFINE N == {o \in cg_traced : cg_color[o] # "gray"}
  <2>1. N \in CgClosed
    <3>1. ASSUME NEW r \in CgAllRefs, r[1] \in N PROVE CgTarget(r) \in N
      <4>1. CgTarget(r) \in cg_traced BY <3>1, CgTracedClosed
      <4>2. cg_color[r[1]] \in {"white", "black"} BY <1>6, <3>1
      <4> QED BY <1>8, <3>1, <4>1, <4>2
    <3> QED BY <3>1, CgTracedClosed DEF CgClosed
  <2>2. cg_buffered \cup (CgColored(cg_color, "black") \cap cg_traced) \subseteq N
    <3>1. CgBefore(cg_at) \cap cg_buffered \cap CgColored(cg_color, "gray") = {} BY DEF CgScanInv
    <3>2. \A o \in cg_buffered : o \in cg_traced /\ o \notin CgColored(cg_color, "gray") BY <1>2, <1>3, <3>1
    <3> QED BY <3>2, CgTracedClosed DEF CgColored
  <2> HIDE DEF N
  <2>3. cg_traced \subseteq N BY <1>9, <2>1, <2>2, CgReachFacts
  <2> QED BY <2>3 DEF N
<1>11. \A o \in CgHeld : o \in cg_traced => cg_color[o] = "black"
  <2> DEFINE T == {o \in CgObjs : o \in cg_traced => cg_color[o] = "black"}
  <2>1. ASSUME NEW o \in cg_traced, Base(o) > 0 PROVE cg_color[o] = "black" BY <1>6, <1>10, <2>1
  <2>2. T \in CgClosed
    <3>1. ASSUME NEW r \in CgAllRefs, r[1] \in T PROVE CgTarget(r) \in T
      <4>1. CgTarget(r) \in CgObjs /\ r \in CgRefs(CgTarget(r)) BY CgRefFacts
      <4>2. CASE r[1] \in cg_traced BY <1>8, <3>1, <4>1, <4>2
      <4>3. CASE r[1] \notin cg_traced
        <5>1. Base(CgTarget(r)) > 0 BY <4>1, <4>3, CgBaseFacts
        <5> QED BY <2>1, <4>1, <5>1
      <4> QED BY <4>2, <4>3
    <3> QED BY <3>1 DEF CgClosed
  <2>3. \A o \in CgObjs : cg_outside[o] > 0 \/ o \notin cg_traced => o \in T BY <2>1, CgBaseFacts
  <2> HIDE DEF T
  <2>4. CgHeld \subseteq T BY <2>2, <2>3, CgHeldFacts
  <2> QED BY <2>4 DEF T
<1>12. \A o \in CgGarbage : o \in CgObjs /\ cg_color[o] = "white" /\ cg_strong[o] = 0
  BY <1>6, <1>10, CgTracedClosed DEF CgGarbage
<1>13. \A o \in CgObjs \ CgGarbage : cg_color[o] = "black" /\ cg_strong[o] = CgStart(o)
  BY <1>5, <1>6, <1>10, <1>11 DEF CgGarbage, CgStart
<1>14. CgColorInv'
  <2>1. cg_traced \subseteq CgReach(cg_buffered \cup cg_dead \cup (CgHeld \cap cg_traced))
    <3> DEFINE S == cg_buffered \cup (CgColored(cg_color, "black") \cap cg_traced)
               T == cg_buffered \cup cg_dead \cup (CgHeld \cap cg_traced)
    <3>1. S \subseteq T BY <1>6 DEF CgColored
    <3>2. cg_traced \subseteq CgReach(S) BY <1>9
    <3> HIDE DEF S, T
    <3>3. CgReach(S) \subseteq CgReach(T) BY <3>1 DEF CgReach
    <3>4. cg_traced \subseteq CgReach(T) BY <3>2, <3>3
    <3> QED BY <3>4 DEF T
  <2>2. CgBefore(cg_at)' = {}
    <3>1. DOMAIN cg_suspects = 1 .. Len(cg_suspects) BY DEF CgTypeOK
    <3>2. {l \in DOMAIN cg_suspects : l < 1} = {} BY <3>1
    <3> QED BY <1>1, <3>2 DEF CgBefore
  <2>3. \A o \in CgObjs \ CgGarbage : cg_color'[o] = "black" BY <1>1, <1>13
  <2>4. \A o \in CgGarbage : cg_color'[o] \in {"white", "black"} /\ cg_strong'[o] = 0 BY <1>1, <1>12
  <2>5. \A r \in CgAllRefs : r[1] \in CgGarbage /\ cg_color'[r[1]] = "black" =>
          CgPending(cg_stack', "white", r) \/ cg_color'[CgTarget(r)] # "white"
    BY <1>1, <1>12
  <2>6. \A o \in CgGarbage : cg_color'[o] = "black" => CgFramed(cg_stack', "white", o) \/ o \in cg_dead' BY <1>1, <1>12
  <2> QED BY <1>1, <2>1, <2>2, <2>3, <2>4, <2>5, <2>6, CgColorPrimed
<1>15. CgFrameInv'
  <2>1. DOMAIN cg_stack' = {} BY <1>1
  <2>2. DOMAIN cg_freed' = {} /\ Range(cg_freed') = {} BY <1>1, <1>4 DEF Range
  <2>3. IsInjective(cg_freed') BY <2>2 DEF IsInjective
  <2>4. CgOneFrame(cg_stack') BY <2>1 DEF CgOneFrame
  <2> QED BY <1>1, <1>4, <2>1, <2>2, <2>3, <2>4, CgFramePrimed
<1>16. CgKeptInv'
  <2>1. CgReleased(cg_dead', cg_stack') = {} BY <1>1, <1>4 DEF CgReleased
  <2>2. ASSUME NEW o \in CgObjs \ CgGarbage
        PROVE  cg_strong'[o] = CgStart(o) - Cardinality(CgRefs(o) \cap CgReleased(cg_dead', cg_stack'))
    <3>1. CgRefs(o) \cap CgReleased(cg_dead', cg_stack') = {} BY <2>1
    <3>2. Cardinality(CgRefs(o) \cap CgReleased(cg_dead', cg_stack')) = 0 BY <3>1, FS_EmptySet
    <3>3. cg_strong'[o] = CgStart(o) /\ cg_strong[o] \in Int BY <1>1, <1>13 DEF CgTypeOK
    <3> QED BY <1>1, <3>2, <3>3
  <2> QED BY <1>1, <1>4, <2>2, CgKeptPrimed
<1> QED BY <1>14, <1>15, <1>16

(* The frames of the collection, on top and below. *)
LEMMA CgFrameKinds ==
  ASSUME CgTypeOK, CgFrameInv, NEW k \in DOMAIN cg_stack
  PROVE  /\ cg_stack[k].obj \in CgObjs /\ cg_color[cg_stack[k].obj] = "black" /\ k \in Nat \ {0}
         /\ \/ /\ cg_stack[k].op = "white" /\ cg_stack[k].obj \in CgGarbage \ cg_dead
               /\ (k = 1 => cg_stack[k].obj \in cg_buffered) /\ CgDescent(cg_stack, k)
            \/ cg_stack[k].op = "release" /\ cg_stack[k].obj \in cg_dead \ Range(cg_freed)
<1>1. cg_stack[k] \in CgFrames /\ k \in Nat \ {0} BY DEF CgTypeOK
<1>2. cg_stack[k].obj \in CgObjs BY <1>1 DEF CgFrames
<1> QED BY <1>1, <1>2 DEF CgFrameInv

LEMMA CgTopKind ==
  ASSUME CgTypeOK, CgFrameInv, cg_stack # <<>>
  PROVE  /\ CgTop.obj \in CgObjs /\ cg_color[CgTop.obj] = "black"
         /\ CgTop.op = "white" => CgTop.obj \in CgGarbage \ cg_dead /\ CgFramed(cg_stack, "white", CgTop.obj)
         /\ CgTop.op = "release" => CgTop.obj \in cg_dead \ Range(cg_freed)
<1>1. Len(cg_stack) \in DOMAIN cg_stack /\ CgTop = cg_stack[Len(cg_stack)]
  <2>1. Len(cg_stack) \in Nat \ {0} BY CgTopFacts
  <2>2. Len(cg_stack) \in 1 .. Len(cg_stack) BY <2>1
  <2> QED BY <2>2, CgTopFacts
<1>2. CgTop.op = "white" => CgFramed(cg_stack, "white", CgTop.obj) BY <1>1 DEF CgFramed
<1> QED BY <1>1, <1>2, CgFrameKinds

LEMMA CgDescentSame ==
  ASSUME NEW stack, NEW next, NEW k, next[k].obj = stack[k].obj, k > 1 => next[k - 1] = stack[k - 1]
  PROVE  CgDescent(next, k) <=> CgDescent(stack, k)
BY DEF CgDescent

LEMMA CgBelowFrames ==
  ASSUME CgTypeOK, CgFrameInv, cg_stack # <<>>, NEW k \in DOMAIN CgBelow
  PROVE  /\ k \in DOMAIN cg_stack /\ CgBelow[k] = cg_stack[k] /\ CgBelow[k].obj # CgTop.obj
         /\ CgDescent(CgBelow, k) <=> CgDescent(cg_stack, k)
<1> DEFINE n == Len(cg_stack)
<1>1. n \in Nat \ {0} /\ DOMAIN cg_stack = 1 .. n /\ k \in 1 .. n - 1 /\ CgTop = cg_stack[n]
      /\ \A j \in 1 .. n - 1 : CgBelow[j] = cg_stack[j]
  BY CgTopFacts
<1>2. k \in 1 .. n /\ n \in 1 .. n /\ k # n /\ (k > 1 => k - 1 \in 1 .. n - 1) BY <1>1
<1>3. cg_stack[k].obj # cg_stack[n].obj
  <2>1. CgOneFrame(cg_stack) BY DEF CgFrameInv
  <2>2. k \in DOMAIN cg_stack /\ n \in DOMAIN cg_stack /\ k # n BY <1>1, <1>2
  <2> HIDE DEF n
  <2> QED BY <2>1, <2>2 DEF CgOneFrame
<1>4. CgBelow[k].obj = cg_stack[k].obj /\ (k > 1 => CgBelow[k - 1] = cg_stack[k - 1]) BY <1>1, <1>2
<1>5. CgDescent(CgBelow, k) <=> CgDescent(cg_stack, k) BY <1>4, CgDescentSame
<1> QED BY <1>1, <1>2, <1>3, <1>5

LEMMA CgPassedFrames ==
  ASSUME CgTypeOK, cg_stack # <<>>, NEW k \in DOMAIN CgPassed
  PROVE  /\ k \in DOMAIN cg_stack /\ CgPassed[k].op = cg_stack[k].op /\ CgPassed[k].obj = cg_stack[k].obj
         /\ CgDescent(CgPassed, k) <=> CgDescent(cg_stack, k)
<1> DEFINE n == Len(cg_stack)
<1>1. n \in Nat \ {0} /\ DOMAIN cg_stack = 1 .. n /\ k \in 1 .. n
      /\ \A j \in 1 .. n : j # n => CgPassed[j] = cg_stack[j]
  BY CgTopFacts
<1>2. k > 1 => k - 1 \in 1 .. n /\ k - 1 # n
  <2> HIDE DEF n
  <2> QED BY <1>1
<1>3. CgPassed[k].obj = cg_stack[k].obj /\ CgPassed[k].op = cg_stack[k].op BY CgPassedSame
<1>4. k > 1 => CgPassed[k - 1] = cg_stack[k - 1] BY <1>1, <1>2
<1>5. CgDescent(CgPassed, k) <=> CgDescent(cg_stack, k) BY <1>3, <1>4, CgDescentSame
<1> QED BY <1>1, <1>3, <1>5

LEMMA CgCallFrames ==
  ASSUME NEW stack \in Seq(CgFrames), NEW o \in CgObjs, NEW op \in {"decrement", "restore", "live", "white", "release"},
         NEW k \in DOMAIN Append(stack, CgFrame(op, o))
  PROVE  LET up == Append(stack, CgFrame(op, o))
         IN \/ k \in DOMAIN stack /\ up[k] = stack[k] /\ (CgDescent(up, k) <=> CgDescent(stack, k))
            \/ k = Len(stack) + 1 /\ up[k].op = op /\ up[k].obj = o /\ (k > 1 => up[k - 1] = stack[Len(stack)])
<1> DEFINE f == CgFrame(op, o)
           up == Append(stack, f)
           n == Len(stack)
<1>1. f \in CgFrames /\ f.op = op /\ f.obj = o BY CgFrameType
<1> HIDE DEF f
<1>2. n \in Nat /\ DOMAIN stack = 1 .. n /\ DOMAIN up = 1 .. n + 1
      /\ (\A j \in 1 .. n : up[j] = stack[j]) /\ up[n + 1] = f
  BY <1>1, CgCallFacts
<1>3. k \in 1 .. n + 1 BY <1>2 DEF f
<1> HIDE DEF up, n
<1>4. CASE k = n + 1
  <2>1. k > 1 => n \in 1 .. n /\ k - 1 = n BY <1>2, <1>4
  <2>2. k > 1 => up[k - 1] = stack[n] BY <1>2, <2>1
  <2> QED BY <1>1, <1>2, <1>4, <2>2 DEF up, n, f
<1>5. CASE k # n + 1
  <2>1. k \in 1 .. n /\ (k > 1 => k - 1 \in 1 .. n) BY <1>2, <1>3, <1>5
  <2>2. up[k] = stack[k] /\ (k > 1 => up[k - 1] = stack[k - 1]) BY <1>2, <2>1
  <2>3. CgDescent(up, k) <=> CgDescent(stack, k) BY <2>2, CgDescentSame
  <2> QED BY <1>2, <2>1, <2>2, <2>3 DEF up, n, f
<1> QED BY <1>4, <1>5

(* A root of the collection is white and turns black. *)
LEMMA CgCollectRootInv ==
  ASSUME CgTypeOK, CgColorInv, CgFrameInv, CgKeptInv, CgCollectRoot
  PROVE  (CgColorInv /\ CgFrameInv /\ CgKeptInv)'
<1> DEFINE s == Suspect
           goes == s \in cg_buffered /\ CollectsWhite(s)
<1>1. /\ UNCHANGED cgHeap /\ UNCHANGED cg_suspects /\ cg_buffered' = cg_buffered /\ cg_dead' = cg_dead
      /\ cg_freed' = cg_freed /\ cg_abort' = cg_abort /\ cg_strong' = cg_strong /\ cg_at' = cg_at + 1
      /\ cg_stack = <<>> /\ cg_at <= Len(cg_suspects)
      /\ CgEnters(goes, cg_stack, "white", s, "black")
  BY DEF CgCollectRoot, AtSuspect
<1>2. s \in CgObjs /\ CgBefore(cg_at + 1) = CgBefore(cg_at) \cup {s} BY <1>1, CgSuspectFacts
<1>3. CgBefore(cg_at)' = CgBefore(cg_at) \cup {s} BY <1>1, <1>2 DEF CgBefore
<1>4. cg_stack \in Seq(CgFrames) /\ DOMAIN cg_stack = {} BY <1>1 DEF CgTypeOK
<1>5. \A op : /\ \A r : ~CgPending(cg_stack, op, r)
              /\ \A o : ~CgFramed(cg_stack, op, o)
  BY <1>4 DEF CgPending, CgFramed
<1>6. goes \in BOOLEAN BY DEF CollectsWhite
<1>7. /\ goes => /\ cg_stack' = Append(cg_stack, CgFrame("white", s)) /\ cg_color'[s] = "black"
                 /\ \A p \in CgObjs : p # s => cg_color'[p] = cg_color[p]
      /\ ~goes => cg_stack' = cg_stack /\ cg_color' = cg_color
  <2> HIDE DEF goes, s
  <2> QED BY <1>1, <1>2, <1>4, <1>6, CgEntersFacts
<1>8. goes => cg_color[s] = "white" /\ s \notin cg_dead /\ s \in cg_buffered BY DEF CollectsWhite
<1>9. \A o \in cg_dead : cg_color[o] = "black" /\ o \in Range(cg_freed) BY <1>5 DEF CgFrameInv
<1>10. ~goes => s \notin cg_buffered \/ cg_color[s] # "white" BY <1>9 DEF CollectsWhite
<1>11. goes => s \in CgGarbage BY <1>2, <1>8 DEF CgColorInv
<1>12. CgGarbage \subseteq CgObjs /\ cg_dead \subseteq CgObjs BY CgGarbageFacts DEF CgTypeOK
<1> HIDE DEF goes, s
<1>13. \A r \in CgAllRefs : \A op :
         /\ goes => (CgPending(cg_stack', op, r) <=> op = "white" /\ r[1] = s)
         /\ ~goes => ~CgPending(cg_stack', op, r)
  <2> TAKE r \in CgAllRefs
  <2> TAKE op
  <2>1. CgPending(Append(cg_stack, CgFrame("white", s)), op, r) <=> CgPending(cg_stack, op, r) \/ (op = "white" /\ r[1] = s)
    BY <1>2, <1>4, CgCallPending
  <2> QED BY <1>5, <1>7, <2>1
<1>14. goes => CgFramed(cg_stack', "white", s)
  <2>1. CgFramed(Append(cg_stack, CgFrame("white", s)), "white", s) BY <1>2, <1>4, CgCallFramed
  <2> QED BY <1>7, <2>1
<1>15. \A p \in CgObjs : cg_color'[p] = IF goes /\ p = s THEN "black" ELSE cg_color[p] BY <1>2, <1>7
<1>16. CgColorInv'
  <2>1. \A o \in CgObjs \ CgGarbage : cg_color'[o] = "black" BY <1>15 DEF CgColorInv
  <2>2. \A o \in CgGarbage : cg_color'[o] \in {"white", "black"} /\ cg_strong'[o] = 0
    BY <1>1, <1>12, <1>15 DEF CgColorInv
  <2>3. ASSUME NEW r \in CgAllRefs, r[1] \in CgGarbage, cg_color'[r[1]] = "black"
        PROVE  CgPending(cg_stack', "white", r) \/ cg_color'[CgTarget(r)] # "white"
    <3>1. CgTarget(r) \in CgObjs BY CgRefFacts
    <3>2. CASE goes /\ r[1] = s BY <1>13, <3>2
    <3>3. CASE ~(goes /\ r[1] = s)
      <4>1. cg_color[r[1]] = "black" BY <1>12, <1>15, <2>3, <3>3
      <4>2. cg_color[CgTarget(r)] # "white" BY <1>5, <2>3, <4>1 DEF CgColorInv
      <4> QED BY <1>15, <3>1, <4>2
    <3> QED BY <3>2, <3>3
  <2>4. \A o \in CgGarbage : cg_color'[o] = "black" => CgFramed(cg_stack', "white", o) \/ o \in cg_dead'
    BY <1>1, <1>5, <1>12, <1>14, <1>15 DEF CgColorInv
  <2>5. cg_traced \subseteq CgReach(cg_buffered' \cup cg_dead' \cup (CgHeld \cap cg_traced)) BY <1>1 DEF CgColorInv
  <2>6. CgBefore(cg_at)' \cap cg_buffered' \cap CgColored(cg_color', "white") = {}
    <3>1. CgBefore(cg_at) \cap cg_buffered \cap CgColored(cg_color, "white") = {} BY DEF CgColorInv
    <3>2. CgColored(cg_color', "white") \subseteq CgColored(cg_color, "white") BY <1>15 DEF CgColored
    <3>3. s \notin cg_buffered \/ s \notin CgColored(cg_color', "white") BY <1>2, <1>10, <1>15 DEF CgColored
    <3> QED BY <1>1, <1>3, <3>1, <3>2, <3>3
  <2> QED BY <1>1, <2>1, <2>2, <2>3, <2>4, <2>5, <2>6, CgColorPrimed
<1>17. CgFrameInv'
  <2>1. CgOneFrame(cg_stack')
    <3>1. CgOneFrame(cg_stack) BY DEF CgFrameInv
    <3>2. CgOneFrame(Append(cg_stack, CgFrame("white", s))) BY <1>2, <1>4, <3>1, CgCallOneFrame
    <3> QED BY <1>7, <3>1, <3>2
  <2>2. ASSUME NEW k \in DOMAIN cg_stack'
        PROVE  /\ cg_color'[cg_stack'[k].obj] = "black"
               /\ \/ /\ cg_stack'[k].op = "white" /\ cg_stack'[k].obj \in CgGarbage \ cg_dead'
                     /\ (k = 1 => cg_stack'[k].obj \in cg_buffered') /\ CgDescent(cg_stack', k)
                  \/ cg_stack'[k].op = "release" /\ cg_stack'[k].obj \in cg_dead' \ Range(cg_freed')
    <3>1. goes BY <1>4, <1>7, <2>2
    <3>2. Len(cg_stack) = 0 BY <1>1
    <3>3. k = 1 /\ cg_stack'[k].op = "white" /\ cg_stack'[k].obj = s
      <4> DEFINE up == Append(cg_stack, CgFrame("white", s))
      <4>1. k \in DOMAIN up BY <1>7, <2>2, <3>1
      <4>2. k \in DOMAIN cg_stack \/ (k = Len(cg_stack) + 1 /\ up[k].op = "white" /\ up[k].obj = s)
        <5>1. s \in CgObjs /\ cg_stack \in Seq(CgFrames) BY <1>2, <1>4
        <5> QED BY <4>1, <5>1, CgCallFrames
      <4> QED BY <1>4, <1>7, <3>1, <3>2, <4>2
    <3>4. CgDescent(cg_stack', k) BY <3>3 DEF CgDescent
    <3> QED BY <1>1, <1>7, <1>8, <1>11, <3>1, <3>3, <3>4
  <2>3. \A o \in cg_dead' : cg_color'[o] = "black" /\ (CgFramed(cg_stack', "release", o) \/ o \in Range(cg_freed'))
    BY <1>1, <1>9, <1>12, <1>15
  <2>4. Range(cg_freed') \subseteq cg_dead' /\ IsInjective(cg_freed') BY <1>1 DEF CgFrameInv
  <2> QED BY <1>1, <2>1, <2>2, <2>3, <2>4, CgFramePrimed
<1>18. CgKeptInv'
  <2>1. \A r \in CgAllRefs : CgPending(cg_stack', "release", r) <=> CgPending(cg_stack, "release", r) BY <1>5, <1>13
  <2>2. CgReleased(cg_dead', cg_stack') = CgReleased(cg_dead, cg_stack) BY <1>1, <2>1, CgReleasedSame
  <2> QED BY <1>1, <2>2, CgKeptPrimed DEF CgKeptInv
<1> QED BY <1>16, <1>17, <1>18

(* A visit of the collection goes down into a white object. *)
LEMMA CgWhiteInv ==
  ASSUME CgTypeOK, CgColorInv, CgFrameInv, CgKeptInv, CgWhite
  PROVE  (CgColorInv /\ CgFrameInv /\ CgKeptInv)'
<1> DEFINE c == CgField
           r0 == <<CgTop.obj, CgTop.at>>
           goes == CollectsWhite(c)
<1>1. /\ UNCHANGED cgHeap /\ UNCHANGED cg_suspects /\ cg_buffered' = cg_buffered /\ cg_dead' = cg_dead
      /\ cg_freed' = cg_freed /\ cg_abort' = cg_abort /\ cg_strong' = cg_strong /\ cg_at' = cg_at
      /\ cg_stack # <<>> /\ CgTop.op = "white" /\ CgTop.at <= Len(cg_fields[CgTop.obj])
      /\ CgEnters(goes, CgPassed, "white", c, "black")
  BY DEF CgWhite, CgVisits, CgWorks
<1>2. r0 \in CgAllRefs /\ r0[1] = CgTop.obj /\ r0 \in CgRefs(c) /\ c \in CgObjs /\ CgTarget(r0) = c /\ CgTop.at \in Nat
  BY <1>1, CgFieldFacts
<1>3. CgBefore(cg_at)' = CgBefore(cg_at) BY <1>1 DEF CgBefore
<1>4. CgPassed \in Seq(CgFrames) /\ CgOneFrame(CgPassed)
  <2>1. CgOneFrame(cg_stack) BY DEF CgFrameInv
  <2> QED BY <1>1, <2>1, CgTopFacts, CgOneFrameFacts
<1>5. goes \in BOOLEAN /\ (goes => cg_color[c] = "white" /\ c \notin cg_dead) BY DEF CollectsWhite
<1>6. \A o \in cg_dead : cg_color[o] = "black" BY DEF CgFrameInv
<1>7. ~goes => cg_color[c] # "white" BY <1>6 DEF CollectsWhite
<1>8. goes => c \in CgGarbage BY <1>2, <1>5 DEF CgColorInv
<1>9. CgGarbage \subseteq CgObjs /\ cg_dead \subseteq CgObjs BY CgGarbageFacts DEF CgTypeOK
<1> HIDE DEF goes, c
<1>10. /\ goes => /\ cg_stack' = Append(CgPassed, CgFrame("white", c)) /\ cg_color'[c] = "black"
                  /\ \A p \in CgObjs : p # c => cg_color'[p] = cg_color[p]
       /\ ~goes => cg_stack' = CgPassed /\ cg_color' = cg_color
  BY <1>1, <1>2, <1>4, <1>5, CgEntersFacts
<1>11. \A p \in CgObjs : cg_color'[p] = IF goes /\ p = c THEN "black" ELSE cg_color[p] BY <1>2, <1>10
<1>12. \A r \in CgAllRefs : \A op :
         CgPending(cg_stack', op, r) <=> CgPending(CgPassed, op, r) \/ (goes /\ op = "white" /\ r[1] = c)
  <2> TAKE r \in CgAllRefs
  <2> TAKE op
  <2>1. CgPending(Append(CgPassed, CgFrame("white", c)), op, r) <=> CgPending(CgPassed, op, r) \/ (op = "white" /\ r[1] = c)
    BY <1>2, <1>4, CgCallPending
  <2> QED BY <1>10, <2>1
<1>13. \A op, o : CgFramed(cg_stack', op, o) <=> CgFramed(cg_stack, op, o) \/ (goes /\ op = "white" /\ o = c)
  <2> TAKE op, o
  <2>1. CgFramed(Append(CgPassed, CgFrame("white", c)), op, o) <=> CgFramed(CgPassed, op, o) \/ (op = "white" /\ o = c)
    BY <1>2, <1>4, CgCallFramed
  <2>2. CgFramed(CgPassed, op, o) <=> CgFramed(cg_stack, op, o) BY <1>1, CgFramedFacts
  <2> QED BY <1>10, <2>1, <2>2
<1>14. CgColorInv'
  <2>1. \A o \in CgObjs \ CgGarbage : cg_color'[o] = "black" BY <1>11 DEF CgColorInv
  <2>2. \A o \in CgGarbage : cg_color'[o] \in {"white", "black"} /\ cg_strong'[o] = 0
    BY <1>1, <1>9, <1>11 DEF CgColorInv
  <2>3. ASSUME NEW r \in CgAllRefs, r[1] \in CgGarbage, cg_color'[r[1]] = "black"
        PROVE  CgPending(cg_stack', "white", r) \/ cg_color'[CgTarget(r)] # "white"
    <3>1. CgTarget(r) \in CgObjs BY CgRefFacts
    <3>2. CASE goes /\ r[1] = c BY <1>12, <3>2
    <3>3. CASE ~(goes /\ r[1] = c)
      <4>1. cg_color[r[1]] = "black" BY <1>9, <1>11, <2>3, <3>3
      <4>2. CgPending(cg_stack, "white", r) \/ cg_color[CgTarget(r)] # "white" BY <2>3, <4>1 DEF CgColorInv
      <4>3. CASE cg_color[CgTarget(r)] # "white" BY <1>11, <3>1, <4>3
      <4>4. CASE r = r0
        <5>1. CgTarget(r) = c BY <1>2, <4>4
        <5> QED BY <1>2, <1>7, <1>11, <5>1
      <4>5. CASE CgPending(cg_stack, "white", r) /\ r # r0
        <5>1. CgPending(CgPassed, "white", r) BY <1>1, <4>5, CgPassedPending
        <5> QED BY <1>12, <5>1
      <4> QED BY <4>2, <4>3, <4>4, <4>5
    <3> QED BY <3>2, <3>3
  <2>4. \A o \in CgGarbage : cg_color'[o] = "black" => CgFramed(cg_stack', "white", o) \/ o \in cg_dead'
    BY <1>1, <1>9, <1>11, <1>13 DEF CgColorInv
  <2>5. cg_traced \subseteq CgReach(cg_buffered' \cup cg_dead' \cup (CgHeld \cap cg_traced)) BY <1>1 DEF CgColorInv
  <2>6. CgBefore(cg_at)' \cap cg_buffered' \cap CgColored(cg_color', "white") = {}
    <3>1. CgBefore(cg_at) \cap cg_buffered \cap CgColored(cg_color, "white") = {} BY DEF CgColorInv
    <3>2. CgColored(cg_color', "white") \subseteq CgColored(cg_color, "white") BY <1>11 DEF CgColored
    <3> QED BY <1>1, <1>3, <3>1, <3>2
  <2> QED BY <1>1, <2>1, <2>2, <2>3, <2>4, <2>5, <2>6, CgColorPrimed
<1>15. \A k \in DOMAIN CgPassed :
         /\ cg_color[CgPassed[k].obj] = "black" /\ CgPassed[k].obj \in CgObjs
         /\ \/ /\ CgPassed[k].op = "white" /\ CgPassed[k].obj \in CgGarbage \ cg_dead
               /\ (k = 1 => CgPassed[k].obj \in cg_buffered) /\ CgDescent(CgPassed, k)
            \/ CgPassed[k].op = "release" /\ CgPassed[k].obj \in cg_dead \ Range(cg_freed)
  <2> TAKE k \in DOMAIN CgPassed
  <2>1. /\ k \in DOMAIN cg_stack /\ CgPassed[k].op = cg_stack[k].op /\ CgPassed[k].obj = cg_stack[k].obj
        /\ CgDescent(CgPassed, k) <=> CgDescent(cg_stack, k)
    BY <1>1, CgPassedFrames
  <2> QED BY <2>1, CgFrameKinds
<1>16. CgFrameInv'
  <2>1. CgOneFrame(cg_stack')
    <3>1. goes => \A k \in DOMAIN CgPassed : CgPassed[k].obj # c BY <1>5, <1>15
    <3>2. goes => CgOneFrame(Append(CgPassed, CgFrame("white", c))) BY <1>2, <1>4, <3>1, CgCallOneFrame
    <3> QED BY <1>4, <1>10, <3>2
  <2>2. ASSUME NEW k \in DOMAIN cg_stack'
        PROVE  /\ cg_color'[cg_stack'[k].obj] = "black"
               /\ \/ /\ cg_stack'[k].op = "white" /\ cg_stack'[k].obj \in CgGarbage \ cg_dead'
                     /\ (k = 1 => cg_stack'[k].obj \in cg_buffered') /\ CgDescent(cg_stack', k)
                  \/ cg_stack'[k].op = "release" /\ cg_stack'[k].obj \in cg_dead' \ Range(cg_freed')
    <3>1. CASE k \in DOMAIN CgPassed /\ cg_stack'[k] = CgPassed[k] /\ (CgDescent(cg_stack', k) <=> CgDescent(CgPassed, k))
      BY <1>1, <1>11, <1>15, <3>1
    <3>2. CASE ~goes BY <1>1, <1>10, <1>15, <2>2, <3>2
    <3>3. CASE goes
      <4> DEFINE up == Append(CgPassed, CgFrame("white", c))
      <4>1. up = cg_stack' BY <1>10, <3>3
      <4>2. k \in DOMAIN up BY <2>2, <4>1
      <4>3. \/ k \in DOMAIN CgPassed /\ up[k] = CgPassed[k] /\ (CgDescent(up, k) <=> CgDescent(CgPassed, k))
            \/ k = Len(CgPassed) + 1 /\ up[k].op = "white" /\ up[k].obj = c /\ (k > 1 => up[k - 1] = CgPassed[Len(CgPassed)])
        BY <1>2, <1>4, <4>2, CgCallFrames
      <4>4. CASE k = Len(CgPassed) + 1 /\ up[k].op = "white" /\ up[k].obj = c /\ (k > 1 => up[k - 1] = CgPassed[Len(CgPassed)])
        <5>1. Len(CgPassed) = Len(cg_stack) /\ Len(cg_stack) \in Nat \ {0} BY <1>1, CgTopFacts
        <5>2. k > 1 /\ k # 1 BY <4>4, <5>1
        <5> DEFINE top == CgPassed[Len(CgPassed)]
        <5>3. top.op = "white" /\ top.obj = CgTop.obj /\ top.at = CgTop.at + 1 BY <1>1, <5>1, CgTopFacts
        <5>4. top.at - 1 = CgTop.at BY <1>2, <5>3
        <5>5. <<top.obj, top.at - 1>> \in CgRefs(c) BY <1>2, <5>3, <5>4
        <5> HIDE DEF top, up
        <5>6. up[k - 1] = top BY <4>4, <5>2 DEF top
        <5>7. CgDescent(up, k) BY <4>4, <5>3, <5>5, <5>6 DEF CgDescent
        <5> QED BY <1>1, <1>5, <1>8, <1>10, <3>3, <4>1, <4>4, <5>2, <5>7
      <4> QED BY <3>1, <4>1, <4>3, <4>4
    <3> QED BY <3>2, <3>3
  <2>3. \A o \in cg_dead' : cg_color'[o] = "black" /\ (CgFramed(cg_stack', "release", o) \/ o \in Range(cg_freed'))
    BY <1>1, <1>9, <1>11, <1>13 DEF CgFrameInv
  <2>4. Range(cg_freed') \subseteq cg_dead' /\ IsInjective(cg_freed') BY <1>1 DEF CgFrameInv
  <2> QED BY <1>1, <2>1, <2>2, <2>3, <2>4, CgFramePrimed
<1>17. CgKeptInv'
  <2>1. ASSUME NEW r \in CgAllRefs PROVE CgPending(cg_stack', "release", r) <=> CgPending(cg_stack, "release", r)
    <3>1. CgPending(CgPassed, "release", r) <=> CgPending(cg_stack, "release", r) BY <1>1, CgPassedPending
    <3> QED BY <1>12, <3>1
  <2>2. CgReleased(cg_dead', cg_stack') = CgReleased(cg_dead, cg_stack) BY <1>1, <2>1, CgReleasedSame
  <2> QED BY <1>1, <2>2, CgKeptPrimed DEF CgKeptInv
<1> QED BY <1>14, <1>16, <1>17

(* After its fields a white object has no reference left, and its destructor
   starts. *)
LEMMA CgFinalizeInv ==
  ASSUME CgTypeOK, CgColorInv, CgFrameInv, CgKeptInv, CgFinalize
  PROVE  (CgColorInv /\ CgFrameInv /\ CgKeptInv)'
<1> DEFINE o == CgTop.obj
<1>1. /\ UNCHANGED cgHeap /\ UNCHANGED cg_suspects /\ cg_buffered' = cg_buffered /\ cg_color' = cg_color
      /\ cg_freed' = cg_freed /\ cg_abort' = cg_abort /\ cg_strong' = cg_strong /\ cg_at' = cg_at
      /\ cg_stack # <<>> /\ CgTop.op = "white" /\ CgTop.at > Len(cg_fields[CgTop.obj])
  BY DEF CgFinalize, CgReturns, CgWorks
<1>2. o \in CgObjs /\ cg_color[o] = "black" /\ o \in CgGarbage \ cg_dead BY <1>1, CgTopKind
<1>3. cg_strong[o] = 0 BY <1>2 DEF CgColorInv
<1>4. cg_dead' = cg_dead \cup {o} /\ cg_stack' = Append(CgBelow, CgFrame("release", o))
  BY <1>2, <1>3 DEF CgFinalize
<1>5. CgBefore(cg_at)' = CgBefore(cg_at) BY <1>1 DEF CgBefore
<1>6. CgBelow \in Seq(CgFrames) /\ CgOneFrame(CgBelow)
  <2>1. CgOneFrame(cg_stack) BY DEF CgFrameInv
  <2> QED BY <1>1, <2>1, CgTopFacts, CgOneFrameFacts
<1>7. ASSUME NEW k \in DOMAIN CgBelow
      PROVE  /\ k \in DOMAIN cg_stack /\ CgBelow[k] = cg_stack[k] /\ CgBelow[k].obj # CgTop.obj
             /\ CgDescent(CgBelow, k) <=> CgDescent(cg_stack, k)
  BY <1>1, <1>7, CgBelowFrames
<1> HIDE DEF o
<1>8. \A r \in CgAllRefs : \A op :
        CgPending(cg_stack', op, r) <=> CgPending(cg_stack, op, r) \/ (op = "release" /\ r[1] = o)
  <2> TAKE r \in CgAllRefs
  <2> TAKE op
  <2>1. CgPending(Append(CgBelow, CgFrame("release", o)), op, r) <=> CgPending(CgBelow, op, r) \/ (op = "release" /\ r[1] = o)
    BY <1>2, <1>6, CgCallPending
  <2>2. CgPending(CgBelow, op, r) <=> CgPending(cg_stack, op, r) BY <1>1, CgReturnPending
  <2> QED BY <1>4, <2>1, <2>2
<1>9. \A op, p : /\ CgFramed(cg_stack, op, p) => CgFramed(cg_stack', op, p) \/ (op = "white" /\ p = o)
                 /\ op = "release" /\ p = o => CgFramed(cg_stack', op, p)
  <2> TAKE op, p
  <2>1. CgFramed(Append(CgBelow, CgFrame("release", o)), op, p) <=> CgFramed(CgBelow, op, p) \/ (op = "release" /\ p = o)
    BY <1>2, <1>6, CgCallFramed
  <2>2. CgFramed(cg_stack, op, p) => CgFramed(CgBelow, op, p) \/ (op = "white" /\ p = o) BY <1>1, CgFramedFacts DEF o
  <2> QED BY <1>4, <2>1, <2>2
<1>10. CgColorInv'
  <2>1. \A p \in CgObjs \ CgGarbage : cg_color'[p] = "black" BY <1>1 DEF CgColorInv
  <2>2. \A p \in CgGarbage : cg_color'[p] \in {"white", "black"} /\ cg_strong'[p] = 0 BY <1>1 DEF CgColorInv
  <2>3. \A r \in CgAllRefs : r[1] \in CgGarbage /\ cg_color'[r[1]] = "black" =>
          CgPending(cg_stack', "white", r) \/ cg_color'[CgTarget(r)] # "white"
    BY <1>1, <1>8 DEF CgColorInv
  <2>4. \A p \in CgGarbage : cg_color'[p] = "black" => CgFramed(cg_stack', "white", p) \/ p \in cg_dead'
    BY <1>1, <1>4, <1>9 DEF CgColorInv
  <2>5. cg_traced \subseteq CgReach(cg_buffered' \cup cg_dead' \cup (CgHeld \cap cg_traced))
    <3> DEFINE S == cg_buffered \cup cg_dead \cup (CgHeld \cap cg_traced)
               T == cg_buffered' \cup cg_dead' \cup (CgHeld \cap cg_traced)
    <3>1. S \subseteq T BY <1>1, <1>4
    <3>2. cg_traced \subseteq CgReach(S) BY DEF CgColorInv
    <3> HIDE DEF S, T
    <3>3. CgReach(S) \subseteq CgReach(T) BY <3>1 DEF CgReach
    <3>4. cg_traced \subseteq CgReach(T) BY <3>2, <3>3
    <3> QED BY <3>4 DEF T
  <2>6. CgBefore(cg_at)' \cap cg_buffered' \cap CgColored(cg_color', "white") = {} BY <1>1, <1>5 DEF CgColorInv
  <2> QED BY <1>1, <2>1, <2>2, <2>3, <2>4, <2>5, <2>6, CgColorPrimed
<1>11. o \notin Range(cg_freed) BY <1>2 DEF CgFrameInv
<1>12. CgFrameInv'
  <2>1. CgOneFrame(cg_stack')
    <3>1. \A k \in DOMAIN CgBelow : CgBelow[k].obj # o BY <1>7 DEF o
    <3> QED BY <1>2, <1>4, <1>6, <3>1, CgCallOneFrame
  <2>2. ASSUME NEW k \in DOMAIN cg_stack'
        PROVE  /\ cg_color'[cg_stack'[k].obj] = "black"
               /\ \/ /\ cg_stack'[k].op = "white" /\ cg_stack'[k].obj \in CgGarbage \ cg_dead'
                     /\ (k = 1 => cg_stack'[k].obj \in cg_buffered') /\ CgDescent(cg_stack', k)
                  \/ cg_stack'[k].op = "release" /\ cg_stack'[k].obj \in cg_dead' \ Range(cg_freed')
    <3> DEFINE up == Append(CgBelow, CgFrame("release", o))
    <3>1. k \in DOMAIN up BY <1>4, <2>2
    <3>2. \/ k \in DOMAIN CgBelow /\ up[k] = CgBelow[k] /\ (CgDescent(up, k) <=> CgDescent(CgBelow, k))
          \/ up[k].op = "release" /\ up[k].obj = o
      BY <1>2, <1>6, <3>1, CgCallFrames
    <3>3. CASE k \in DOMAIN CgBelow /\ up[k] = CgBelow[k] /\ (CgDescent(up, k) <=> CgDescent(CgBelow, k))
      <4>1. /\ k \in DOMAIN cg_stack /\ up[k] = cg_stack[k] /\ (CgDescent(up, k) <=> CgDescent(cg_stack, k))
            /\ cg_stack[k].obj # o
        <5> HIDE DEF up
        <5> QED BY <1>7, <3>3 DEF o
      <4>2. /\ cg_color[cg_stack[k].obj] = "black"
            /\ \/ /\ cg_stack[k].op = "white" /\ cg_stack[k].obj \in CgGarbage \ cg_dead
                  /\ (k = 1 => cg_stack[k].obj \in cg_buffered) /\ CgDescent(cg_stack, k)
               \/ cg_stack[k].op = "release" /\ cg_stack[k].obj \in cg_dead \ Range(cg_freed)
        BY <4>1, CgFrameKinds
      <4>3. cg_stack' = up BY <1>4
      <4> HIDE DEF up
      <4> QED BY <1>1, <1>4, <4>1, <4>2, <4>3
    <3>4. CASE up[k].op = "release" /\ up[k].obj = o BY <1>1, <1>2, <1>4, <1>11, <3>4
    <3> QED BY <3>2, <3>3, <3>4
  <2>3. \A p \in cg_dead' : cg_color'[p] = "black" /\ (CgFramed(cg_stack', "release", p) \/ p \in Range(cg_freed'))
    BY <1>1, <1>2, <1>4, <1>9 DEF CgFrameInv
  <2>4. Range(cg_freed') \subseteq cg_dead' /\ IsInjective(cg_freed') BY <1>1, <1>4 DEF CgFrameInv
  <2> QED BY <1>1, <2>1, <2>2, <2>3, <2>4, CgFramePrimed
<1>13. CgKeptInv'
  <2>1. CgReleased(cg_dead', cg_stack') = CgReleased(cg_dead, cg_stack) BY <1>2, <1>4, <1>8 DEF CgReleased
  <2> QED BY <1>1, <1>2, <1>4, <2>1, CgKeptPrimed DEF CgKeptInv
<1> QED BY <1>10, <1>12, <1>13

(* The rest of arc_finalize_zero_strong. *)
LEMMA CgFinalizedInv ==
  ASSUME CgTypeOK, CgColorInv, CgFrameInv, CgKeptInv, CgFinalized
  PROVE  (CgColorInv /\ CgFrameInv /\ CgKeptInv)'
<1> DEFINE o == CgTop.obj
<1>1. /\ UNCHANGED cgHeap /\ UNCHANGED cg_suspects /\ cg_buffered' = cg_buffered \ {o} /\ cg_dead' = cg_dead
      /\ cg_freed' = Append(cg_freed, o) /\ cg_abort' = cg_abort /\ cg_strong' = cg_strong /\ cg_at' = cg_at
      /\ cg_stack # <<>> /\ CgTop.op = "release" /\ CgTop.at > Len(cg_fields[CgTop.obj])
      /\ cg_stack' = CgBelow /\ cg_color' = [cg_color EXCEPT ![o] = "black"]
  BY DEF CgFinalized, CgReturns, CgWorks
<1>2. o \in CgObjs /\ cg_color[o] = "black" /\ o \in cg_dead \ Range(cg_freed) BY <1>1, CgTopKind
<1>3. cg_color' = cg_color
  <2>1. cg_color \in [CgObjs -> {"black", "purple", "gray", "white"}] BY DEF CgTypeOK
  <2> QED BY <1>1, <1>2, <2>1
<1>4. CgBefore(cg_at)' = CgBefore(cg_at) BY <1>1 DEF CgBefore
<1>5. CgOneFrame(CgBelow)
  <2>1. CgOneFrame(cg_stack) BY DEF CgFrameInv
  <2> QED BY <1>1, <2>1, CgOneFrameFacts
<1>6. ASSUME NEW k \in DOMAIN CgBelow
      PROVE  /\ k \in DOMAIN cg_stack /\ CgBelow[k] = cg_stack[k] /\ CgBelow[k].obj # CgTop.obj
             /\ CgDescent(CgBelow, k) <=> CgDescent(cg_stack, k)
  BY <1>1, <1>6, CgBelowFrames
<1>7. \A r \in CgAllRefs : \A op : CgPending(cg_stack', op, r) <=> CgPending(cg_stack, op, r)
  BY <1>1, CgReturnPending
<1>8. \A op, p : CgFramed(cg_stack, op, p) => CgFramed(cg_stack', op, p) \/ (op = "release" /\ p = o)
  BY <1>1, CgFramedFacts
<1>9. Range(cg_freed') = Range(cg_freed) \cup {o} /\ IsInjective(cg_freed')
  <2>1. cg_freed \in Seq(CgObjs) /\ IsInjective(cg_freed) BY DEF CgTypeOK, CgFrameInv
  <2> DEFINE n == Len(cg_freed)
             more == Append(cg_freed, o)
  <2> HIDE DEF o
  <2>2. /\ n \in Nat /\ DOMAIN cg_freed = 1 .. n /\ DOMAIN more = 1 .. n + 1
        /\ (\A k \in 1 .. n : more[k] = cg_freed[k]) /\ more[n + 1] = o
    BY <1>2, <2>1
  <2> HIDE DEF n, more
  <2>3. \A k \in 1 .. n + 1 : k \in 1 .. n \/ k = n + 1 BY <2>2
  <2>4. n + 1 \in 1 .. n + 1 /\ \A k \in 1 .. n : k \in 1 .. n + 1 BY <2>2
  <2>5. Range(more) = Range(cg_freed) \cup {o} BY <2>2, <2>3, <2>4 DEF Range
  <2>6. \A k \in 1 .. n : cg_freed[k] # o BY <1>2, <2>2 DEF Range
  <2>7. \A j, k \in 1 .. n : cg_freed[j] = cg_freed[k] => j = k BY <2>1, <2>2 DEF IsInjective
  <2>8. \A j, k \in 1 .. n + 1 : more[j] = more[k] => j = k BY <2>2, <2>3, <2>6, <2>7
  <2>9. IsInjective(more) BY <2>2, <2>8 DEF IsInjective
  <2> QED BY <1>1, <2>5, <2>9 DEF more
<1> HIDE DEF o
<1>10. CgColorInv'
  <2>1. \A p \in CgObjs \ CgGarbage : cg_color'[p] = "black" BY <1>3 DEF CgColorInv
  <2>2. \A p \in CgGarbage : cg_color'[p] \in {"white", "black"} /\ cg_strong'[p] = 0 BY <1>1, <1>3 DEF CgColorInv
  <2>3. \A r \in CgAllRefs : r[1] \in CgGarbage /\ cg_color'[r[1]] = "black" =>
          CgPending(cg_stack', "white", r) \/ cg_color'[CgTarget(r)] # "white"
    BY <1>3, <1>7 DEF CgColorInv
  <2>4. \A p \in CgGarbage : cg_color'[p] = "black" => CgFramed(cg_stack', "white", p) \/ p \in cg_dead'
    BY <1>1, <1>3, <1>8 DEF CgColorInv
  <2>5. cg_traced \subseteq CgReach(cg_buffered' \cup cg_dead' \cup (CgHeld \cap cg_traced))
    <3>1. cg_buffered' \cup cg_dead' \cup (CgHeld \cap cg_traced) = cg_buffered \cup cg_dead \cup (CgHeld \cap cg_traced)
      BY <1>1, <1>2
    <3> QED BY <3>1 DEF CgColorInv
  <2>6. CgBefore(cg_at)' \cap cg_buffered' \cap CgColored(cg_color', "white") = {} BY <1>1, <1>3, <1>4 DEF CgColorInv
  <2> QED BY <1>1, <2>1, <2>2, <2>3, <2>4, <2>5, <2>6, CgColorPrimed
<1>11. CgFrameInv'
  <2>1. CgOneFrame(cg_stack') BY <1>1, <1>5
  <2>2. ASSUME NEW k \in DOMAIN cg_stack'
        PROVE  /\ cg_color'[cg_stack'[k].obj] = "black"
               /\ \/ /\ cg_stack'[k].op = "white" /\ cg_stack'[k].obj \in CgGarbage \ cg_dead'
                     /\ (k = 1 => cg_stack'[k].obj \in cg_buffered') /\ CgDescent(cg_stack', k)
                  \/ cg_stack'[k].op = "release" /\ cg_stack'[k].obj \in cg_dead' \ Range(cg_freed')
    <3>1. /\ k \in DOMAIN cg_stack /\ cg_stack'[k] = cg_stack[k] /\ cg_stack[k].obj # o
          /\ CgDescent(cg_stack', k) <=> CgDescent(cg_stack, k)
      BY <1>1, <1>6, <2>2 DEF o
    <3>2. /\ cg_color[cg_stack[k].obj] = "black"
          /\ \/ /\ cg_stack[k].op = "white" /\ cg_stack[k].obj \in CgGarbage \ cg_dead
                /\ (k = 1 => cg_stack[k].obj \in cg_buffered) /\ CgDescent(cg_stack, k)
             \/ cg_stack[k].op = "release" /\ cg_stack[k].obj \in cg_dead \ Range(cg_freed)
      BY <3>1, CgFrameKinds
    <3> QED BY <1>1, <1>3, <1>9, <3>1, <3>2
  <2>3. \A p \in cg_dead' : cg_color'[p] = "black" /\ (CgFramed(cg_stack', "release", p) \/ p \in Range(cg_freed'))
    BY <1>1, <1>3, <1>8, <1>9 DEF CgFrameInv
  <2>4. Range(cg_freed') \subseteq cg_dead' BY <1>1, <1>2, <1>9 DEF CgFrameInv
  <2> QED BY <1>1, <1>9, <2>1, <2>2, <2>3, <2>4, CgFramePrimed
<1>12. CgKeptInv'
  <2>1. CgReleased(cg_dead', cg_stack') = CgReleased(cg_dead, cg_stack) BY <1>1, <1>7, CgReleasedSame
  <2> QED BY <1>1, <2>1, CgKeptPrimed DEF CgKeptInv
<1> QED BY <1>10, <1>11, <1>12

(* The collection leaves no garbage white. *)
LEMMA CgCollected ==
  ASSUME CgTypeOK, CgColorInv, CgFrameInv, CgKeptInv, CgNextPhase, cg_pc = "collect"
  PROVE  /\ (CgColorInv /\ CgFrameInv /\ CgKeptInv)'
         /\ cg_stack' = <<>> /\ \A o \in CgGarbage : cg_color'[o] = "black"
<1>1. /\ UNCHANGED cgHeap /\ cg_suspects' = <<>> /\ cg_buffered' = cg_buffered /\ cg_dead' = cg_dead
      /\ cg_freed' = cg_freed /\ cg_abort' = cg_abort /\ cg_at' = 1 /\ cg_strong' = cg_strong /\ cg_color' = cg_color
      /\ cg_stack = <<>> /\ cg_stack' = cg_stack /\ cg_at > Len(cg_suspects)
  BY DEF CgNextPhase
<1>2. CgBefore(cg_at) = Range(cg_suspects) /\ Range(cg_suspects) \subseteq cg_traced BY <1>1, CgAllBefore
<1>3. cg_buffered \subseteq Range(cg_suspects) /\ cg_dead \subseteq CgObjs BY DEF CgTypeOK
<1>4. \A r \in CgAllRefs : ~CgPending(cg_stack, "white", r) BY <1>1 DEF CgPending
<1>5. \A o \in CgGarbage : cg_color[o] = "black"
  <2> DEFINE N == {o \in CgObjs : cg_color[o] # "white"}
             S == cg_buffered \cup cg_dead \cup (CgHeld \cap cg_traced)
  <2>1. \A o \in CgObjs \ CgGarbage : cg_color[o] = "black" BY DEF CgColorInv
  <2>2. \A o \in CgHeld : o \in CgObjs \ CgGarbage BY CgHeldFacts DEF CgGarbage
  <2>3. N \in CgClosed
    <3>1. ASSUME NEW r \in CgAllRefs, r[1] \in N PROVE CgTarget(r) \in N
      <4>1. CgTarget(r) \in CgObjs BY CgRefFacts
      <4>2. CASE r[1] \in CgGarbage
        <5>1. cg_color[r[1]] = "black" BY <3>1, <4>2 DEF CgColorInv
        <5>2. cg_color[CgTarget(r)] # "white" BY <1>4, <4>2, <5>1 DEF CgColorInv
        <5> QED BY <4>1, <5>2
      <4>3. CASE r[1] \notin CgGarbage
        <5>1. r[1] \in CgHeld BY <3>1, <4>3, CgHeldFacts DEF CgGarbage
        <5>2. CgTarget(r) \in CgHeld BY <5>1, CgHeldFacts
        <5> QED BY <2>1, <2>2, <5>2
      <4> QED BY <4>2, <4>3
    <3> QED BY <3>1 DEF CgClosed
  <2>4. S \subseteq N
    <3>1. CgBefore(cg_at) \cap cg_buffered \cap CgColored(cg_color, "white") = {} BY DEF CgColorInv
    <3>2. \A o \in cg_buffered : o \in CgObjs /\ o \notin CgColored(cg_color, "white") BY <1>2, <1>3, <3>1, CgTracedClosed
    <3>3. \A o \in cg_dead : cg_color[o] = "black" BY DEF CgFrameInv
    <3> QED BY <1>3, <2>1, <2>2, <3>2, <3>3 DEF CgColored
  <2>5. cg_traced \subseteq CgReach(S) BY DEF CgColorInv
  <2> HIDE DEF N, S
  <2>6. cg_traced \subseteq N BY <2>3, <2>4, <2>5, CgReachFacts
  <2>7. \A o \in CgGarbage : o \in N BY <2>6, CgGarbageFacts
  <2>8. \A o \in CgGarbage : cg_color[o] # "white" BY <2>7 DEF N
  <2> QED BY <2>8 DEF CgColorInv
<1>6. CgColorInv'
  <2>1. CgBefore(cg_at)' = {} BY <1>1 DEF CgBefore
  <2>2. /\ \A o \in CgObjs \ CgGarbage : cg_color'[o] = "black"
        /\ \A o \in CgGarbage : cg_color'[o] \in {"white", "black"} /\ cg_strong'[o] = 0
    BY <1>1 DEF CgColorInv
  <2>3. \A r \in CgAllRefs : r[1] \in CgGarbage /\ cg_color'[r[1]] = "black" =>
          CgPending(cg_stack', "white", r) \/ cg_color'[CgTarget(r)] # "white"
    BY <1>1 DEF CgColorInv
  <2>4. \A o \in CgGarbage : cg_color'[o] = "black" => CgFramed(cg_stack', "white", o) \/ o \in cg_dead'
    BY <1>1 DEF CgColorInv
  <2>5. cg_traced \subseteq CgReach(cg_buffered' \cup cg_dead' \cup (CgHeld \cap cg_traced)) BY <1>1 DEF CgColorInv
  <2> QED BY <1>1, <2>1, <2>2, <2>3, <2>4, <2>5, CgColorPrimed
<1>7. CgFrameInv'
  <2>1. DOMAIN cg_stack' = {} BY <1>1
  <2>2. CgOneFrame(cg_stack') BY <2>1 DEF CgOneFrame
  <2>3. \A o \in cg_dead' : cg_color'[o] = "black" /\ (CgFramed(cg_stack', "release", o) \/ o \in Range(cg_freed'))
    BY <1>1 DEF CgFrameInv
  <2>4. Range(cg_freed') \subseteq cg_dead' /\ IsInjective(cg_freed') BY <1>1 DEF CgFrameInv
  <2> QED BY <1>1, <2>1, <2>2, <2>3, <2>4, CgFramePrimed
<1>8. CgKeptInv' BY <1>1, CgKeptPrimed DEF CgKeptInv
<1> QED BY <1>1, <1>5, <1>6, <1>7, <1>8

(* Where an object has one traced reference at most. *)
LEMMA CgOneTraced ==
  ASSUME CgTypeOK, NEW o \in CgObjs, Cardinality(TracedRefs(o)) <= 1, NEW r \in TracedRefs(o), NEW q \in TracedRefs(o)
  PROVE  r = q
<1> SUFFICES ASSUME r # q PROVE FALSE OBVIOUS
<1>1. TracedRefs(o) \in SUBSET CgAllRefs BY CgBaseFacts
<1>2. {r} \in SUBSET CgAllRefs /\ q \in CgAllRefs /\ q \notin {r} /\ {r} \cup {q} \subseteq TracedRefs(o) BY <1>1
<1>3. Cardinality({r} \cup {q}) = Cardinality({r}) + 1 BY <1>2, CgOneMoreRef
<1>4. Cardinality({r}) = 1 BY FS_Singleton
<1>5. Cardinality({r} \cup {q}) <= Cardinality(TracedRefs(o)) /\ Cardinality(TracedRefs(o)) \in Nat
  BY <1>1, <1>2, CgRefsCount, FS_Subset
<1> QED BY <1>3, <1>4, <1>5

(* A field of a garbage object, where no two traced references meet, is held
   and keeps a reference, or is garbage and known as finalized. *)
LEMMA CgReleaseKept ==
  ASSUME CgTypeOK, CgColorInv, CgFrameInv, CgKeptInv, CgRelease, \A o \in cg_traced : Cardinality(TracedRefs(o)) <= 1
  PROVE  /\ ~cg_abort' /\ cg_dead' \subseteq CgGarbage
         /\ \A o \in CgObjs \ CgGarbage :
              cg_strong'[o] = CgStart(o) - Cardinality(CgRefs(o) \cap CgReleased(cg_dead', cg_stack'))
<1> DEFINE c == CgField
           r0 == <<CgTop.obj, CgTop.at>>
           last == cg_strong[c] = 1 /\ c \notin cg_dead
<1>1. /\ cg_stack # <<>> /\ CgTop.op = "release" /\ CgTop.at <= Len(cg_fields[CgTop.obj])
      /\ cg_strong' = IF cg_strong[c] > 0 THEN [cg_strong EXCEPT ![c] = @ - 1] ELSE cg_strong
      /\ cg_abort' = (cg_strong[c] <= 0 /\ ~Finalized(c))
      /\ cg_dead' = IF last THEN cg_dead \cup {c} ELSE cg_dead
      /\ cg_stack' = IF last THEN Append(CgPassed, CgFrame("release", c)) ELSE CgPassed
  BY DEF CgRelease, CgVisits, CgWorks
<1>2. r0 \in CgAllRefs /\ r0[1] = CgTop.obj /\ r0 \in CgRefs(c) /\ c \in CgObjs /\ CgTarget(r0) = c
  BY <1>1, CgFieldFacts
<1>3. /\ ~cg_abort /\ cg_dead \subseteq CgGarbage
      /\ \A o \in CgObjs \ CgGarbage :
           cg_strong[o] = CgStart(o) - Cardinality(CgRefs(o) \cap CgReleased(cg_dead, cg_stack))
  BY DEF CgKeptInv
<1>4. r0[1] \in cg_dead /\ r0[1] \in CgGarbage
  <2>1. CgTop.obj \in cg_dead BY <1>1, CgTopKind
  <2> QED BY <1>2, <1>3, <2>1
<1>5. CgGarbage \subseteq cg_traced /\ CgGarbage \subseteq CgObjs BY CgGarbageFacts
<1>6. c \in cg_traced /\ r0 \in TracedRefs(c) BY <1>2, <1>4, <1>5, CgTracedClosed DEF TracedRefs
<1>7. Cardinality(TracedRefs(c)) <= 1 BY <1>6
<1>8. \A r \in TracedRefs(c) : r = r0 BY <1>2, <1>6, <1>7, CgOneTraced
<1> DEFINE Rel == CgReleased(cg_dead, cg_stack)
<1>9. CgReleased(cg_dead, CgPassed) = Rel \cup {r0} /\ r0 \notin Rel
  <2>1. CgOneFrame(cg_stack) BY DEF CgFrameInv
  <2>2. CgPending(cg_stack, "release", r0)
    <3> DEFINE n == Len(cg_stack)
    <3>1. n \in DOMAIN cg_stack /\ CgTop = cg_stack[n]
      <4>1. n \in Nat \ {0} BY <1>1, CgTopFacts
      <4>2. n \in 1 .. n BY <4>1
      <4> QED BY <1>1, <4>2, CgTopFacts
    <3>2. cg_stack[n].op = "release" /\ cg_stack[n].obj = r0[1] /\ cg_stack[n].at <= r0[2]
      BY <1>1, <3>1, CgFieldFacts
    <3> QED BY <3>1, <3>2, Zenon DEF CgPending
  <2>3. ASSUME NEW r \in CgAllRefs
        PROVE  ~CgPending(CgPassed, "release", r) <=> ~CgPending(cg_stack, "release", r) \/ r = r0
    <3>1. r = r0 => ~CgPending(CgPassed, "release", r) BY <1>1, <2>1, CgPassedPending
    <3>2. CgPending(CgPassed, "release", r) => CgPending(cg_stack, "release", r) BY <1>1, CgPassedPending
    <3>3. CgPending(cg_stack, "release", r) => CgPending(CgPassed, "release", r) \/ r = r0 BY <1>1, CgPassedPending
    <3> QED BY <3>1, <3>2, <3>3
  <2> HIDE DEF r0
  <2>4. r0 \notin Rel BY <2>2 DEF CgReleased
  <2>5. CgReleased(cg_dead, CgPassed) = Rel \cup {r0} BY <1>2, <1>4, <2>3 DEF CgReleased
  <2> QED BY <2>4, <2>5
<1>10. \A o \in CgObjs : o # c => r0 \notin CgRefs(o) BY <1>2 DEF CgRefs
<1>11. CASE c \in CgGarbage
  <2>1. cg_strong[c] = 0 BY <1>11 DEF CgColorInv
  <2>2. cg_strong' = cg_strong /\ cg_dead' = cg_dead /\ cg_stack' = CgPassed BY <1>1, <2>1
  <2>3. Finalized(c)
    <3>1. CASE cg_color[c] = "white" BY <2>1, <3>1 DEF Finalized
    <3>2. CASE c \in cg_dead BY <3>2 DEF Finalized
    <3>3. CASE CgFramed(cg_stack, "white", c) /\ c \notin cg_dead
      <4>1. PICK k \in DOMAIN cg_stack : cg_stack[k].op = "white" /\ cg_stack[k].obj = c BY <3>3 DEF CgFramed
      <4>2. k \in Nat \ {0} /\ (k = 1 => cg_stack[k].obj \in cg_buffered) /\ CgDescent(cg_stack, k)
        <5>1. cg_stack[k].op # "release" BY <4>1
        <5> QED BY <5>1, CgFrameKinds
      <4>3. CASE k = 1 BY <2>1, <4>1, <4>2, <4>3 DEF Finalized
      <4>4. CASE k # 1
        <5> DEFINE q == <<cg_stack[k - 1].obj, cg_stack[k - 1].at - 1>>
        <5>1. k > 1 /\ k - 1 \in DOMAIN cg_stack
          <6>1. cg_stack \in Seq(CgFrames) BY DEF CgTypeOK
          <6>2. DOMAIN cg_stack = 1 .. Len(cg_stack) /\ Len(cg_stack) \in Nat BY <6>1
          <6> QED BY <4>2, <4>4, <6>2
        <5>2. cg_stack[k - 1].op = "white" /\ q \in CgRefs(c) BY <4>1, <4>2, <5>1 DEF CgDescent
        <5>3. cg_stack[k - 1].obj \in CgGarbage \ cg_dead
          <6>1. cg_stack[k - 1].op # "release" BY <5>2
          <6> QED BY <5>1, <6>1, CgFrameKinds
        <5>4. q[1] = cg_stack[k - 1].obj OBVIOUS
        <5>5. q \in TracedRefs(c) BY <1>5, <5>2, <5>3, <5>4 DEF TracedRefs
        <5>6. q[1] # r0[1] BY <1>4, <5>3, <5>4
        <5> HIDE DEF q, r0
        <5> QED BY <1>8, <5>5, <5>6
      <4> QED BY <4>3, <4>4
    <3> QED BY <1>11, <3>1, <3>2, <3>3 DEF CgColorInv
  <2>4. ASSUME NEW o \in CgObjs \ CgGarbage
        PROVE  cg_strong'[o] = CgStart(o) - Cardinality(CgRefs(o) \cap CgReleased(cg_dead', cg_stack'))
    <3>1. r0 \notin CgRefs(o) BY <1>10, <1>11
    <3> HIDE DEF r0
    <3>2. CgRefs(o) \cap CgReleased(cg_dead', cg_stack') = CgRefs(o) \cap Rel BY <1>9, <2>2, <3>1
    <3> QED BY <1>3, <2>2, <3>2
  <2> QED BY <1>1, <1>3, <2>2, <2>3, <2>4
<1>12. CASE c \notin CgGarbage
  <2>1. c \in CgHeld BY <1>6, <1>12 DEF CgGarbage
  <2>2. Base(c) > 0 /\ Base(c) \in Nat
    <3>1. \A r \in TracedRefs(c) : r[1] \in CgGarbage BY <1>4, <1>8
    <3> HIDE DEF c
    <3> QED BY <1>2, <1>6, <2>1, <3>1, CgHeldAlone, CgBaseFacts
  <2>3. CgRefs(c) \cap Rel = {}
    <3> SUFFICES ASSUME NEW r \in CgRefs(c), r \in Rel PROVE FALSE OBVIOUS
    <3>1. r[1] \in cg_traced BY <1>3, <1>5 DEF CgReleased
    <3>2. r \in TracedRefs(c) BY <3>1 DEF TracedRefs
    <3> HIDE DEF r0, c, Rel
    <3> QED BY <1>8, <1>9, <3>2
  <2>4. cg_strong[c] = Base(c) + 1
    <3>1. Cardinality(CgRefs(c) \cap Rel) = 0 BY <2>3, FS_EmptySet
    <3>2. CgStart(c) = Base(c) + 1 BY <1>6 DEF CgStart
    <3>3. cg_strong[c] = CgStart(c) - Cardinality(CgRefs(c) \cap Rel) BY <1>2, <1>3, <1>12
    <3> HIDE DEF c, Rel
    <3> QED BY <2>2, <3>1, <3>2, <3>3
  <2>5. cg_strong[c] > 0 /\ cg_strong[c] # 1 /\ ~(cg_strong[c] <= 0)
    <3> HIDE DEF c
    <3> QED BY <2>2, <2>4
  <2>6. ~cg_abort' /\ cg_dead' = cg_dead /\ cg_stack' = CgPassed /\ cg_strong' = [cg_strong EXCEPT ![c] = @ - 1]
    BY <1>1, <2>5
  <2>7. cg_strong \in [CgObjs -> Int] BY DEF CgTypeOK
  <2>8. ASSUME NEW o \in CgObjs \ CgGarbage
        PROVE  cg_strong'[o] = CgStart(o) - Cardinality(CgRefs(o) \cap CgReleased(cg_dead', cg_stack'))
    <3> HIDE DEF r0, c, Rel
    <3>1. CASE o # c
      <4>1. CgRefs(o) \cap CgReleased(cg_dead', cg_stack') = CgRefs(o) \cap Rel BY <1>9, <1>10, <2>6, <3>1
      <4>2. cg_strong'[o] = cg_strong[o] BY <2>6, <2>7, <3>1
      <4> QED BY <1>3, <4>1, <4>2 DEF Rel
    <3>2. CASE o = c
      <4>1. CgRefs(o) \cap CgReleased(cg_dead', cg_stack') = {r0} BY <1>2, <1>9, <2>3, <2>6, <3>2
      <4>2. Cardinality({r0}) = 1 BY FS_Singleton
      <4>3. cg_strong'[o] = cg_strong[o] - 1 BY <2>6, <2>7, <3>2
      <4>4. CgStart(o) = Base(c) + 1 BY <1>6, <3>2 DEF CgStart
      <4> QED BY <2>2, <2>4, <3>2, <4>1, <4>2, <4>3, <4>4
    <3> QED BY <3>1, <3>2
  <2> QED BY <1>3, <2>6, <2>8
<1> QED BY <1>11, <1>12

(* A destructor releases a field, and the last reference of a held one. *)
LEMMA CgReleaseInv ==
  ASSUME CgTypeOK, CgColorInv, CgFrameInv, CgKeptInv, CgRelease
  PROVE  (CgColorInv /\ CgFrameInv /\ CgKeptInv)'
<1> DEFINE c == CgField
           last == cg_strong[c] = 1 /\ c \notin cg_dead
<1>1. /\ UNCHANGED cgHeap /\ UNCHANGED cg_suspects /\ cg_buffered' = cg_buffered /\ cg_color' = cg_color
      /\ cg_freed' = cg_freed /\ cg_at' = cg_at
      /\ cg_stack # <<>> /\ CgTop.op = "release" /\ CgTop.at <= Len(cg_fields[CgTop.obj])
      /\ cg_strong' = IF cg_strong[c] > 0 THEN [cg_strong EXCEPT ![c] = @ - 1] ELSE cg_strong
      /\ cg_dead' = IF last THEN cg_dead \cup {c} ELSE cg_dead
      /\ cg_stack' = IF last THEN Append(CgPassed, CgFrame("release", c)) ELSE CgPassed
  BY DEF CgRelease, CgVisits, CgWorks
<1>2. c \in CgObjs BY <1>1, CgFieldFacts
<1>3. CgBefore(cg_at)' = CgBefore(cg_at) BY <1>1 DEF CgBefore
<1>4. CgPassed \in Seq(CgFrames) /\ CgOneFrame(CgPassed)
  <2>1. CgOneFrame(cg_stack) BY DEF CgFrameInv
  <2> QED BY <1>1, <2>1, CgTopFacts, CgOneFrameFacts
<1>5. \A o \in CgGarbage : cg_strong[o] = 0 BY DEF CgColorInv
<1>6. \A o \in CgGarbage : cg_strong'[o] = 0
  <2>1. cg_strong \in [CgObjs -> Int] /\ CgGarbage \subseteq CgObjs BY CgGarbageFacts DEF CgTypeOK
  <2>2. CASE cg_strong[c] > 0
    <3>1. c \notin CgGarbage BY <1>5, <2>2
    <3> HIDE DEF c
    <3> QED BY <1>1, <1>5, <2>1, <2>2, <3>1
  <2>3. CASE ~(cg_strong[c] > 0) BY <1>1, <1>5, <2>3
  <2> QED BY <2>2, <2>3
<1>7. last => c \notin CgGarbage /\ c \notin cg_dead /\ cg_color[c] = "black" /\ c \notin Range(cg_freed)
  <2> HAVE last
  <2>1. c \notin CgGarbage BY <1>5
  <2>2. cg_color[c] = "black" BY <1>2, <2>1 DEF CgColorInv
  <2>3. Range(cg_freed) \subseteq cg_dead BY DEF CgFrameInv
  <2> QED BY <2>1, <2>2, <2>3
<1> HIDE DEF c, last
<1>8. \A r \in CgAllRefs : CgPending(cg_stack, "white", r) => CgPending(cg_stack', "white", r)
  <2> TAKE r \in CgAllRefs
  <2>1. CgPending(Append(CgPassed, CgFrame("release", c)), "white", r) <=> CgPending(CgPassed, "white", r)
    BY <1>2, <1>4, CgCallPending
  <2>2. CgPending(cg_stack, "white", r) => CgPending(CgPassed, "white", r) BY <1>1, CgPassedPending
  <2> QED BY <1>1, <2>1, <2>2
<1>9. \A op, o : CgFramed(cg_stack', op, o) <=> CgFramed(cg_stack, op, o) \/ (last /\ op = "release" /\ o = c)
  <2> TAKE op, o
  <2>1. CgFramed(Append(CgPassed, CgFrame("release", c)), op, o) <=> CgFramed(CgPassed, op, o) \/ (op = "release" /\ o = c)
    BY <1>2, <1>4, CgCallFramed
  <2>2. CgFramed(CgPassed, op, o) <=> CgFramed(cg_stack, op, o) BY <1>1, CgFramedFacts
  <2> QED BY <1>1, <2>1, <2>2
<1>10. cg_dead \subseteq cg_dead' BY <1>1
<1>11. CgColorInv'
  <2>1. \A o \in CgObjs \ CgGarbage : cg_color'[o] = "black" BY <1>1 DEF CgColorInv
  <2>2. \A o \in CgGarbage : cg_color'[o] \in {"white", "black"} /\ cg_strong'[o] = 0 BY <1>1, <1>6 DEF CgColorInv
  <2>3. \A r \in CgAllRefs : r[1] \in CgGarbage /\ cg_color'[r[1]] = "black" =>
          CgPending(cg_stack', "white", r) \/ cg_color'[CgTarget(r)] # "white"
    BY <1>1, <1>8 DEF CgColorInv
  <2>4. \A o \in CgGarbage : cg_color'[o] = "black" => CgFramed(cg_stack', "white", o) \/ o \in cg_dead'
    BY <1>1, <1>9, <1>10 DEF CgColorInv
  <2>5. cg_traced \subseteq CgReach(cg_buffered' \cup cg_dead' \cup (CgHeld \cap cg_traced))
    <3> DEFINE S == cg_buffered \cup cg_dead \cup (CgHeld \cap cg_traced)
               T == cg_buffered' \cup cg_dead' \cup (CgHeld \cap cg_traced)
    <3>1. S \subseteq T BY <1>1, <1>10
    <3>2. cg_traced \subseteq CgReach(S) BY DEF CgColorInv
    <3> HIDE DEF S, T
    <3>3. CgReach(S) \subseteq CgReach(T) BY <3>1 DEF CgReach
    <3>4. cg_traced \subseteq CgReach(T) BY <3>2, <3>3
    <3> QED BY <3>4 DEF T
  <2>6. CgBefore(cg_at)' \cap cg_buffered' \cap CgColored(cg_color', "white") = {} BY <1>1, <1>3 DEF CgColorInv
  <2> QED BY <1>1, <2>1, <2>2, <2>3, <2>4, <2>5, <2>6, CgColorPrimed
<1>12. \A k \in DOMAIN CgPassed :
         /\ cg_color[CgPassed[k].obj] = "black" /\ (last => CgPassed[k].obj # c)
         /\ \/ /\ CgPassed[k].op = "white" /\ CgPassed[k].obj \in CgGarbage \ cg_dead'
               /\ (k = 1 => CgPassed[k].obj \in cg_buffered) /\ CgDescent(CgPassed, k)
            \/ CgPassed[k].op = "release" /\ CgPassed[k].obj \in cg_dead' \ Range(cg_freed)
  <2> TAKE k \in DOMAIN CgPassed
  <2>1. /\ k \in DOMAIN cg_stack /\ CgPassed[k].op = cg_stack[k].op /\ CgPassed[k].obj = cg_stack[k].obj
        /\ CgDescent(CgPassed, k) <=> CgDescent(cg_stack, k)
    BY <1>1, CgPassedFrames
  <2>2. /\ cg_color[cg_stack[k].obj] = "black"
        /\ \/ /\ cg_stack[k].op = "white" /\ cg_stack[k].obj \in CgGarbage \ cg_dead
              /\ (k = 1 => cg_stack[k].obj \in cg_buffered) /\ CgDescent(cg_stack, k)
           \/ cg_stack[k].op = "release" /\ cg_stack[k].obj \in cg_dead \ Range(cg_freed)
    BY <2>1, CgFrameKinds
  <2>3. last => cg_stack[k].obj # c BY <1>7, <2>2
  <2>4. \A o \in CgGarbage \ cg_dead : o \in CgGarbage \ cg_dead' BY <1>1, <1>7
  <2> QED BY <1>10, <2>1, <2>2, <2>3, <2>4
<1>13. CgFrameInv'
  <2>1. CgOneFrame(cg_stack')
    <3>1. last => CgOneFrame(Append(CgPassed, CgFrame("release", c)))
      <4>1. last => \A k \in DOMAIN CgPassed : CgPassed[k].obj # c BY <1>12
      <4> QED BY <1>2, <1>4, <4>1, CgCallOneFrame
    <3> QED BY <1>1, <1>4, <3>1
  <2>2. ASSUME NEW k \in DOMAIN cg_stack'
        PROVE  /\ cg_color'[cg_stack'[k].obj] = "black"
               /\ \/ /\ cg_stack'[k].op = "white" /\ cg_stack'[k].obj \in CgGarbage \ cg_dead'
                     /\ (k = 1 => cg_stack'[k].obj \in cg_buffered') /\ CgDescent(cg_stack', k)
                  \/ cg_stack'[k].op = "release" /\ cg_stack'[k].obj \in cg_dead' \ Range(cg_freed')
    <3>1. CASE k \in DOMAIN CgPassed /\ cg_stack'[k] = CgPassed[k] /\ (CgDescent(cg_stack', k) <=> CgDescent(CgPassed, k))
      BY <1>1, <1>12, <3>1
    <3>2. CASE ~last
      <4>1. cg_stack' = CgPassed BY <1>1, <3>2
      <4> QED BY <2>2, <3>1, <4>1
    <3>3. CASE last
      <4> DEFINE up == Append(CgPassed, CgFrame("release", c))
      <4>1. up = cg_stack' BY <1>1, <3>3
      <4>2. k \in DOMAIN up BY <2>2, <4>1
      <4>3. \/ k \in DOMAIN CgPassed /\ up[k] = CgPassed[k] /\ (CgDescent(up, k) <=> CgDescent(CgPassed, k))
            \/ up[k].op = "release" /\ up[k].obj = c
        BY <1>2, <1>4, <4>2, CgCallFrames
      <4>4. c \in cg_dead' \ Range(cg_freed') BY <1>1, <1>7, <3>3
      <4>5. cg_color'[c] = "black" BY <1>1, <1>7, <3>3
      <4> HIDE DEF up
      <4> QED BY <3>1, <4>1, <4>3, <4>4, <4>5
    <3> QED BY <3>2, <3>3
  <2>3. \A o \in cg_dead' : cg_color'[o] = "black" /\ (CgFramed(cg_stack', "release", o) \/ o \in Range(cg_freed'))
    <3> TAKE o \in cg_dead'
    <3>1. CASE o \in cg_dead BY <1>1, <1>9, <3>1 DEF CgFrameInv
    <3>2. CASE last /\ o = c BY <1>1, <1>7, <1>9, <3>2
    <3> QED BY <1>1, <3>1, <3>2
  <2>4. Range(cg_freed') \subseteq cg_dead' /\ IsInjective(cg_freed') BY <1>1, <1>10 DEF CgFrameInv
  <2> QED BY <1>1, <2>1, <2>2, <2>3, <2>4, CgFramePrimed
<1>14. CgKeptInv' BY <1>1, CgReleaseKept, CgKeptPrimed
<1> QED BY <1>11, <1>13, <1>14

-----------------------------------------------------------------------------
(* The invariant of a collection, CgInv: in each phase what its counts,
   colours and frames mean. *)
THEOREM CgInvariant == CgSpec => []CgInv
<1>1. CgInit => CgInv BY CgInitInv
<1>2. CgInv /\ [CgNext]_cgVars => CgInv'
  <2> SUFFICES ASSUME CgInv, [CgNext]_cgVars PROVE CgInv' OBVIOUS
  <2>1. CASE UNCHANGED cgVars
    <3>1. UNCHANGED cgHeap /\ UNCHANGED <<cg_suspects, cg_strong, cg_color, cg_buffered, cg_dead, cg_freed, cg_abort, cg_pc, cg_at, cg_stack>>
      BY <2>1 DEF cgVars
    <3>2. UNCHANGED <<cg_fields, cg_outside, cg_traced>> BY <3>1 DEF cgHeap
    <3>3. CgTypeOK' BY <3>1, <3>2 DEF CgInv, CgTypeOK, CgClosed, CgAllRefs, CgTarget
    <3>4. cg_pc = "mark" => CgMarkInv'
      <4> HAVE cg_pc = "mark"
      <4>1. CgMarkInv BY DEF CgInv
      <4> QED BY <3>1, <4>1, CgMarkPrimed DEF CgMarkInv
    <3>5. cg_pc \in {"scan", "scanned"} => CgScanInv'
      <4> HAVE cg_pc \in {"scan", "scanned"}
      <4>1. CgScanInv BY DEF CgInv
      <4> QED BY <3>1, <4>1, CgScanPrimed DEF CgScanInv
    <3>6. cg_pc \in {"collect", "done"} => (CgColorInv /\ CgFrameInv /\ CgKeptInv)'
      <4> HAVE cg_pc \in {"collect", "done"}
      <4>1. CgColorInv /\ CgFrameInv /\ CgKeptInv BY DEF CgInv
      <4>2. CgBefore(cg_at)' = CgBefore(cg_at) BY <3>1 DEF CgBefore
      <4>3. CgColorInv' BY <3>1, <4>1, <4>2, CgColorPrimed DEF CgColorInv
      <4>4. CgFrameInv'
        <5>1. \A k \in DOMAIN cg_stack' :
                /\ cg_color'[cg_stack'[k].obj] = "black"
                /\ \/ /\ cg_stack'[k].op = "white" /\ cg_stack'[k].obj \in CgGarbage \ cg_dead'
                      /\ (k = 1 => cg_stack'[k].obj \in cg_buffered') /\ CgDescent(cg_stack', k)
                   \/ cg_stack'[k].op = "release" /\ cg_stack'[k].obj \in cg_dead' \ Range(cg_freed')
          BY <3>1, <4>1 DEF CgFrameInv
        <5>2. \A o \in cg_dead' : cg_color'[o] = "black" /\ (CgFramed(cg_stack', "release", o) \/ o \in Range(cg_freed'))
          BY <3>1, <4>1 DEF CgFrameInv
        <5>3. CgOneFrame(cg_stack') /\ Range(cg_freed') \subseteq cg_dead' /\ IsInjective(cg_freed')
          BY <3>1, <4>1 DEF CgFrameInv
        <5> QED BY <3>1, <5>1, <5>2, <5>3, CgFramePrimed
      <4>5. CgKeptInv' BY <3>1, <4>1, CgKeptPrimed DEF CgKeptInv
      <4> QED BY <4>3, <4>4, <4>5
    <3>7. cg_pc = "done" => cg_stack' = <<>> /\ \A o \in CgGarbage' : cg_color'[o] = "black"
      BY <3>1, CgHeapSame DEF CgInv
    <3> QED BY <3>1, <3>3, <3>4, <3>5, <3>6, <3>7 DEF CgInv
  <2>2. ASSUME CgNext PROVE CgInv'
    <3>1. CgTypeOK /\ CgTypeOK' BY <2>2, CgTypeStep DEF CgInv
    <3>2. CASE cg_pc = "mark"
      <4>1. CgMarkInv BY <3>2 DEF CgInv
      <4>2. CASE CgMarkRoot
        <5>1. CgMarkInv' /\ cg_pc' = "mark" BY <3>1, <3>2, <4>1, <4>2, CgMarkRootInv DEF CgMarkRoot
        <5> QED BY <3>1, <5>1 DEF CgInv
      <4>3. CASE CgDecrement
        <5>1. CgMarkInv' /\ cg_pc' = "mark" BY <3>1, <3>2, <4>1, <4>3, CgDecrementInv DEF CgDecrement
        <5> QED BY <3>1, <5>1 DEF CgInv
      <4>4. CASE CgReturn
        <5>1. CgMarkInv' /\ cg_pc' = "mark" BY <3>1, <3>2, <4>1, <4>4, CgReturnMark DEF CgReturn
        <5> QED BY <3>1, <5>1 DEF CgInv
      <4>5. CASE CgNextPhase
        <5>1. CgScanInv' /\ cg_pc' = "scan" BY <3>1, <3>2, <4>1, <4>5, CgMarked DEF CgNextPhase
        <5> QED BY <3>1, <5>1 DEF CgInv
      <4>6. ~(CgScanRoot \/ CgRootScanned \/ CgCollectRoot)
        BY <3>2 DEF CgScanRoot, CgRootScanned, CgCollectRoot, AtSuspect
      <4>7. ~(CgLive \/ CgRestore \/ CgWhite \/ CgFinalize \/ CgRelease \/ CgFinalized)
        BY <3>2, CgPhaseOps DEF CgLive, CgRestore, CgWhite, CgFinalize, CgRelease, CgFinalized, CgVisits, CgReturns, CgWorks
      <4> QED BY <2>2, <4>2, <4>3, <4>4, <4>5, <4>6, <4>7 DEF CgNext
    <3>3. CASE cg_pc \in {"scan", "scanned"}
      <4>1. CgScanInv BY <3>3 DEF CgInv
      <4>2. CASE CgScanRoot
        <5>1. CgScanInv' /\ cg_pc' \in {"scan", "scanned"} BY <3>1, <3>3, <4>1, <4>2, CgScanRootInv DEF CgScanRoot
        <5> QED BY <3>1, <5>1 DEF CgInv
      <4>3. CASE CgRootScanned
        <5>1. CgScanInv' /\ cg_pc' = "scan" BY <3>1, <3>3, <4>1, <4>3, CgRootScannedInv DEF CgRootScanned
        <5> QED BY <3>1, <5>1 DEF CgInv
      <4>4. CASE CgLive \/ CgRestore
        <5>1. CgScanInv' /\ cg_pc' = cg_pc BY <3>1, <3>3, <4>1, <4>4, CgVisitInv DEF CgLive, CgRestore
        <5> QED BY <3>1, <3>3, <5>1 DEF CgInv
      <4>5. CASE CgReturn
        <5>1. CgScanInv' /\ cg_pc' = cg_pc BY <3>1, <3>3, <4>1, <4>5, CgReturnScan DEF CgReturn
        <5> QED BY <3>1, <3>3, <5>1 DEF CgInv
      <4>6. CASE CgNextPhase
        <5>1. cg_pc = "scan" /\ cg_pc' = "collect" BY <3>3, <4>6 DEF CgNextPhase
        <5>2. (CgColorInv /\ CgFrameInv /\ CgKeptInv)' BY <3>1, <4>1, <4>6, <5>1, CgScanned
        <5> QED BY <3>1, <5>1, <5>2 DEF CgInv
      <4>7. ~(CgMarkRoot \/ CgCollectRoot) BY <3>3 DEF CgMarkRoot, CgCollectRoot, AtSuspect
      <4>8. ~(CgDecrement \/ CgWhite \/ CgFinalize \/ CgRelease \/ CgFinalized)
        BY <3>3, CgPhaseOps DEF CgDecrement, CgWhite, CgFinalize, CgRelease, CgFinalized, CgVisits, CgReturns, CgWorks
      <4> QED BY <2>2, <4>2, <4>3, <4>4, <4>5, <4>6, <4>7, <4>8 DEF CgNext
    <3>4. CASE cg_pc = "collect"
      <4>1. CgColorInv /\ CgFrameInv /\ CgKeptInv BY <3>4 DEF CgInv
      <4>2. CASE CgCollectRoot \/ CgWhite \/ CgFinalize \/ CgRelease \/ CgFinalized
        <5>1. cg_pc' = "collect" BY <3>4, <4>2 DEF CgCollectRoot, CgWhite, CgFinalize, CgRelease, CgFinalized
        <5>2. (CgColorInv /\ CgFrameInv /\ CgKeptInv)'
          BY <3>1, <4>1, <4>2, CgCollectRootInv, CgWhiteInv, CgFinalizeInv, CgReleaseInv, CgFinalizedInv
        <5> QED BY <3>1, <5>1, <5>2 DEF CgInv
      <4>3. CASE CgNextPhase
        <5>1. cg_pc' = "done" /\ UNCHANGED cgHeap BY <3>4, <4>3 DEF CgNextPhase
        <5>2. /\ (CgColorInv /\ CgFrameInv /\ CgKeptInv)'
              /\ cg_stack' = <<>> /\ \A o \in CgGarbage : cg_color'[o] = "black"
          BY <3>1, <3>4, <4>1, <4>3, CgCollected
        <5>3. CgGarbage' = CgGarbage BY <5>1, CgHeapSame
        <5> QED BY <3>1, <5>1, <5>2, <5>3 DEF CgInv
      <4>4. ~(CgMarkRoot \/ CgScanRoot \/ CgRootScanned) BY <3>4 DEF CgMarkRoot, CgScanRoot, CgRootScanned, AtSuspect
      <4>5. ~(CgDecrement \/ CgLive \/ CgRestore \/ CgReturn)
        BY <3>4, CgPhaseOps DEF CgDecrement, CgLive, CgRestore, CgReturn, CgVisits, CgReturns, CgWorks
      <4> QED BY <2>2, <4>2, <4>3, <4>4, <4>5 DEF CgNext
    <3>5. CASE cg_pc = "done"
      <4>1. cg_stack = <<>> BY <3>5 DEF CgInv
      <4> QED BY <2>2, <3>5, <4>1
        DEF CgNext, CgReturn, CgNextPhase, CgMarkRoot, CgDecrement, CgScanRoot, CgLive, CgRestore, CgRootScanned,
            CgCollectRoot, CgWhite, CgFinalize, CgRelease, CgFinalized, AtSuspect, CgVisits, CgReturns, CgWorks
    <3> QED BY <3>1, <3>2, <3>3, <3>4, <3>5 DEF CgTypeOK
  <2> QED BY <2>1, <2>2
<1> QED BY <1>1, <1>2, PTL DEF CgSpec

(* A collection frees all the garbage of the suspects, once, and nothing else
   unless two references of traced objects meet, and keeps the counts exact
   where every traced object has one traced reference. *)
THEOREM CgCollectsGarbage == CgSpec => []CgCollects
<1>1. CgInv => CgCollects
  <2> SUFFICES ASSUME CgInv PROVE CgCollects OBVIOUS
  <2>1. CgTypeOK BY DEF CgInv
  <2>2. cg_pc \in {"collect", "done"} \/ (~cg_abort /\ cg_freed = <<>> /\ cg_pc # "done")
    BY <2>1 DEF CgInv, CgTypeOK, CgMarkInv, CgScanInv
  <2>3. Range(<<>>) = {} /\ IsInjective(<<>>)
    <3>1. DOMAIN <<>> = {} OBVIOUS
    <3> QED BY <3>1 DEF Range, IsInjective
  <2>4. \A o \in cg_traced : o \in CgObjs /\ Cardinality(TracedRefs(o)) \in Nat BY <2>1, CgTracedClosed, CgBaseFacts, CgRefsCount
  <2>5. CgOnlyGarbage
    <3> SUFFICES ASSUME \A o \in cg_traced : ~(Cardinality(TracedRefs(o)) > 1)
                 PROVE  ~cg_abort /\ \A o \in Range(cg_freed) : o \notin CgHeld
      BY DEF CgOnlyGarbage
    <3>1. \A o \in cg_traced : Cardinality(TracedRefs(o)) <= 1 BY <2>4
    <3>2. CASE cg_pc \in {"collect", "done"}
      <4>1. ~cg_abort /\ cg_dead \subseteq CgGarbage /\ Range(cg_freed) \subseteq cg_dead
        BY <3>1, <3>2 DEF CgInv, CgKeptInv, CgFrameInv
      <4> QED BY <4>1 DEF CgGarbage
    <3> QED BY <2>2, <2>3, <3>2
  <2>6. cg_pc = "done" => CgGarbage \subseteq cg_dead /\ cg_dead \subseteq Range(cg_freed)
    <3> HAVE cg_pc = "done"
    <3>1. cg_stack = <<>> /\ CgColorInv /\ CgFrameInv /\ \A o \in CgGarbage : cg_color[o] = "black" BY DEF CgInv
    <3>2. \A op, o : ~CgFramed(cg_stack, op, o) BY <3>1 DEF CgFramed
    <3>3. CgGarbage \subseteq cg_dead BY <3>1, <3>2 DEF CgColorInv
    <3>4. cg_dead \subseteq Range(cg_freed) BY <3>1, <3>2 DEF CgFrameInv
    <3> QED BY <3>3, <3>4
  <2>7. CgAllGarbage
    <3>1. IsInjective(cg_freed) BY <2>2, <2>3 DEF CgInv, CgFrameInv
    <3> QED BY <2>6, <3>1 DEF CgAllGarbage, CgGarbage
  <2>8. CgCountsExact
    <3> SUFFICES ASSUME cg_pc = "done", \A o \in cg_traced : Cardinality(TracedRefs(o)) = 1, NEW o \in CgObjs \ cg_dead
                 PROVE  cg_strong[o] = Cardinality({r \in CgRefs(o) : r[1] \notin cg_dead}) + cg_outside[o]
      BY DEF CgCountsExact
    <3> DEFINE Rel == CgReleased(cg_dead, cg_stack)
               Kept == {r \in CgRefs(o) : r[1] \notin cg_dead}
    <3>1. o \in CgObjs \ CgGarbage BY <2>6
    <3>2. \A p \in cg_traced : Cardinality(TracedRefs(p)) <= 1 OBVIOUS
    <3>3. cg_strong[o] = CgStart(o) - Cardinality(CgRefs(o) \cap Rel) BY <3>1, <3>2 DEF CgInv, CgKeptInv
    <3>4. CgRefs(o) \subseteq CgAllRefs BY <2>1, CgRefFacts
    <3>5. Kept = CgRefs(o) \ Rel
      <4>1. \A r \in CgAllRefs : ~CgPending(cg_stack, "release", r) BY DEF CgInv, CgPending
      <4> QED BY <3>4, <4>1 DEF CgReleased
    <3>6. /\ IsFiniteSet(CgRefs(o)) /\ Cardinality(CgRefs(o)) \in Nat /\ Cardinality(CgRefs(o) \cap Rel) \in Nat
      BY <2>1, <3>4, CgRefsCount
    <3>7. Cardinality(Kept) = Cardinality(CgRefs(o)) - Cardinality(CgRefs(o) \cap Rel)
      <4> HIDE DEF Kept, Rel
      <4> QED BY <3>5, <3>6, FS_Difference
    <3>8. Exact(o) = Cardinality(CgRefs(o)) + cg_outside[o] /\ cg_outside[o] \in Nat BY <2>1, CgBaseFacts DEF Exact
    <3>9. CgStart(o) = Exact(o)
      <4>1. CASE o \in cg_traced
        <5>1. Exact(o) = Base(o) + Cardinality(TracedRefs(o)) BY <2>1, CgBaseFacts
        <5> QED BY <4>1, <5>1 DEF CgStart
      <4>2. CASE o \notin cg_traced BY <4>2 DEF CgStart
      <4> QED BY <4>1, <4>2
    <3> HIDE DEF Kept, Rel
    <3>10. cg_strong[o] = Cardinality(Kept) + cg_outside[o] BY <3>3, <3>6, <3>7, <3>8, <3>9
    <3> QED BY <3>10 DEF Kept
  <2> QED BY <2>5, <2>7, <2>8 DEF CgCollects
<1> QED BY <1>1, CgInvariant, PTL
=============================================================================
