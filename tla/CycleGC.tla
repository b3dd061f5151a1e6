------------------------------- MODULE CycleGC -------------------------------
(***************************************************************************)
(* The cycle collector, runtime/memory/cycle_gc.c with arc_release and     *)
(* arc_cycle_collect of arc.c, for one collection of one heap.  The heap   *)
(* is chosen first: objects with a scanner, each with fields that are      *)
(* strong references, perhaps references from outside, counts that are     *)
(* exact, and some objects buffered by cycle_gc_add_suspect.               *)
(*                                                                         *)
(* The passes are recursive: a frame of cg_stack is a scanner at work on   *)
(* the fields of an object, or its destructor, which releases them as in   *)
(* tests/runtime/test_arc_gc.c.  A step is a visit of one field, or the    *)
(* return from all.  A read of the header of freed memory is taken to see  *)
(* what was last written there.                                            *)
(***************************************************************************)
EXTENDS Integers, Sequences, FiniteSets, Functions

CONSTANTS
    CgObjs,         \* the objects
    CgHeaps,        \* the fields of each object
    CgMaxOutside,   \* references from outside to one object
    CgBuffers       \* suspects in the buffer when the collector runs

ASSUME CgAssumption ==
    /\ IsFiniteSet(CgObjs) /\ CgMaxOutside \in Nat
    /\ \A fields \in CgHeaps : fields \in [CgObjs -> Seq(CgObjs)]
    /\ \A s \in CgBuffers : s \in Seq(CgObjs) /\ IsInjective(s)

VARIABLES
    cg_fields,      \* the strong references of each object
    cg_outside,     \* the number of references from outside to each
    cg_suspects,    \* the suspect buffer; an entry is NULL if the flag is clear
    cg_strong, cg_color, cg_buffered,   \* strong_count, color, ARC_FLAG_BUFFERED
    cg_dead,        \* ARC_FLAG_DEALLOCATING
    cg_freed,       \* history: what was finalized, in this order
    cg_abort,       \* arc_abort_count_error was called
    cg_pc, cg_at,   \* the loop of cycle_gc_collect and its index
    cg_stack,       \* scanners and destructors at work
    cg_traced       \* history: what the suspects reach

cgHeap == <<cg_fields, cg_outside, cg_traced>>
cgVars == <<cgHeap, cg_suspects, cg_strong, cg_color, cg_buffered, cg_dead, cg_freed, cg_abort, cg_pc, cg_at, cg_stack>>

\* A reference is an object and the index of its field.
CgAllRefs == UNION {{p} \X DOMAIN cg_fields[p] : p \in CgObjs}
CgTarget(r) == cg_fields[r[1]][r[2]]
CgRefs(o) == {r \in CgAllRefs : CgTarget(r) = o}
Exact(o) == Cardinality(CgRefs(o)) + cg_outside[o]

\* The sets that no reference leads out of, and what S leads to.
CgClosed == {T \in SUBSET CgObjs : \A r \in CgAllRefs : r[1] \in T => CgTarget(r) \in T}
CgReach(S) ==
    LET closed == CgClosed
    IN {o \in CgObjs : \A T \in closed : S \subseteq T => o \in T}

\* cycle_gc_add_suspect: a live object that survived a release is purple.
CgInit ==
    /\ cg_fields \in CgHeaps
    /\ cg_outside \in [CgObjs -> 0 .. CgMaxOutside]
    /\ \A o \in CgObjs : Exact(o) > 0
    /\ cg_suspects \in CgBuffers
    /\ cg_strong = [o \in CgObjs |-> Exact(o)]
    /\ cg_color = [o \in CgObjs |-> IF o \in Range(cg_suspects) THEN "purple" ELSE "black"]
    /\ cg_buffered = Range(cg_suspects)
    /\ cg_dead = {} /\ cg_freed = <<>> /\ cg_abort = FALSE
    /\ cg_pc = "mark" /\ cg_at = 1 /\ cg_stack = <<>>
    /\ cg_traced = CgReach(Range(cg_suspects))

-----------------------------------------------------------------------------
(* The frames.                                                              *)

CgFrame(op, o) == [op |-> op, obj |-> o, at |-> 1]
CgTop == cg_stack[Len(cg_stack)]
CgBelow == SubSeq(cg_stack, 1, Len(cg_stack) - 1)
CgPassed == [cg_stack EXCEPT ![Len(cg_stack)] = [CgTop EXCEPT !.at = @ + 1]]

CgWorks(op) == ~cg_abort /\ cg_stack # <<>> /\ CgTop.op = op
CgVisits(op) == CgWorks(op) /\ CgTop.at <= Len(cg_fields[CgTop.obj])
CgReturns(op) == CgWorks(op) /\ CgTop.at > Len(cg_fields[CgTop.obj])
CgField == cg_fields[CgTop.obj][CgTop.at]

\* The loops of cycle_gc_collect, between two calls.
AtSuspect(phase) == ~cg_abort /\ cg_stack = <<>> /\ cg_pc = phase /\ cg_at <= Len(cg_suspects)
Suspect == cg_suspects[cg_at]

\* A visit that goes down into the object, with a new colour, or not.
CgEnters(goes, stack, op, o, color) ==
    IF goes THEN cg_color' = [cg_color EXCEPT ![o] = color] /\ cg_stack' = Append(stack, CgFrame(op, o))
            ELSE cg_color' = cg_color /\ cg_stack' = stack

CgReturn ==
    /\ CgReturns("decrement") \/ CgReturns("restore") \/ CgReturns("live")
    /\ cg_stack' = CgBelow
    /\ UNCHANGED <<cgHeap, cg_suspects, cg_strong, cg_color, cg_buffered, cg_dead, cg_freed, cg_abort, cg_pc, cg_at>>

CgNextPhase ==
    /\ ~cg_abort /\ cg_stack = <<>> /\ cg_at > Len(cg_suspects)
    /\ \/ cg_pc = "mark" /\ cg_pc' = "scan" /\ UNCHANGED cg_suspects
       \/ cg_pc = "scan" /\ cg_pc' = "collect" /\ UNCHANGED cg_suspects
       \/ cg_pc = "collect" /\ cg_pc' = "done" /\ cg_suspects' = <<>>
    /\ cg_at' = 1
    /\ UNCHANGED <<cgHeap, cg_strong, cg_color, cg_buffered, cg_dead, cg_freed, cg_abort, cg_stack>>

-----------------------------------------------------------------------------
(* Phase 1: trial decrements.                                               *)

CgMarkRoot ==
    /\ AtSuspect("mark")
    /\ LET root == Suspect \notin cg_dead /\ cg_color[Suspect] = "purple" /\ cg_strong[Suspect] > 0
       IN /\ CgEnters(root, cg_stack, "decrement", Suspect, "gray")
          /\ cg_buffered' = IF root THEN cg_buffered ELSE cg_buffered \ {Suspect}
    /\ cg_at' = cg_at + 1
    /\ UNCHANGED <<cgHeap, cg_suspects, cg_strong, cg_dead, cg_freed, cg_abort, cg_pc>>

\* cycle_scan_decrement.
CgDecrement ==
    /\ CgVisits("decrement")
    /\ LET counted == CgField \notin cg_dead /\ cg_strong[CgField] > 0
       IN /\ cg_strong' = IF counted THEN [cg_strong EXCEPT ![CgField] = @ - 1] ELSE cg_strong
          /\ CgEnters(counted /\ cg_color[CgField] # "gray", CgPassed, "decrement", CgField, "gray")
    /\ UNCHANGED <<cgHeap, cg_suspects, cg_buffered, cg_dead, cg_freed, cg_abort, cg_pc, cg_at>>

-----------------------------------------------------------------------------
(* Phase 2: what is still referenced is restored, the rest is white.        *)

\* cycle_scan_restore.
Restores(o, stack) ==
    LET goes == o \notin cg_dead /\ cg_color[o] # "black"
    IN /\ cg_strong' = IF goes THEN [cg_strong EXCEPT ![o] = @ + 1] ELSE cg_strong
       /\ CgEnters(goes, stack, "restore", o, "black")

\* Mutation: a white object is taken to have live children only.
ScanLiveShallow(o, stack) ==
    IF o \notin cg_dead /\ cg_color[o] = "gray" /\ cg_strong[o] > 0
      THEN Restores(o, stack)
      ELSE /\ CgEnters(o \notin cg_dead /\ cg_color[o] = "gray", stack, "restore", o, "white")
           /\ cg_strong' = cg_strong

\* cycle_scan_live.
ScanLive(o, stack) ==
    IF o \notin cg_dead /\ cg_color[o] = "gray" /\ cg_strong[o] > 0
      THEN Restores(o, stack)
      ELSE /\ CgEnters(o \notin cg_dead /\ cg_color[o] = "gray", stack, "live", o, "white")
           /\ cg_strong' = cg_strong

CgScanRoot ==
    /\ AtSuspect("scan")
    /\ IF Suspect \in cg_buffered
         THEN ScanLive(Suspect, cg_stack) /\ cg_pc' = "scanned" /\ cg_at' = cg_at
         ELSE cg_pc' = cg_pc /\ cg_at' = cg_at + 1 /\ UNCHANGED <<cg_strong, cg_color, cg_stack>>
    /\ UNCHANGED <<cgHeap, cg_suspects, cg_buffered, cg_dead, cg_freed, cg_abort>>

CgLive ==
    /\ CgVisits("live") /\ ScanLive(CgField, CgPassed)
    /\ UNCHANGED <<cgHeap, cg_suspects, cg_buffered, cg_dead, cg_freed, cg_abort, cg_pc, cg_at>>

CgRestore ==
    /\ CgVisits("restore") /\ Restores(CgField, CgPassed)
    /\ UNCHANGED <<cgHeap, cg_suspects, cg_buffered, cg_dead, cg_freed, cg_abort, cg_pc, cg_at>>

CgRootScanned ==
    /\ AtSuspect("scanned")
    /\ cg_buffered' = IF cg_color[Suspect] = "black" THEN cg_buffered \ {Suspect} ELSE cg_buffered
    /\ cg_pc' = "scan" /\ cg_at' = cg_at + 1
    /\ UNCHANGED <<cgHeap, cg_suspects, cg_strong, cg_color, cg_dead, cg_freed, cg_abort, cg_stack>>

-----------------------------------------------------------------------------
(* Phase 3: the white objects, deepest first.                               *)

CollectsWhite(o) == o \notin cg_dead /\ cg_color[o] = "white"

CgCollectRoot ==
    /\ AtSuspect("collect")
    /\ CgEnters(Suspect \in cg_buffered /\ CollectsWhite(Suspect), cg_stack, "white", Suspect, "black")
    /\ cg_at' = cg_at + 1
    /\ UNCHANGED <<cgHeap, cg_suspects, cg_strong, cg_buffered, cg_dead, cg_freed, cg_abort, cg_pc>>

CgWhite ==
    /\ CgVisits("white") /\ CgEnters(CollectsWhite(CgField), CgPassed, "white", CgField, "black")
    /\ UNCHANGED <<cgHeap, cg_suspects, cg_strong, cg_buffered, cg_dead, cg_freed, cg_abort, cg_pc, cg_at>>

\* arc_cycle_collect: after the fields, the object and its destructor.
CgFinalize ==
    /\ CgReturns("white")
    /\ LET o == CgTop.obj
           ends == cg_strong[o] <= 0 /\ o \notin cg_dead
       IN /\ cg_dead' = IF ends THEN cg_dead \cup {o} ELSE cg_dead
          /\ cg_stack' = IF ends THEN Append(CgBelow, CgFrame("release", o)) ELSE CgBelow
    /\ UNCHANGED <<cgHeap, cg_suspects, cg_strong, cg_color, cg_buffered, cg_freed, cg_abort, cg_pc, cg_at>>

\* arc_header_is_finalized.
Finalized(o) ==
    \/ o \in cg_dead
    \/ cg_strong[o] <= 0 /\ (cg_color[o] \in {"white", "gray"} \/ o \in cg_buffered)

\* arc_release of a field: a count of zero finalizes in turn.
CgRelease ==
    /\ CgVisits("release")
    /\ LET last == cg_strong[CgField] = 1 /\ CgField \notin cg_dead
       IN /\ cg_strong' = IF cg_strong[CgField] > 0 THEN [cg_strong EXCEPT ![CgField] = @ - 1] ELSE cg_strong
          /\ cg_abort' = (cg_strong[CgField] <= 0 /\ ~Finalized(CgField))
          /\ cg_dead' = IF last THEN cg_dead \cup {CgField} ELSE cg_dead
          /\ cg_stack' = IF last THEN Append(CgPassed, CgFrame("release", CgField)) ELSE CgPassed
    /\ UNCHANGED <<cgHeap, cg_suspects, cg_color, cg_buffered, cg_freed, cg_pc, cg_at>>

\* The rest of arc_finalize_zero_strong.
CgFinalized ==
    /\ CgReturns("release")
    /\ cg_freed' = Append(cg_freed, CgTop.obj)
    /\ cg_color' = [cg_color EXCEPT ![CgTop.obj] = "black"]
    /\ cg_buffered' = cg_buffered \ {CgTop.obj}
    /\ cg_stack' = CgBelow
    /\ UNCHANGED <<cgHeap, cg_suspects, cg_strong, cg_dead, cg_abort, cg_pc, cg_at>>

CgNext ==
    \/ CgReturn \/ CgNextPhase \/ CgMarkRoot \/ CgDecrement \/ CgScanRoot \/ CgLive \/ CgRestore
    \/ CgRootScanned \/ CgCollectRoot \/ CgWhite \/ CgFinalize \/ CgRelease \/ CgFinalized

CgSpec == CgInit /\ [][CgNext]_cgVars

-----------------------------------------------------------------------------

(* Where two references of traced objects meet, the restoring pass undoes   *)
(* one decrement of two (cycle_gc.c:53) and a destructor may find a count   *)
(* of zero on an object that is black and not buffered, and abort; where    *)
(* none comes in, it undoes one that was not made (:72).                    *)

TracedRefs(o) == {r \in CgRefs(o) : r[1] \in cg_traced}

\* What can still be used, or is held by what the collection did not look at.
CgHeld == CgReach({o \in CgObjs : cg_outside[o] > 0 \/ o \notin cg_traced})

\* A collection frees an object that can still be used, or has a destructor
\* that over-releases one, only where two traced references meet.
CgOnlyGarbage ==
    cg_abort \/ (\E o \in Range(cg_freed) : o \in CgHeld) =>
      \E o \in cg_traced : Cardinality(TracedRefs(o)) > 1

\* Every object that only garbage reached from the suspects refers to is
\* freed, once, whatever the shape of the heap, unless a destructor aborts.
CgAllGarbage ==
    IsInjective(cg_freed) /\ (cg_pc = "done" => cg_traced \ CgHeld \subseteq Range(cg_freed))

\* It leaves exact counts, "undo trial decrements for live objects"
\* (cycle_gc.h:12), so that later releases free neither too early nor never,
\* where every traced object has one traced reference.
CgCountsExact ==
    cg_pc = "done" /\ (\A o \in cg_traced : Cardinality(TracedRefs(o)) = 1) =>
      \A o \in CgObjs \ cg_dead :
        cg_strong[o] = Cardinality({r \in CgRefs(o) : r[1] \notin cg_dead}) + cg_outside[o]

\* A collection frees the garbage of the suspects, nothing else, and leaves the
\* counts of what stays as they were.
CgCollects == CgOnlyGarbage /\ CgAllGarbage /\ CgCountsExact

-----------------------------------------------------------------------------
(* What is inductive.                                                       *)

CgFrames == [op : {"decrement", "restore", "live", "white", "release"}, obj : CgObjs, at : Nat \ {0}]

CgTypeOK ==
    /\ cg_fields \in CgHeaps /\ cg_outside \in [CgObjs -> Nat] /\ cg_traced \in CgClosed
    /\ cg_suspects \in Seq(cg_traced) /\ IsInjective(cg_suspects)
    /\ cg_strong \in [CgObjs -> Int]
    /\ cg_color \in [CgObjs -> {"black", "purple", "gray", "white"}]
    /\ cg_buffered \subseteq Range(cg_suspects) \/ cg_pc = "done"
    /\ cg_dead \subseteq CgObjs /\ cg_freed \in Seq(CgObjs) /\ cg_abort \in BOOLEAN
    /\ cg_pc \in {"mark", "scan", "scanned", "collect", "done"} /\ cg_at \in Nat \ {0}
    /\ cg_stack \in Seq(CgFrames)

\* A field that a frame has not visited yet, and an object with a frame.
CgPending(stack, op, r) == \E k \in DOMAIN stack : stack[k].op = op /\ stack[k].obj = r[1] /\ stack[k].at <= r[2]
CgFramed(stack, op, o) == \E k \in DOMAIN stack : stack[k].op = op /\ stack[k].obj = o
CgOneFrame(stack) == \A k, l \in DOMAIN stack : stack[k].obj = stack[l].obj => k = l

CgBefore(at) == {cg_suspects[k] : k \in {l \in DOMAIN cg_suspects : l < at}}
CgColored(color, c) == {o \in CgObjs : color[o] = c}
Base(o) == Cardinality(CgRefs(o) \ TracedRefs(o)) + cg_outside[o]

\* Marking: an object counts the references that were not tried yet.
CgTried(color, stack) == {r \in CgAllRefs : color[r[1]] = "gray" /\ ~CgPending(stack, "decrement", r)}
CgMarkInv ==
    /\ cg_traced = CgReach(Range(cg_suspects))
    /\ cg_dead = {} /\ cg_freed = <<>> /\ ~cg_abort
    /\ CgOneFrame(cg_stack)
    /\ \A k \in DOMAIN cg_stack : cg_stack[k].op = "decrement" /\ cg_color[cg_stack[k].obj] = "gray"
    /\ \A o \in CgObjs :
         /\ cg_color[o] = "gray" \/ cg_color[o] = IF o \in Range(cg_suspects) THEN "purple" ELSE "black"
         /\ Exact(o) > 0
         /\ cg_strong[o] = Exact(o) - Cardinality(CgRefs(o) \cap CgTried(cg_color, cg_stack))
    /\ \A r \in CgTried(cg_color, cg_stack) : cg_color[CgTarget(r)] = "gray"
    /\ CgBefore(cg_at) \subseteq CgColored(cg_color, "gray")
    /\ Range(cg_suspects) \ CgBefore(cg_at) \subseteq cg_buffered
    /\ CgColored(cg_color, "gray") \subseteq CgReach(CgBefore(cg_at) \cap cg_buffered)

\* Scanning: an object counts the references that do not come from traced
\* objects, and one when it was restored.
CgScanning(strong, color, stack) ==
    /\ \A o \in CgObjs \ cg_traced : color[o] = "black" /\ strong[o] = Exact(o)
    /\ \A o \in cg_traced :
         \/ color[o] = "gray" /\ strong[o] = Base(o)
         \/ color[o] = "white" /\ strong[o] = Base(o) /\ Base(o) = 0
         \/ color[o] = "black" /\ strong[o] = Base(o) + 1 /\ o \in CgHeld
    /\ \A k \in DOMAIN stack :
         /\ stack[k].obj \in cg_traced
         /\ \/ stack[k].op = "restore" /\ color[stack[k].obj] = "black"
            \/ stack[k].op = "live" /\ color[stack[k].obj] \in {"white", "black"}
    /\ \A r \in CgAllRefs : r[1] \in cg_traced =>
         /\ color[r[1]] = "black" => CgPending(stack, "restore", r) \/ color[CgTarget(r)] = "black"
         /\ color[r[1]] = "white" => CgPending(stack, "live", r) \/ color[CgTarget(r)] # "gray"
CgScanInv ==
    /\ cg_dead = {} /\ cg_freed = <<>> /\ ~cg_abort
    /\ CgScanning(cg_strong, cg_color, cg_stack)
    /\ cg_traced \subseteq CgReach(cg_buffered \cup (CgColored(cg_color, "black") \cap cg_traced))
    /\ CgBefore(cg_at) \cap cg_buffered \cap CgColored(cg_color, "gray") = {}
    /\ cg_pc = "scanned" => cg_at <= Len(cg_suspects) /\ cg_color[cg_suspects[cg_at]] # "gray"

\* Collecting: the garbage is white or was visited, and goes frame by frame.
CgGarbage == cg_traced \ CgHeld
CgColorInv ==
    /\ \A o \in CgObjs \ CgGarbage : cg_color[o] = "black"
    /\ \A o \in CgGarbage : cg_color[o] \in {"white", "black"} /\ cg_strong[o] = 0
    /\ \A r \in CgAllRefs : r[1] \in CgGarbage /\ cg_color[r[1]] = "black" =>
         CgPending(cg_stack, "white", r) \/ cg_color[CgTarget(r)] # "white"
    /\ \A o \in CgGarbage : cg_color[o] = "black" => CgFramed(cg_stack, "white", o) \/ o \in cg_dead
    /\ cg_traced \subseteq CgReach(cg_buffered \cup cg_dead \cup (CgHeld \cap cg_traced))
    /\ CgBefore(cg_at) \cap cg_buffered \cap CgColored(cg_color, "white") = {}
CgDescent(stack, k) ==
    k > 1 => stack[k - 1].op = "white" /\ <<stack[k - 1].obj, stack[k - 1].at - 1>> \in CgRefs(stack[k].obj)
CgFrameInv ==
    /\ CgOneFrame(cg_stack)
    /\ \A k \in DOMAIN cg_stack :
         LET o == cg_stack[k].obj
         IN /\ cg_color[o] = "black"
            /\ \/ cg_stack[k].op = "white" /\ o \in CgGarbage \ cg_dead /\ (k = 1 => o \in cg_buffered) /\ CgDescent(cg_stack, k)
               \/ cg_stack[k].op = "release" /\ o \in cg_dead \ Range(cg_freed)
    /\ \A o \in cg_dead : cg_color[o] = "black" /\ (CgFramed(cg_stack, "release", o) \/ o \in Range(cg_freed))
    /\ Range(cg_freed) \subseteq cg_dead /\ IsInjective(cg_freed)

\* Where no two traced references meet only garbage dies, and what stays lost
\* the references that were released.
CgReleased(dead, stack) == {r \in CgAllRefs : r[1] \in dead /\ ~CgPending(stack, "release", r)}
CgStart(o) == IF o \in cg_traced THEN Base(o) + 1 ELSE Exact(o)
CgKeptInv ==
    (\A o \in cg_traced : Cardinality(TracedRefs(o)) <= 1) =>
      /\ ~cg_abort /\ cg_dead \subseteq CgGarbage
      /\ \A o \in CgObjs \ CgGarbage :
           cg_strong[o] = CgStart(o) - Cardinality(CgRefs(o) \cap CgReleased(cg_dead, cg_stack))

CgInv ==
    /\ CgTypeOK
    /\ cg_pc = "mark" => CgMarkInv
    /\ cg_pc \in {"scan", "scanned"} => CgScanInv
    /\ cg_pc \in {"collect", "done"} => CgColorInv /\ CgFrameInv /\ CgKeptInv
    /\ cg_pc = "done" => cg_stack = <<>> /\ \A o \in CgGarbage : cg_color[o] = "black"
=============================================================================
