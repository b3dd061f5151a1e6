----------------------------- MODULE JitRegAlloc -----------------------------
(***************************************************************************)
(* The register allocator of the mini-JIT, jit_regalloc of                 *)
(* runtime/vm/jit_bridge.c: one pass over the instructions finds the live  *)
(* ranges, a linear scan over the ranges gives every value a register of   *)
(* the pool or a spill slot for its whole life.                            *)
(*                                                                         *)
(* The instructions are those of all blocks in the order of the list; of   *)
(* each the values it reads, the one it defines and the positions of the   *)
(* instructions that may be executed next are kept.  The allocator looks   *)
(* at the order of the list alone, the code is executed along the          *)
(* branches.  `active`, an array sorted by `last`, is a set of which the   *)
(* scan takes a maximum.                                                   *)
(***************************************************************************)
EXTENDS Integers, Sequences, FiniteSets

CONSTANTS
    JaValues,     \* value ids, natural numbers
    JaParams,     \* the parameters among them
    JaCodes,      \* functions: sequences of [reads |-> values, def |-> a value or JaNone,
                  \* next |-> positions]
    JaPool,       \* JIT_ALLOC_POOL_SIZE: the registers are 1 .. JaPool
    JaMaxSlots,   \* JIT_MAX_SPILL_SLOTS
    JaNone        \* MIR_VALUE_NONE

NoReg == 0        \* JIT_REG_NONE
NoSlot == -1
FirstUnset == -2  \* JRA_FIRST_UNSET

JaRegs == 1 .. JaPool

\* Position j may be executed after one of `from`, with none of `stop` executed
\* before it: it is in every set that holds `from` and, of its members outside
\* `stop`, the successors.
JaReaches(code, from, stop, j) ==
    \A S \in SUBSET DOMAIN code :
      from \subseteq S /\ (\A i \in S \ stop : code[i].next \subseteq S) => j \in S

JaDefs(code, v) == {i \in DOMAIN code : code[i].def = v}

\* A function is in SSA form: a value has one definition, and whatever way the
\* branches take from the entry, it is executed before the value is read.  The
\* order of the list is not restricted, as jit_function_is_supported does not
\* look at it.
JaWellFormed(code) ==
    /\ code \in Seq([reads : SUBSET JaValues, def : JaValues \cup {JaNone}, next : SUBSET (Nat \ {0})])
    /\ \A i \in DOMAIN code : code[i].next \subseteq DOMAIN code /\ code[i].def \notin JaParams
    /\ \A v \in JaValues : \A i, j \in JaDefs(code, v) : i = j
    /\ \A j \in DOMAIN code : \A v \in code[j].reads :
         v \in JaParams \/ ~JaReaches(code, {1}, JaDefs(code, v), j)

ASSUME JaAssumption ==
    /\ JaValues \subseteq Nat /\ JaParams \subseteq JaValues /\ JaNone \notin JaValues
    /\ JaPool \in Nat \ {0} /\ JaMaxSlots \in Nat
    /\ \A code \in JaCodes : JaWellFormed(code)

VARIABLES
    ja_code,               \* the function
    ja_pc,                 \* "ranges", "scan", "done"
    ja_idx,                \* index of the next instruction
    ja_used,               \* JitVReg.used
    ja_first, ja_last,     \* the live ranges
    ja_reg, ja_slot,       \* where the values live
    ja_todo,               \* the part of `order` that is left
    ja_free,               \* pool_free
    ja_active,             \* the values that hold a register now
    ja_slots,              \* n_spill_slots
    ja_ok                  \* the function is compiled

jaVars == <<ja_code, ja_pc, ja_idx, ja_used, ja_first, ja_last, ja_reg, ja_slot,
            ja_todo, ja_free, ja_active, ja_slots, ja_ok>>

JaInit ==
    /\ ja_code \in JaCodes /\ ja_pc = "ranges" /\ ja_idx = 0
    /\ ja_used = JaParams
    /\ ja_first = [v \in JaValues |-> IF v \in JaParams THEN -1 ELSE FirstUnset]
    /\ ja_last = [v \in JaValues |-> IF v \in JaParams THEN 0 ELSE -1]
    /\ ja_reg = [v \in JaValues |-> NoReg] /\ ja_slot = [v \in JaValues |-> NoSlot]
    /\ ja_todo = {} /\ ja_free = JaRegs /\ ja_active = {} /\ ja_slots = 0
    /\ ja_ok = FALSE

-----------------------------------------------------------------------------
(* Live ranges.  Instruction idx of the code is element idx + 1.            *)

JaInst == ja_code[ja_idx + 1]

\* Mutation: a use does not extend the range.
JaTouchedDef(v) == v = JaInst.def

\* jra_walk_operands with jra_use, jra_def: the values an instruction mentions.
JaTouched(v) == v \in JaInst.reads \/ v = JaInst.def

JaWalk ==
    /\ ja_pc = "ranges" /\ ja_idx < Len(ja_code)
    /\ ja_used' = {v \in JaValues : v \in ja_used \/ JaTouched(v)}
    /\ ja_last' = [v \in JaValues |->
                     IF JaTouched(v) /\ ja_idx > ja_last[v] THEN ja_idx ELSE ja_last[v]]
    /\ ja_first' = [v \in JaValues |->
                     IF v = JaInst.def /\ ja_first[v] = FirstUnset THEN ja_idx ELSE ja_first[v]]
    /\ ja_idx' = ja_idx + 1
    /\ UNCHANGED <<ja_code, ja_pc, ja_reg, ja_slot, ja_todo, ja_free, ja_active, ja_slots, ja_ok>>

\* The ordered list is built; a value never defined gets a point range.
JaSort ==
    /\ ja_pc = "ranges" /\ ja_idx = Len(ja_code)
    /\ ja_first' = [v \in JaValues |->
                     IF v \in ja_used /\ ja_first[v] = FirstUnset THEN ja_last[v] ELSE ja_first[v]]
    /\ ja_todo' = ja_used
    /\ ja_pc' = "scan"
    /\ UNCHANGED <<ja_code, ja_idx, ja_used, ja_last, ja_reg, ja_slot, ja_free, ja_active,
                   ja_slots, ja_ok>>

-----------------------------------------------------------------------------
(* The linear scan.                                                         *)

\* The insertion sort, by first, then last, and stable in the value id.
Before(v, u) ==
    \/ ja_first[v] < ja_first[u]
    \/ ja_first[v] = ja_first[u] /\ ja_last[v] < ja_last[u]
    \/ ja_first[v] = ja_first[u] /\ ja_last[v] = ja_last[u] /\ v <= u

JaIsNext(v) == v \in ja_todo /\ \A u \in ja_todo : Before(v, u)

\* The active values whose range ended before v's begins.
Expired(v) == {a \in ja_active : ja_last[a] < ja_first[v]}

StillActive(v) == ja_active \ Expired(v)
FreeFor(v) == ja_free \cup {ja_reg[a] : a \in Expired(v)}

\* The first free register of the pool.
JaTakeReg(v) ==
    /\ ja_pc = "scan" /\ JaIsNext(v)
    /\ \E r \in FreeFor(v) :
         /\ \A q \in FreeFor(v) : r <= q
         /\ ja_reg' = [ja_reg EXCEPT ![v] = r]
         /\ ja_free' = FreeFor(v) \ {r}
    /\ ja_active' = StillActive(v) \cup {v}
    /\ ja_todo' = ja_todo \ {v}
    /\ UNCHANGED <<ja_code, ja_pc, ja_idx, ja_used, ja_first, ja_last, ja_slot, ja_slots, ja_ok>>

JaFurthest(v, s) == s \in StillActive(v) /\ \A a \in StillActive(v) : ja_last[a] <= ja_last[s]

\* v takes the register of s, which moves to a slot for its whole life.
JaSpillRegs(v, s) == [ja_reg EXCEPT ![v] = ja_reg[s], ![s] = NoReg]

\* No register is free and the furthest active range ends after v's.
JaSpillActive(v) ==
    /\ ja_pc = "scan" /\ JaIsNext(v) /\ FreeFor(v) = {}
    /\ \E s \in ja_active :
         /\ JaFurthest(v, s) /\ ja_last[s] > ja_last[v]
         /\ ja_reg' = JaSpillRegs(v, s)
         /\ ja_slot' = [ja_slot EXCEPT ![s] = ja_slots]
         /\ ja_active' = (StillActive(v) \ {s}) \cup {v}
    /\ ja_free' = FreeFor(v)
    /\ ja_slots' = ja_slots + 1 /\ ja_todo' = ja_todo \ {v}
    /\ UNCHANGED <<ja_code, ja_pc, ja_idx, ja_used, ja_first, ja_last, ja_ok>>

\* No register is free and v's range ends last: v itself is spilled.
JaSpillNew(v) ==
    /\ ja_pc = "scan" /\ JaIsNext(v) /\ FreeFor(v) = {}
    /\ \A s \in StillActive(v) : ja_last[s] <= ja_last[v]
    /\ ja_slot' = [ja_slot EXCEPT ![v] = ja_slots]
    /\ ja_active' = StillActive(v) /\ ja_free' = FreeFor(v)
    /\ ja_slots' = ja_slots + 1 /\ ja_todo' = ja_todo \ {v}
    /\ UNCHANGED <<ja_code, ja_pc, ja_idx, ja_used, ja_first, ja_last, ja_reg, ja_ok>>

\* Too many slots: the function is left to the interpreter.
JaFinish ==
    /\ ja_pc = "scan" /\ ja_todo = {}
    /\ ja_pc' = "done" /\ ja_ok' = (ja_slots <= JaMaxSlots)
    /\ UNCHANGED <<ja_code, ja_idx, ja_used, ja_first, ja_last, ja_reg, ja_slot, ja_todo,
                   ja_free, ja_active, ja_slots>>

JaNext ==
    \/ JaWalk \/ JaSort \/ JaFinish
    \/ \E v \in JaValues : JaTakeReg(v) \/ JaSpillActive(v) \/ JaSpillNew(v)

JaSpec == JaInit /\ [][JaNext]_jaVars

-----------------------------------------------------------------------------

JaTypeOK ==
    /\ ja_code \in JaCodes /\ ja_pc \in {"ranges", "scan", "done"} /\ ja_idx \in Nat
    /\ ja_used \subseteq JaValues
    /\ ja_first \in [JaValues -> Int] /\ ja_last \in [JaValues -> Int]
    /\ ja_reg \in [JaValues -> JaRegs \cup {NoReg}] /\ ja_slot \in [JaValues -> Int]
    /\ ja_todo \subseteq JaValues /\ ja_free \subseteq JaRegs
    /\ ja_active \subseteq JaValues /\ ja_slots \in Nat /\ ja_ok \in BOOLEAN

JaDone == IF ja_pc = "ranges" THEN {} ELSE ja_used \ ja_todo

\* Values in one register have ranges that do not meet, at every moment of
\* the scan: also after a value gave up its register to a later one.
JaDisjoint ==
    \A v, w \in JaDone :
      (v # w /\ ja_reg[v] = ja_reg[w] /\ ja_reg[v] # NoReg) =>
        ja_last[v] < ja_first[w] \/ ja_last[w] < ja_first[v]

\* Every value has a register or a slot and not both, and no two share a slot.
JaPlaced ==
    /\ \A v \in JaDone : (ja_reg[v] = NoReg) <=> (ja_slot[v] # NoSlot)
    /\ \A v, w \in JaDone : v # w /\ ja_slot[v] # NoSlot => ja_slot[v] # ja_slot[w]

\* Every branch goes forward in the list: the "topological, no back-edges in the
\* v1 subset" order that jit_regalloc relies on and nothing checks.
JaForward(code) == \A i \in DOMAIN code : \A n \in code[i].next : i < n

\* In the code that is generated, no instruction writes the register of a value
\* that is read by it or by one that is executed later, on any way through the
\* branches on which the value is not defined again.  The exception is a
\* function whose blocks are not listed in the order of execution (jit_bridge.c:
\* 415): a loop, or an if inside an if, whose blocks mir_lower.c:1032 appends
\* after the outer merge block.  There a value read in the merge block may be
\* overwritten in the inner blocks.
JaNoClobber ==
    (ja_pc = "done" /\ JaForward(ja_code)) =>
      \A v, w \in JaValues : \A k, j \in DOMAIN ja_code :
        (/\ v # w /\ ja_reg[v] = ja_reg[w] /\ ja_reg[v] # NoReg
         /\ ja_code[k].def = w /\ v \in ja_code[j].reads
         /\ JaReaches(ja_code, {1}, {}, k))
           => ~JaReaches(ja_code, {k}, JaDefs(ja_code, v), j)

-----------------------------------------------------------------------------
(* The inductive invariant.                                                 *)

\* The ranges cover what was walked.
JaCovers ==
    /\ ja_idx <= Len(ja_code)
    /\ \A v \in JaValues : ja_pc = "ranges" => ja_first[v] < ja_idx
    /\ \A v \in JaParams : ja_first[v] = -1
    /\ \A i \in 1 .. ja_idx :
         /\ \A v \in ja_code[i].reads : v \in ja_used /\ i - 1 <= ja_last[v]
         /\ ja_code[i].def # JaNone =>
              /\ ja_code[i].def \in ja_used
              /\ ja_first[ja_code[i].def] <= i - 1 /\ i - 1 <= ja_last[ja_code[i].def]
              /\ ja_first[ja_code[i].def] # FirstUnset
    /\ ja_pc # "ranges" => ja_idx = Len(ja_code)

\* The scan: what holds a register is active or over for all that follow.
JaScanned ==
    /\ ja_pc = "ranges" => ja_active = {} /\ ja_todo = {} /\ ja_reg = [v \in JaValues |-> NoReg]
                             /\ ja_slot = [v \in JaValues |-> NoSlot]
    /\ ja_todo \subseteq ja_used /\ ja_active \subseteq JaDone
    /\ ja_pc = "done" => ja_todo = {}
    /\ \A v \in JaValues \ JaDone : ja_reg[v] = NoReg /\ ja_slot[v] = NoSlot
    /\ \A v \in JaDone, u \in ja_todo : ja_first[v] <= ja_first[u]
    /\ \A v \in ja_active : ja_reg[v] # NoReg /\ ja_reg[v] \notin ja_free
    /\ \A v, w \in ja_active : v # w => ja_reg[v] # ja_reg[w]
    /\ \A v \in JaDone \ ja_active, u \in ja_todo : ja_reg[v] # NoReg => ja_last[v] < ja_first[u]
    /\ \A v \in JaValues : ja_slot[v] < ja_slots

JaInv == JaTypeOK /\ JaCovers /\ JaScanned /\ JaDisjoint /\ JaPlaced

\* Safety of the allocator: at every step of the scan its invariant, and for
\* the code that is generated from it that no value is overwritten while it is
\* needed, where the blocks are listed in the order of execution.
JaSafe == JaInv /\ JaNoClobber
=============================================================================
