----------------------------- MODULE DropCodegen -----------------------------
(***************************************************************************)
(* Where the code generator releases reference-counted locals: the drop    *)
(* planner, src/compiler/sema/drop_planner.c, as src/compiler/codegen/     *)
(* asmgen.c drives it.  The function is chosen first; generating its code  *)
(* is one step; then the code is executed.                                 *)
(*                                                                         *)
(* Statements are records; conditions are not kept, so a branch goes       *)
(* either way.  An expression is the instruction that leaves its value in  *)
(* rax: a new object with one reference, a local with or without `move`,   *)
(* or 0.  Branches are blocks, as in the grammar.  Label names are paths   *)
(* in the tree.                                                            *)
(***************************************************************************)
EXTENDS Integers, Sequences, SequencesExt, FiniteSets

CONSTANTS
    DcFunctions, \* the functions: [params |-> names, body |-> a block statement]
    DcVars,      \* their parameters and locals of a reference-counted type
    DcMaxNew     \* bound: objects in one execution

ASSUME DcMaxNewAssumption == DcMaxNew \in Nat

\* What a stack slot holds before the first store to it.
Garbage == -1

VARIABLES
    dc_fun, dc_code,    \* the function and its code, <<>> before generation
    dc_pc,              \* index into the code; 0 once it has returned
    dc_rax,             \* the value of the last expression, then the result
    dc_slot,            \* stack slots: an object, 0 or Garbage
    dc_made,            \* objects: 1 .. dc_made, the arguments first
    dc_released,        \* how often arc_release was called on an object
    \* History: objects of scopes that a jump left without drops, and objects
    \* of which more or fewer than one slot is the owner.
    dc_skipped, dc_unowned

dcVars == <<dc_fun, dc_code, dc_pc, dc_rax, dc_slot, dc_made, dc_released, dc_skipped, dc_unowned>>

\* A parameter holds an argument, which the caller may have kept for itself.
DcInit ==
    /\ dc_fun \in DcFunctions /\ dc_code = <<>>
    /\ dc_pc = 1 /\ dc_rax = 0 /\ dc_made = Len(dc_fun.params)
    /\ dc_slot = [v \in DcVars |->
                    IF Contains(dc_fun.params, v) THEN CHOOSE i \in 1 .. dc_made : dc_fun.params[i] = v
                    ELSE Garbage]
    /\ dc_released = [o \in 1 .. DcMaxNew |-> 0]
    /\ dc_skipped = {} /\ dc_unowned \in SUBSET (1 .. dc_made)

-----------------------------------------------------------------------------
(* The planner: entries in the order of declaration with their scope_level, *)
(* scope_start of every open scope, and the labels of the open loops.       *)

DcPlanner == [entries |-> <<>>, start |-> <<>>, loops |-> <<>>]
CurrentScope(dp) == Len(dp.start)

EnterScope(dp) == [dp EXCEPT !.start = Append(@, Len(dp.entries))]

\* Mutation: the entries of the scope stay.
ExitScopeKeeps(dp) == [dp EXCEPT !.start = Front(@)]

ExitScope(dp) == [dp EXCEPT !.entries = SubSeq(@, 1, Last(dp.start)), !.start = Front(@)]

Register(dp, v) == [dp EXCEPT !.entries = Append(@, [v |-> v, scope_level |-> CurrentScope(dp)])]

DropsOf(entries) == [i \in DOMAIN entries |-> [op |-> "drop", v |-> Reverse(entries)[i].v]]

\* drop_planner_get_scope_drops: the current scope, last declared first.
ScopeDrops(dp) == DropsOf(SubSeq(dp.entries, Last(dp.start) + 1, Len(dp.entries)))

\* drop_planner_get_drops_to_scope(dp, 0): every open scope.
DropsToRoot(dp) == DropsOf(dp.entries)

\* The open entries of a name: alloc_local gives them all one stack slot.
Entries(dp, v) == {i \in DOMAIN dp.entries : dp.entries[i].v = v}

\* The locals of the scopes between the current one and the innermost loop.
SkippedBy(dp) ==
    {dp.entries[i].v : i \in {j \in DOMAIN dp.entries :
        dp.entries[j].scope_level \in Last(dp.loops).depth + 1 .. CurrentScope(dp) - 1}}

-----------------------------------------------------------------------------
(* generate_asm_stmt: the planner and the code that is emitted.             *)

Label(path, name) == [op |-> "label", at |-> <<path, name>>]
Jmp(path, name) == [op |-> "jmp", at |-> <<path, name>>, skips |-> {}]
Jz(path, name) == [op |-> "jz", at |-> <<path, name>>]
DcResult(dp, code) == [dp |-> dp, code |-> code]

InLoop(dp, path, again) ==
    [dp EXCEPT !.loops = Append(@, [depth |-> CurrentScope(dp),
                                    again |-> <<path, again>>, end |-> <<path, "end">>])]

\* break and continue drop the current scope before the jump.
LeaveLoop(dp, target) ==
    DcResult(dp, Append(ScopeDrops(dp), [op |-> "jmp", at |-> target, skips |-> SkippedBy(dp)]))

RECURSIVE GenStmt(_, _, _)

GenBlock(s, dp, path) ==
    LET inner == FoldLeft(LAMBDA acc, i :
            LET r == GenStmt(s.body[i], acc.dp, Append(path, i))
            IN DcResult(r.dp, acc.code \o r.code),
          DcResult(EnterScope(dp), <<>>), [i \in DOMAIN s.body |-> i])
    IN DcResult(ExitScope(inner.dp), inner.code \o ScopeDrops(inner.dp))

GenIf(s, dp, path) ==
    LET then == GenStmt(s.then, dp, Append(path, 1))
        else == GenStmt(s.else, then.dp, Append(path, 2))
    IN DcResult(else.dp, <<Jz(path, "else")>> \o then.code \o <<Jmp(path, "end"), Label(path, "else")>>
                         \o else.code \o <<Label(path, "end")>>)

GenWhile(s, dp, path) ==
    LET body == GenStmt(s.body, InLoop(dp, path, "loop"), Append(path, 1))
    IN DcResult([body.dp EXCEPT !.loops = Front(@)],
                <<Label(path, "loop"), Jz(path, "end")>> \o body.code
                  \o <<Jmp(path, "loop"), Label(path, "end")>>)

GenFor(s, dp, path) ==
    LET body == GenStmt(s.body, InLoop(EnterScope(dp), path, "continue"), Append(path, 1))
    IN DcResult(ExitScope([body.dp EXCEPT !.loops = Front(@)]),
                <<Label(path, "loop"), Jz(path, "end")>> \o body.code
                  \o <<Label(path, "continue"), Jmp(path, "loop"), Label(path, "end")>>
                  \o ScopeDrops(body.dp))

\* The value is evaluated and kept in rax across the drops of every open scope.
GenReturn(s, dp) == DcResult(dp, <<s.e>> \o DropsToRoot(dp) \o <<[op |-> "ret"]>>)

\* The value is stored as it is, without a retain.
GenDecl(s, dp) ==
    DcResult(Register(dp, s.v), <<s.e, [op |-> "store", v |-> s.v, names |-> Cardinality(Entries(dp, s.v)) + 1]>>)

\* The old value is overwritten without a release.
GenAssign(s, dp) ==
    DcResult(dp, <<s.e, [op |-> "assign", v |-> s.v, names |-> Cardinality(Entries(dp, s.v))]>>)

GenStmt(s, dp, path) ==
    CASE s.k = "decl" -> GenDecl(s, dp)
      [] s.k = "assign" -> GenAssign(s, dp)
      [] s.k = "block" -> GenBlock(s, dp, path)
      [] s.k = "if" -> GenIf(s, dp, path)
      [] s.k = "while" -> GenWhile(s, dp, path)
      [] s.k = "for" -> GenFor(s, dp, path)
      [] s.k = "break" -> LeaveLoop(dp, Last(dp.loops).end)
      [] s.k = "continue" -> LeaveLoop(dp, Last(dp.loops).again)
      [] s.k = "return" -> GenReturn(s, dp)

\* generate_asm_function: a parameter is registered like a local, the planner
\* never tests is_param.  A function that ends without a return is void.
GenFunction ==
    LET params == FoldLeft(Register, EnterScope(DcPlanner), dc_fun.params)
        body == GenStmt(dc_fun.body, params, <<>>)
    IN body.code \o ScopeDrops(body.dp) \o <<[op |-> "zero"], [op |-> "ret"]>>

DcGenerate ==
    /\ dc_code = <<>>
    /\ dc_code' = GenFunction
    /\ UNCHANGED <<dc_fun, dc_pc, dc_rax, dc_slot, dc_made, dc_released, dc_skipped, dc_unowned>>

-----------------------------------------------------------------------------
(* Execution.                                                               *)

DcAt(op) == dc_code # <<>> /\ dc_pc > 0 /\ dc_code[dc_pc].op = op
DcInst == dc_code[dc_pc]
DcTarget(label) == CHOOSE i \in DOMAIN dc_code : dc_code[i] = [op |-> "label", at |-> label]

\* An instruction that only changes rax and falls through.
DcValue(value) ==
    /\ dc_rax' = value
    /\ dc_pc' = dc_pc + 1
    /\ UNCHANGED <<dc_fun, dc_code, dc_released, dc_skipped>>

DcNew ==
    /\ DcAt("new") /\ dc_made < DcMaxNew
    /\ dc_made' = dc_made + 1
    /\ DcValue(dc_made + 1)
    /\ UNCHANGED <<dc_slot, dc_unowned>>

DcZero ==
    /\ DcAt("zero")
    /\ DcValue(0)
    /\ UNCHANGED <<dc_slot, dc_made, dc_unowned>>

\* A variable is loaded without a retain; `move` sets its slot to 0.
DcLoad ==
    /\ DcAt("load")
    /\ DcValue(dc_slot[DcInst.from])
    /\ \/ DcInst.moves /\ dc_slot' = [dc_slot EXCEPT ![DcInst.from] = 0] /\ UNCHANGED dc_unowned
       \/ ~DcInst.moves /\ dc_unowned' = dc_unowned \cup {dc_slot[DcInst.from]} /\ UNCHANGED dc_slot
    /\ UNCHANGED dc_made

\* Where two open entries share the slot, both their drops release what it holds.
DcSetSlot(lost) ==
    /\ dc_slot' = [dc_slot EXCEPT ![DcInst.v] = dc_rax]
    /\ dc_unowned' = dc_unowned \cup lost \cup (IF DcInst.names > 1 THEN {dc_rax} ELSE {})
    /\ dc_pc' = dc_pc + 1
    /\ UNCHANGED <<dc_fun, dc_code, dc_rax, dc_made, dc_released, dc_skipped>>

DcStore == DcAt("store") /\ DcSetSlot(IF DcInst.names > 1 THEN {dc_slot[DcInst.v]} ELSE {})

DcAssign == DcAt("assign") /\ DcSetSlot({dc_slot[DcInst.v]})

\* emit_scope_drops: arc_release unless the slot is 0; the slot stays.
DcDrop ==
    /\ DcAt("drop")
    /\ dc_released' = [o \in 1 .. DcMaxNew |->
                         IF o = dc_slot[DcInst.v] THEN dc_released[o] + 1 ELSE dc_released[o]]
    /\ dc_pc' = dc_pc + 1
    /\ UNCHANGED <<dc_fun, dc_code, dc_rax, dc_slot, dc_made, dc_skipped, dc_unowned>>

\* A label, a jump, or a condition that goes either way.
DcJump ==
    /\ \/ (DcAt("label") \/ DcAt("jz")) /\ dc_pc' = dc_pc + 1
       \/ (DcAt("jmp") \/ DcAt("jz")) /\ dc_pc' = DcTarget(DcInst.at)
    /\ dc_skipped' = IF DcAt("jmp") THEN dc_skipped \cup {dc_slot[v] : v \in DcInst.skips}
                     ELSE dc_skipped
    /\ UNCHANGED <<dc_fun, dc_code, dc_rax, dc_slot, dc_made, dc_released, dc_unowned>>

DcReturn ==
    /\ DcAt("ret")
    /\ dc_pc' = 0
    /\ UNCHANGED <<dc_fun, dc_code, dc_rax, dc_slot, dc_made, dc_released, dc_skipped, dc_unowned>>

DcNext == DcGenerate \/ DcNew \/ DcZero \/ DcLoad \/ DcStore \/ DcAssign \/ DcDrop \/ DcJump \/ DcReturn
DcSpec == DcInit /\ [][DcNext]_dcVars

-----------------------------------------------------------------------------
(* Properties.                                                              *)

\* The objects of which one slot at a time is the owner: made here or passed
\* with `move`, and from then on only moved.  The others are the exceptions, for
\* which the generated code is wrong: an object that is copied to another local
\* or returned without `move` is not retained (asmgen.c:1894, 2246) and an
\* argument that the caller keeps is released by both (2213); one that an
\* assignment overwrites is never released (1924); a local that hides one of
\* an outer scope shares its slot (331), and the object in it is released twice.
DcOwned == 1 .. dc_made \ dc_unowned

\* How often the function gave its reference away, by a release or as result.
DcGivenUp(o) == dc_released[o] + (IF dc_pc = 0 /\ dc_rax = o THEN 1 ELSE 0)

\* No such object is released twice or returned after its release, whichever
\* way scopes are left, although the slots of a loop's locals keep the pointers
\* of the last iteration.
DcGivenUpOnce == \A o \in DcOwned : DcGivenUp(o) <= 1

\* Once the function has returned, each of them was released or returned, except
\* those of scopes that a break or a continue jumps out of beside the innermost
\* one: it drops the current scope only (asmgen.c:2704).
DcAllGivenUp == dc_pc = 0 => \A o \in DcOwned \ dc_skipped : DcGivenUp(o) = 1

\* A release never takes a slot that was not stored to: the frame is not cleared
\* (asmgen.c:454), and the planner knows a local only where its declaration was
\* executed.
DcSlotsSet == DcAt("drop") => dc_slot[DcInst.v] # Garbage

\* The releases that the generator emits are exact, on every path of the
\* function, for the objects that have one owner.
DcDropsExact == DcGivenUpOnce /\ DcAllGivenUp /\ DcSlotsSet
=============================================================================
