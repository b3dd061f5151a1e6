-------------------------------- MODULE MirOpt --------------------------------
(***************************************************************************)
(* The value passes of src/compiler/ir/mir_opt.c on the instructions of    *)
(* one block: mir_pass_constant_fold, mir_pass_copy_propagate,             *)
(* mir_pass_dead_code_eliminate and mir_pass_strength_reduce, repeated by  *)
(* mir_optimize_function until none changes anything.                      *)
(*                                                                         *)
(* An instruction is [op, res, a, b]; a constant has its immediate in a.   *)
(* "lt" stands for the six comparisons, "call" for the instructions with a *)
(* side effect, "vcall" for those whose operands value_used_in_inst knows  *)
(* and replace_value_in_inst does not (virtual calls, switches, struct     *)
(* operations).  Machine words are MoBits wide and signed.  Division is    *)
(* the truncating one of C.  The phis are in Mem2Reg and MirCfg.           *)
(***************************************************************************)
EXTENDS Integers, Sequences, FiniteSets, FiniteSetsExt, SequencesExt

CONSTANTS
    MoPrograms,   \* sequences of instructions
    MoParams,     \* value ids of the parameters
    MoInputs,     \* values of the parameters
    MoBits,       \* width of an integer
    MoMaxIter     \* max_iterations

NoVal == -1       \* MIR_VALUE_NONE
Arith == {"add", "sub", "mul", "div", "mod"}
Binary == Arith \cup {"lt", "shl", "band"}
Effects == {"call", "vcall", "ret"}

VARIABLES
    mo_orig,      \* the block before the passes
    mo_prog,      \* the block now
    mo_pc,        \* the pass that is next, or "done"
    mo_iter,      \* iterations begun
    mo_changed    \* total_changes # 0

moVars == <<mo_orig, mo_prog, mo_pc, mo_iter, mo_changed>>

MoInit ==
    /\ mo_orig \in MoPrograms /\ mo_prog = mo_orig
    /\ mo_pc = "fold" /\ mo_iter = 1 /\ mo_changed = FALSE

-----------------------------------------------------------------------------
(* Arithmetic.                                                              *)

Wrap(n) == ((n + 2 ^ (MoBits - 1)) % (2 ^ MoBits)) - 2 ^ (MoBits - 1)

Sign(n) == IF n < 0 THEN -1 ELSE 1
CDiv(l, r) == Sign(l) * Sign(r) * ((l * Sign(l)) \div (r * Sign(r)))
CMod(l, r) == l - r * CDiv(l, r)

\* x & m for a mask m = 2^n - 1, in two's complement.
BandMask(x, m) == x % (m + 1)

Compute(op, l, r) ==
    CASE op = "add" -> Wrap(l + r) [] op = "sub" -> Wrap(l - r) [] op = "mul" -> Wrap(l * r)
      [] op = "div" -> Wrap(CDiv(l, r)) [] op = "mod" -> CMod(l, r)
      [] op = "lt" -> IF l < r THEN 1 ELSE 0
      [] op = "shl" -> Wrap(l * 2 ^ r) [] op = "band" -> BandMask(l, r)

-----------------------------------------------------------------------------
(* Helpers.                                                                 *)

\* find_def gives a MIR_CONST_INT.
IsConst(p, v) == \E i \in DOMAIN p : p[i].res = v /\ p[i].op = "const"
ConstOf(p, v) == p[CHOOSE i \in DOMAIN p : p[i].res = v /\ p[i].op = "const"].a

Operands(inst) ==
    CASE inst.op \in Binary -> {inst.a, inst.b}
      [] inst.op \in {"copy"} \cup Effects -> {inst.a}
      [] OTHER -> {}

\* replace_value_in_inst: a vcall keeps its operand.
ReplaceIn(inst, old, new) ==
    [inst EXCEPT !.a = IF @ = old /\ inst.op \in Binary \cup {"copy", "call", "ret"} THEN new ELSE @,
                 !.b = IF @ = old /\ inst.op \in Binary THEN new ELSE @]

\* replace_all_uses.
ReplaceUses(p, old, new) ==
    FoldLeft(LAMBDA q, inst : Append(q, ReplaceIn(inst, old, new)), <<>>, p)

Const(inst, c) == [op |-> "const", res |-> inst.res, a |-> c, b |-> NoVal]
Nop(inst) == [inst EXCEPT !.op = "nop"]

-----------------------------------------------------------------------------
(* Constant folding.                                                        *)

\* x + 0, x - 0 and x * 1 are x.
IdentityOf(inst, c) == (inst.op \in {"add", "sub"} /\ c = 0) \/ (inst.op = "mul" /\ c = 1)

FoldInst(p, i) ==
    LET inst == p[i] IN
    IF inst.op \in Arith \cup {"lt"} /\ IsConst(p, inst.a) /\ IsConst(p, inst.b)
         /\ ~(inst.op \in {"div", "mod"} /\ ConstOf(p, inst.b) = 0)
      THEN LET c == Compute(inst.op, ConstOf(p, inst.a), ConstOf(p, inst.b))
           IN [p EXCEPT ![i] = IF inst.op = "lt" THEN [Const(inst, c) EXCEPT !.op = "bool"] ELSE Const(inst, c)]
    ELSE IF inst.op \in Arith /\ IsConst(p, inst.b)
      THEN IF IdentityOf(inst, ConstOf(p, inst.b)) THEN [ReplaceUses(p, inst.res, inst.a) EXCEPT ![i] = Nop(inst)]
           ELSE IF inst.op = "mul" /\ ConstOf(p, inst.b) = 0 THEN [p EXCEPT ![i] = Const(inst, 0)]
           ELSE p
    ELSE p

\* A pass in place over the instructions of a block.
Sweep(Visit(_, _), p) == FoldLeft(Visit, p, [i \in DOMAIN p |-> i])

CopyInst(p, i) == IF p[i].op = "copy" THEN ReplaceUses(p, p[i].res, p[i].a) ELSE p

-----------------------------------------------------------------------------
(* Dead code elimination and strength reduction.                            *)

Used(p, v) == \E i \in DOMAIN p : v \in Operands(p[i])

\* Mutation: what only an instruction without effects uses is dead.
IsDeadIndirect(p, inst) ==
    \/ inst.op = "nop"
    \/ inst.res # NoVal /\ inst.op \notin Effects
         /\ ~\E i \in DOMAIN p : p[i].op \in Effects /\ inst.res \in Operands(p[i])

IsDead(p, inst) ==
    \/ inst.op = "nop"
    \/ inst.res # NoVal /\ inst.op \notin Effects /\ ~Used(p, inst.res)

\* From the first instruction on, each is tested in what is left by then.
RECURSIVE Eliminate(_, _)
Eliminate(p, i) ==
    IF i > Len(p) THEN p
    ELSE IF IsDead(p, p[i]) THEN Eliminate(RemoveAt(p, i), i) ELSE Eliminate(p, i + 1)

FreshVal(p) == 1 + Max({p[i].res : i \in DOMAIN p} \cup MoParams \cup {0})

Log2(c) == CHOOSE n \in 0 .. MoBits : 2 ^ n = c
PowerOfTwo(c) == c \in {2 ^ n : n \in 0 .. MoBits}

\* x * 2^n is x << n, x % 2^n becomes x & (2^n - 1).
Reduced(inst, c) == IF inst.op = "mul" THEN <<"shl", Log2(c)>> ELSE <<"band", c - 1>>

RECURSIVE Strength(_, _)
Strength(p, i) ==
    IF i > Len(p) THEN p
    ELSE IF p[i].op \in {"mul", "mod"} /\ IsConst(p, p[i].b) /\ PowerOfTwo(ConstOf(p, p[i].b))
      THEN LET r == Reduced(p[i], ConstOf(p, p[i].b))
               fresh == [op |-> "const", res |-> FreshVal(p), a |-> r[2], b |-> NoVal]
               q == [p EXCEPT ![i] = [@ EXCEPT !.op = r[1], !.b = fresh.res]]
           IN Strength(InsertAt(q, i, fresh), i + 2)
    ELSE Strength(p, i + 1)

-----------------------------------------------------------------------------
(* The iteration.                                                           *)

\* A pass counts its changes; copies are counted whether or not used.
MoPass(pc, next, result, counts) ==
    /\ mo_pc = pc
    /\ mo_prog' = result /\ mo_changed' = (mo_changed \/ counts)
    /\ mo_pc' = next
    /\ UNCHANGED <<mo_orig, mo_iter>>

MoFold == MoPass("fold", "copy", Sweep(FoldInst, mo_prog), Sweep(FoldInst, mo_prog) # mo_prog)
MoCopy == MoPass("copy", "dce", Sweep(CopyInst, mo_prog), \E i \in DOMAIN mo_prog : mo_prog[i].op = "copy")
MoDce == MoPass("dce", "reduce", Eliminate(mo_prog, 1), Eliminate(mo_prog, 1) # mo_prog)
MoReduce == MoPass("reduce", "end", Strength(mo_prog, 1), Strength(mo_prog, 1) # mo_prog)

\* The end of an iteration: fixed point, bound, or once more.
MoIterate ==
    /\ mo_pc = "end"
    /\ IF mo_changed /\ mo_iter < MoMaxIter
         THEN mo_pc' = "fold" /\ mo_iter' = mo_iter + 1 /\ mo_changed' = FALSE
         ELSE mo_pc' = "done" /\ UNCHANGED <<mo_iter, mo_changed>>
    /\ UNCHANGED <<mo_orig, mo_prog>>

MoNext == MoFold \/ MoCopy \/ MoDce \/ MoReduce \/ MoIterate

MoSpec == MoInit /\ [][MoNext]_moVars

-----------------------------------------------------------------------------
(* What a block does: the values its side effects see, from a state of the  *)
(* values; "trap" is a division by zero, "undef" a value nothing defines.   *)

MoExec(p, input) ==
    LET Step(st, inst) ==
          LET v(x) == IF x \in DOMAIN st.env THEN st.env[x] ELSE 0
              Set(n) == [st EXCEPT !.env = [x \in DOMAIN @ \cup {inst.res} |-> IF x = inst.res THEN n ELSE @[x]]]
          IN IF st.end # "" THEN st
             ELSE IF \E x \in Operands(inst) : x \notin DOMAIN st.env THEN [st EXCEPT !.end = "undef"]
             ELSE IF inst.op \in {"const", "bool"} THEN Set(inst.a)
             ELSE IF inst.op = "copy" THEN Set(v(inst.a))
             ELSE IF inst.op \in Effects THEN [st EXCEPT !.out = Append(@, v(inst.a))]
             ELSE IF inst.op \in {"div", "mod"} /\ v(inst.b) = 0 THEN [st EXCEPT !.end = "trap"]
             ELSE IF inst.op \in Binary
               THEN [Set(Compute(inst.op, v(inst.a), v(inst.b))) EXCEPT
                       !.odd = @ \/ (inst.op = "mod" /\ v(inst.a) < 0 /\ PowerOfTwo(v(inst.b)))]
             ELSE st
    IN FoldLeft(Step, [env |-> [x \in MoParams |-> input], out |-> <<>>, end |-> "", odd |-> FALSE], p)

\* Wherever the block ran without a trap, the side effects of the optimized
\* block see the same values, after every pass.  Excepted: a negative
\* dividend of a modulus that is a power of two, where the mask gives the
\* non-negative residue, and blocks with a vcall, see MoDefined.
MoPreserved ==
    mo_prog # mo_orig => \A input \in MoInputs :
      LET before == MoExec(mo_orig, input)
          after == MoExec(mo_prog, input)
      IN (before.end = "" /\ ~before.odd /\ ~\E i \in DOMAIN mo_orig : mo_orig[i].op = "vcall")
           => after.end = "" /\ after.out = before.out

\* Every operand has its definition before it, also while instructions are
\* replaced and removed.  A vcall may lose the definition of its operand: it
\* is not among the instructions in which a use is replaced.
MoDefined ==
    \A j \in DOMAIN mo_prog : mo_prog[j].op \notin {"vcall", "nop"} =>
      \A v \in Operands(mo_prog[j]) :
        v \in MoParams \/ \E i \in 1 .. j - 1 : mo_prog[i].res = v /\ mo_prog[i].op # "nop"

\* The iteration ends at a fixed point and not at its bound: nothing dead
\* and no constant computation is left.  A copy that a vcall uses is counted
\* as a change for ever.
MoSettled ==
    mo_pc = "done" /\ ~(\E i \in DOMAIN mo_orig : mo_orig[i].op = "vcall") =>
      /\ ~mo_changed
      /\ Eliminate(Sweep(CopyInst, Sweep(FoldInst, mo_prog)), 1) = mo_prog

\* The value passes, in every round of mir_optimize_function: results stay,
\* operands stay defined, and at the end there is nothing left to do.
MoCorrect == MoPreserved /\ MoDefined /\ MoSettled
=============================================================================
