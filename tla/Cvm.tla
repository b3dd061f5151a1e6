--------------------------------- MODULE Cvm ---------------------------------
(***************************************************************************)
(* cvm_engine.c: the interpreter of MIR that --execute runs, after the      *)
(* lowering and the verification of the module.                             *)
(*                                                                         *)
(* The state of the machine is a record: the frames (the function, its       *)
(* registers, the place in its code, the memory of its allocas), memory as a *)
(* function of addresses, what has been printed, and trap_code.  Crashed is  *)
(* the trap_code of a process that has been ended by a bad access.           *)
(*                                                                         *)
(* The instructions up to the next one that leaves the block or calls are    *)
(* one step: nothing else runs meanwhile.  Left out: the tiers of the JIT    *)
(* compiler (the machine without a CvmJitBridge), phis, which mem2reg        *)
(* introduces, switches and vectors, which the lowering does not, and        *)
(* exhausted memory.  Values stay far below 2^63.                            *)
(***************************************************************************)
EXTENDS Lowering

CONSTANT CvMaxDepth       \* CVM_MAX_CALL_DEPTH

ASSUME CvAssumption == CvMaxDepth \in Nat \ {0}

VARIABLE cv               \* the CvmState

cvVars == <<lwVars, cv>>

NullTrap == 3
DepthTrap == 2
Crashed == 9

-----------------------------------------------------------------------------
(* Registers and memory.                                                    *)

Frame(vm) == Last(vm.frames)
Code(vm) == lw_mod.mod[Frame(vm).fn].blocks[Frame(vm).block]
Here(vm) == Code(vm)[Frame(vm).ip]

Reg(vm, id) == IF id = NoValue THEN 0 ELSE Frame(vm).regs[id]
SetReg(vm, id, v) == IF id = NoValue THEN vm ELSE [vm EXCEPT !.frames[Len(vm.frames)].regs[id] = v]
Advance(vm) == [vm EXCEPT !.frames[Len(vm.frames)].ip = @ + 1]
Trap(vm, code) == [vm EXCEPT !.trap = code]

\* n cells that are zero, at an address that was never used.
Cells(vm, n) == [vm EXCEPT !.mem = [a \in DOMAIN vm.mem \cup vm.next .. vm.next + n - 1 |->
                                      IF a < vm.next THEN vm.mem[a] ELSE 0],
                           !.next = @ + n]

\* Quotient and remainder of C, and 0 for a division by 0.
Quotient(a, b) == LET q == (IF a < 0 THEN -a ELSE a) \div (IF b < 0 THEN -b ELSE b) IN IF (a < 0) = (b < 0) THEN q ELSE -q
SafeDiv(a, b) == IF b = 0 THEN 0 ELSE Quotient(a, b)
SafeMod(a, b) == IF b = 0 THEN 0 ELSE a - b * Quotient(a, b)
Flag(p) == IF p THEN 1 ELSE 0

BinaryValue(op, a, b) ==
    CASE op = "+" -> a + b
      [] op = "-" -> a - b
      [] op = "*" -> a * b
      [] op = "/" -> SafeDiv(a, b)
      [] op = "%" -> SafeMod(a, b)
      [] op = "==" -> Flag(a = b)
      [] op = "!=" -> Flag(a # b)
      [] op = "<" -> Flag(a < b)
      [] op = "<=" -> Flag(a <= b)
      [] op = ">" -> Flag(a > b)
      [] op = ">=" -> Flag(a >= b)

BinaryOps == IntegerOps \cup Comparisons

ExecLoad(vm, i, ptr) ==
    CASE ptr = 0 -> Trap(vm, NullTrap)
      [] ptr # 0 /\ ptr \in DOMAIN vm.mem -> SetReg(vm, i.res, vm.mem[ptr])
      [] OTHER -> Trap(vm, Crashed)

ExecStore(vm, ptr, v) ==
    CASE ptr = 0 -> vm
      [] ptr # 0 /\ ptr \in DOMAIN vm.mem -> [vm EXCEPT !.mem[ptr] = v]
      [] OTHER -> Trap(vm, Crashed)

\* An alloca belongs to its frame, an object to the machine.
ExecAlloca(vm, i) ==
    [SetReg(Cells(vm, 1), i.res, vm.next) EXCEPT !.frames[Len(vm.frames)].allocas = @ \cup {vm.next}]
ExecObjAlloc(vm, i) == SetReg(Cells(vm, i.args[1]), i.res, vm.next)

\* The source of a move is cleared.
ExecMove(vm, i) == SetReg(SetReg(vm, i.res, Reg(vm, i.args[1])), i.args[1], 0)

\* The address of a global and the value of a function are not computed: the
\* register keeps what it held.
ExecInst(vm, i) ==
    CASE i.op = "const" -> SetReg(vm, i.res, i.args[1])
      [] i.op \in BinaryOps -> SetReg(vm, i.res, BinaryValue(i.op, Reg(vm, i.args[1]), Reg(vm, i.args[2])))
      [] i.op = "neg" -> SetReg(vm, i.res, -Reg(vm, i.args[1]))
      [] i.op = "bnot" -> SetReg(vm, i.res, -Reg(vm, i.args[1]) - 1)
      [] i.op = "alloca" -> ExecAlloca(vm, i)
      [] i.op = "objalloc" -> ExecObjAlloc(vm, i)
      [] i.op = "load" -> ExecLoad(vm, i, Reg(vm, i.args[1]))
      [] i.op = "store" -> ExecStore(vm, Reg(vm, i.args[1]), Reg(vm, i.args[2]))
      [] i.op = "fieldptr" -> SetReg(vm, i.res, Reg(vm, i.args[1]) + i.args[2])
      [] i.op = "borrow" -> SetReg(vm, i.res, Reg(vm, i.args[1]))
      [] i.op = "move" -> ExecMove(vm, i)
      [] i.op \in {"constfunc", "globaladdr"} -> vm

LeavesBlock == Terminators \cup {"call", "callindirect"}
RECURSIVE RunStraight(_)
RunStraight(vm) ==
    IF vm.trap # 0 \/ Here(vm).op \in LeavesBlock THEN vm ELSE RunStraight(Advance(ExecInst(vm, Here(vm))))

-----------------------------------------------------------------------------
(* Calls.                                                                   *)

NewFrame(f, args) ==
    LET types == lw_mod.mod[f].types
    IN [fn |-> f, block |-> 1, ip |-> 1, allocas |-> {},
        regs |-> [r \in DOMAIN types |-> IF r <= lw_mod.mod[f].params /\ r <= Len(args) THEN args[r] ELSE 0]]

\* cvm_exec_function: the frame is pushed, and popped again when it is one too
\* many.
PushFrame(vm, f, args) ==
    IF Len(vm.frames) + 1 > CvMaxDepth THEN Trap(vm, DepthTrap) ELSE [vm EXCEPT !.frames = Append(@, NewFrame(f, args))]

PopFrame(vm) ==
    [vm EXCEPT !.frames = Front(@), !.mem = [a \in DOMAIN vm.mem \ Frame(vm).allocas |-> vm.mem[a]]]

PrintValue(type, v) == <<type, IF type = "bool" THEN Flag(v # 0) ELSE v>>

\* A function without code is entered like any other.
DispatchCall(vm, i, name, args) ==
    CASE name[1] = "print" -> Advance([vm EXCEPT !.out = Append(@, PrintValue(name[2], args[1]))])
      [] name[1] # "print" /\ name \notin DOMAIN lw_mod.mod -> Advance(SetReg(vm, i.res, 0))
      [] name[1] # "print" /\ name \in DOMAIN lw_mod.mod /\ lw_mod.mod[name].extern -> Trap(vm, Crashed)
      [] OTHER -> PushFrame(vm, name, args)

Entry == IF <<"main">> \in DOMAIN lw_mod.mod THEN <<"main">> ELSE EntryName

-----------------------------------------------------------------------------
(* Steps.                                                                   *)

CvInit == LwInit /\ cv = [frames |-> <<>>, mem |-> <<>>, next |-> 1, out |-> <<>>, trap |-> 0, ret |-> 0]

\* cvm_run
CvStart ==
    /\ lw_pc = "ready" /\ Entry \in DOMAIN lw_mod.mod
    /\ cv' = [cv EXCEPT !.frames = <<NewFrame(Entry, <<>>)>>]
    /\ lw_pc' = "run"
    /\ UNCHANGED <<lw_prog, lw_optimize, lw_mod>>

CvNoEntry ==
    /\ lw_pc = "ready" /\ Entry \notin DOMAIN lw_mod.mod
    /\ lw_mod' = [lw_mod EXCEPT !.errors = {"entry"}]
    /\ lw_pc' = "rejected"
    /\ UNCHANGED <<lw_prog, lw_optimize, cv>>

CvRunning == lw_pc = "run" /\ cv.trap = 0

CvStraight ==
    /\ CvRunning /\ Here(cv).op \notin LeavesBlock
    /\ cv' = RunStraight(cv)
    /\ UNCHANGED lwVars

CvBranch ==
    /\ CvRunning
    /\ LET i == Here(cv)
           to == IF i.op = "br" THEN i.args[1] ELSE IF Reg(cv, i.args[1]) # 0 THEN i.args[2] ELSE i.args[3]
       IN i.op \in {"br", "condbr"} /\ cv' = [cv EXCEPT !.frames[Len(cv.frames)].block = to, !.frames[Len(cv.frames)].ip = 1]
    /\ UNCHANGED lwVars

\* An indirect call carries no name: it is not resolved.
CvCall ==
    /\ CvRunning
    /\ LET i == Here(cv)
           args == [a \in DOMAIN i.args[2] |-> Reg(cv, i.args[2][a])]
       IN \/ i.op = "call" /\ cv' = DispatchCall(cv, i, i.args[1], args)
          \/ i.op = "callindirect" /\ cv' = Advance(SetReg(cv, i.res, 0))
    /\ UNCHANGED lwVars

CvReturn ==
    /\ CvRunning /\ Here(cv).op \in {"ret", "retvoid"}
    /\ LET v == IF Here(cv).op = "ret" THEN Reg(cv, Here(cv).args[1]) ELSE 0
           back == PopFrame(cv)
       IN IF back.frames = <<>> THEN cv' = [back EXCEPT !.ret = v] /\ lw_pc' = "done"
          ELSE cv' = Advance(SetReg(back, Here(back).res, v)) /\ lw_pc' = lw_pc
    /\ UNCHANGED <<lw_prog, lw_optimize, lw_mod>>

\* trap_code ends one frame after the other, a bad access the process.
CvTrapped ==
    /\ lw_pc = "run" /\ cv.trap # 0
    /\ cv' = PopFrame(cv)
    /\ lw_pc' = IF Len(cv.frames) = 1 \/ cv.trap = Crashed THEN "done" ELSE "run"
    /\ UNCHANGED <<lw_prog, lw_optimize, lw_mod>>

CvNext == (Lower /\ UNCHANGED cv) \/ (Verify /\ UNCHANGED cv) \/ CvStart \/ CvNoEntry \/ CvStraight \/ CvBranch \/ CvCall \/ CvReturn \/ CvTrapped
CvSpec == CvInit /\ [][CvNext]_cvVars

-----------------------------------------------------------------------------
(* What the source says: statements executed in their order, with a scope    *)
(* for every block.  Of what lw_mod.odd marks only && and || and the arms of *)
(* a match have a meaning here.                                              *)

RECURSIVE EvalNode(_, _)

Bound(s, x) == CHOOSE i \in DOMAIN s.env : s.env[i][1] = x /\ \A j \in i + 1 .. Len(s.env) : s.env[j][1] # x
Bind(s, x, v) == [s EXCEPT !.env = Append(@, <<x, v>>)]
ScopeOf(s, t) == [t EXCEPT !.env = SubSeq(@, 1, Len(s.env))]
Valued(s, v) == [s EXCEPT !.val = v]

RECURSIVE EvalArgs(_, _, _)
EvalArgs(s, args, vals) ==
    IF args = <<>> THEN Valued(s, vals)
    ELSE LET a == EvalNode(s, Head(args)) IN EvalArgs(a, Tail(args), Append(vals, a.val))

\* A body with its parameters bound, in a frame of its own.
EvalCall(s, params, vals, body) ==
    LET f == [s EXCEPT !.env = [i \in DOMAIN params |-> <<params[i][1], vals[i]>>], !.depth = @ + 1,
                       !.peak = IF s.depth + 1 > @ THEN s.depth + 1 ELSE @]
        t == EvalNode(f, body)
    IN [t EXCEPT !.env = s.env, !.depth = s.depth, !.flow = "next", !.val = IF t.flow = "return" THEN @ ELSE 0]

EvalMethod(s, class, m, vals) ==
    LET d == CHOOSE k \in ToSet(ClassMethods(class)) : k.name = m
    IN EvalCall(s, <<<<"this", "ptr">>>> \o d.params, vals, d.body)

EvalNew(s, class, args) ==
    LET o == [s EXCEPT !.heap = Append(@, [i \in DOMAIN TopNamed({"class"}, class)[3] |-> 0])]
        a == EvalArgs(o, args, <<Len(o.heap)>>)
    IN IF Constructor(class) = Absent THEN Valued(o, Len(o.heap))
       ELSE Valued(EvalMethod(a, class, Constructor(class)[1], a.val), Len(o.heap))

EvalBinary(s, op, l, r) ==
    LET a == EvalNode(s, l)
        b == EvalNode(a, r)
    IN IF (op = "&&" /\ a.val = 0) \/ (op = "||" /\ a.val # 0) THEN a
       ELSE IF op \in {"&&", "||"} THEN b ELSE Valued(b, BinaryValue(op, a.val, b.val))

EvalExpr(s, e) ==
    CASE e[1] \in {"lit", "bool"} -> Valued(s, e[2])
      [] e[1] \in {"var", "moved"} -> Valued(s, s.env[Bound(s, e[2])][2])
      [] e[1] = "this" -> Valued(s, s.env[Bound(s, "this")][2])
      [] e[1] = "bin" -> EvalBinary(s, e[2], e[3], e[4])
      [] e[1] = "un" -> LET a == EvalNode(s, e[3]) IN IF e[2] = "-" THEN Valued(a, -a.val) ELSE a
      [] e[1] = "call" -> LET a == EvalArgs(s, e[3], <<>>)
                              f == TopNamed({"func"}, e[2])
                          IN EvalCall(a, f[3], a.val, f[5])
      [] e[1] = "method" -> LET o == EvalNode(s, e[2])
                                a == EvalArgs(o, e[5], <<o.val>>)
                            IN EvalMethod(a, e[3], e[4], a.val)
      [] e[1] = "field" -> LET o == EvalNode(s, e[2]) IN Valued(o, o.heap[o.val][FieldIndex(e[3], e[4])])
      [] e[1] = "new" -> EvalNew(s, e[2], e[3])
      [] e[1] = "lambda" -> s

RECURSIVE EvalBlock(_, _)
EvalBlock(s, stmts) ==
    IF stmts = <<>> \/ s.flow # "next" THEN s ELSE EvalBlock(EvalNode(s, Head(stmts)), Tail(stmts))

RECURSIVE EvalLoop(_, _, _, _)
EvalLoop(s, cond, body, inc) ==
    LET c == IF cond = Absent THEN Valued(s, 1) ELSE EvalNode(s, cond)
        b == EvalNode(c, body)
    IN CASE c.val = 0 -> c
         [] c.val # 0 /\ b.flow = "break" -> [b EXCEPT !.flow = "next"]
         [] c.val # 0 /\ b.flow = "return" -> b
         [] OTHER -> EvalLoop(EvalNode([b EXCEPT !.flow = "next"], inc), cond, body, inc)

\* The first arm that has no pattern or is equal to the subject.
RECURSIVE EvalArms(_, _, _)
EvalArms(s, subject, arms) ==
    IF arms = <<>> THEN s
    ELSE LET p == IF Head(arms)[1] = Absent THEN Valued(s, subject) ELSE EvalNode(s, Head(arms)[1])
         IN IF p.val = subject THEN EvalNode(p, Head(arms)[2]) ELSE EvalArms(p, subject, Tail(arms))

EvalAssign(s, target, e) ==
    IF target[1] = "field"
    THEN LET o == EvalNode(s, target[2])
             v == EvalNode(o, e)
         IN [v EXCEPT !.heap[o.val][FieldIndex(target[3], target[4])] = v.val]
    ELSE LET v == EvalNode(s, e) IN [v EXCEPT !.env[Bound(v, target[2])] = <<target[2], v.val>>]

EvalStmt(s, st) ==
    CASE st[1] \in {"absent", "func"} -> s
      [] st[1] = "let" -> LET v == IF st[4] = Absent THEN Valued(s, 0) ELSE EvalNode(s, st[4]) IN Bind(v, st[2], v.val)
      [] st[1] = "assign" -> EvalAssign(s, st[2], st[3])
      [] st[1] = "if" -> LET c == EvalNode(s, st[2]) IN EvalNode(c, IF c.val # 0 THEN st[3] ELSE st[4])
      [] st[1] = "while" -> EvalLoop(s, st[2], st[3], Absent)
      [] st[1] = "for" -> LET i == EvalNode(s, st[3]) IN ScopeOf(s, EvalLoop(Bind(i, st[2], i.val), st[4], st[6], st[5]))
      [] st[1] = "match" -> LET v == EvalNode(s, st[2]) IN EvalArms(v, v.val, st[3])
      [] st[1] = "return" -> [IF st[2] = Absent THEN Valued(s, 0) ELSE EvalNode(s, st[2]) EXCEPT !.flow = "return"]
      [] st[1] \in {"break", "continue"} -> [s EXCEPT !.flow = st[1]]
      [] st[1] = "print" -> LET v == EvalNode(s, st[3]) IN [v EXCEPT !.out = Append(@, PrintValue(st[2], v.val))]
      [] st[1] = "expr" -> EvalNode(s, st[2])
      [] st[1] = "block" -> ScopeOf(s, EvalBlock(s, st[2]))

EvalNode(s, n) == IF n[1] \in ExprKinds THEN EvalExpr(s, n) ELSE EvalStmt(s, n)

TopCode == SelectSeq(lw_prog, LAMBDA s : s[1] \notin Declarations)
SourceRun ==
    LET start == [env |-> <<>>, heap |-> <<>>, out |-> <<>>, val |-> 0, flow |-> "next", depth |-> 0, peak |-> 0]
    IN EvalCall(start, <<>>, <<>>, IF "main" \in TopNames({"func"}) THEN TopNamed({"func"}, "main")[5] ELSE <<"block", TopCode>>)

-----------------------------------------------------------------------------
(* Properties.                                                              *)

\* What the verifier has to keep from running, or what does no harm.
Caught == {"logic", "wildcard"}

\* A program is turned down only for a translation that is wrong, for a
\* closure with a mutable capture, or, when nothing removes blocks that cannot
\* be reached, for such a block.
LwAccepted ==
    lw_pc = "rejected" =>
        \/ lw_mod.odd # {}
        \/ lw_mod.errors = {"lowering"}
        \/ lw_mod.errors = {"orphan"} /\ ~lw_optimize
        \/ lw_mod.errors = {"entry"} /\ TopCode = <<>> /\ "main" \notin TopNames({"func"})

\* A program that runs to its end has printed and returned what its source
\* says, and given back the slots of its variables; one that stops early has
\* called too deep, and printed the beginning.
Agrees(m) ==
    IF m.peak > CvMaxDepth THEN cv.trap = DepthTrap /\ IsPrefix(cv.out, m.out)
    ELSE /\ cv.trap = 0 /\ cv.out = m.out /\ cv.ret = m.val
         /\ Cardinality(DOMAIN cv.mem) = FoldLeft(LAMBDA n, o : n + 1 + Len(o), 0, m.heap)
CvMeaning == lw_pc = "done" /\ lw_mod.odd \subseteq Caught => Agrees(SourceRun)

\* cvm_engine.c, mir_lower.c: what --execute runs behaves as the source says,
\* and what is sound in the source is run.
CvCorrect == LwAccepted /\ CvMeaning
=============================================================================
