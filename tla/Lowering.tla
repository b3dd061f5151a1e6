------------------------------- MODULE Lowering -------------------------------
(***************************************************************************)
(* mir_lower.c with the part of mir_builder.c it uses: from the typed tree  *)
(* of a program to MIR, and mir_verify_module of mir.c, the check that the  *)
(* driver makes of a module before it runs it.                              *)
(*                                                                         *)
(* A node is a tuple of a kind and its children, with the types that the    *)
(* analyzer has found where the lowering reads them.  A function of the     *)
(* module is its parameters, the types of its values (a value id is an       *)
(* index, 0 is MIR_VALUE_NONE) and its blocks, sequences of instructions.    *)
(* The lowering context is a record that the lowering functions take and     *)
(* return, with the value they return in val.                                *)
(*                                                                         *)
(* Two fields are no state of the code: open holds the names that are        *)
(* declared in the scopes that are open, odd what has been translated into   *)
(* something that does not do what the source says.                          *)
(*                                                                         *)
(* The symbol table that the lowering is given holds the symbols of the      *)
(* outermost scope only: exit_scope has removed the others.  Left out:       *)
(* floats and strings, the bitwise operators (the analyzer gives them no     *)
(* type), arrays, dyn, await, closures in global variables, inheritance, and *)
(* the borrow checker, which has a module of its own.                        *)
(***************************************************************************)
EXTENDS Integers, FiniteSets, SequencesExt

CONSTANT LwPrograms       \* sequences of top-level statements

VARIABLES
    lw_prog,              \* the program
    lw_optimize,          \* g_config.optimize, of which the last pass is kept
    lw_mod,               \* the module, and what is odd about it
    lw_pc                 \* phase of the driver

lwVars == <<lw_prog, lw_optimize, lw_mod, lw_pc>>

NoValue == 0
Absent == <<"absent">>    \* a NULL child

-----------------------------------------------------------------------------
(* Symbols of the outermost scope.                                          *)

TopStmts(kinds) == {lw_prog[i] : i \in {j \in DOMAIN lw_prog : lw_prog[j][1] \in kinds}}
TopNames(kinds) == {s[2] : s \in TopStmts(kinds)}
TopNamed(kinds, x) == CHOOSE s \in TopStmts(kinds) : s[2] = x

FunctionKinds == {"func", "extern"}
FunctionReturn(f) == TopNamed(FunctionKinds, f)[4]
ClassMethods(k) == TopNamed({"class"}, k)[4]
FieldIndex(k, f) == CHOOSE i \in DOMAIN TopNamed({"class"}, k)[3] : TopNamed({"class"}, k)[3][i] = f

-----------------------------------------------------------------------------
(* mir_builder.c.                                                           *)

Terminators == {"br", "condbr", "ret", "retvoid"}

AppendInst(c, inst) == [c EXCEPT !.mod[c.fn].blocks[c.cur] = Append(@, inst)]
MirInst(op, res, args) == [op |-> op, res |-> res, args |-> args]

\* emit: only an instruction with a type gets a value.
Emit(c, op, args, type) ==
    LET id == IF type = "void" THEN NoValue ELSE Len(c.mod[c.fn].types) + 1
        d == [AppendInst(c, MirInst(op, id, args)) EXCEPT !.val = id]
    IN IF id = NoValue THEN d ELSE [d EXCEPT !.mod[c.fn].types = Append(@, type)]
EmitVoid(c, op, args) == AppendInst(c, MirInst(op, NoValue, args))

ValueType(c, id) == IF id = NoValue THEN "void" ELSE c.mod[c.fn].types[id]
Odd(c, what) == [c EXCEPT !.odd = @ \cup {what}]

AddBlocks(c, n) == [c EXCEPT !.mod[c.fn].blocks = @ \o [i \in 1 .. n |-> <<>>]]
LastBlock(c) == Len(c.mod[c.fn].blocks)
SetBlock(c, b) == [c EXCEPT !.cur = b]
BlockTerminated(insts) == insts # <<>> /\ Last(insts).op \in Terminators
Terminated(c) == BlockTerminated(c.mod[c.fn].blocks[c.cur])
BranchTo(c, b) == IF Terminated(c) THEN c ELSE EmitVoid(c, "br", <<b>>)

-----------------------------------------------------------------------------
(* The map of variables: one entry per name, overwritten by a declaration   *)
(* of the name wherever it stands.                                          *)

VarEntries(c, x) == {i \in DOMAIN c.vars : c.vars[i].name = x}
VarMapGet(c, x) ==
    IF VarEntries(c, x) = {} THEN [name |-> x, id |-> NoValue, type |-> "int"]
    ELSE c.vars[CHOOSE i \in VarEntries(c, x) : TRUE]
VarMapSet(c, x, id, type) ==
    LET entry == [name |-> x, id |-> id, type |-> type]
        d == IF VarEntries(c, x) = {} THEN [c EXCEPT !.vars = Append(@, entry)]
             ELSE [c EXCEPT !.vars[CHOOSE i \in VarEntries(c, x) : TRUE] = entry]
    IN [d EXCEPT !.open = @ \cup {x}, !.odd = @ \cup {o \in {"shadow"} : x \in c.open \cup TopNames({"let", "func"})}]

\* A slot for a variable, which the map then knows.
DeclareSlot(c, x, type) == LET a == Emit(c, "alloca", <<>>, "ptr") IN VarMapSet(a, x, a.val, type)

\* Parameters are stored to slots of their own; skip others come before them.
RECURSIVE BindParams(_, _, _, _)
BindParams(c, params, i, skip) ==
    IF i > Len(params) THEN c
    ELSE LET a == Emit(c, "alloca", <<>>, "ptr")
             s == EmitVoid(a, "store", <<a.val, skip + i>>)
         IN BindParams(VarMapSet(s, params[i][1], a.val, params[i][2]), params, i + 1, skip)

\* A parameter is the value of its place.
AddFunction(c, name, params, ret) ==
    LET f == [params |-> Len(params), types |-> [i \in DOMAIN params |-> params[i][2]],
              blocks |-> <<<<>>>>, ret |-> ret, extern |-> FALSE]
    IN [c EXCEPT !.mod = [g \in DOMAIN c.mod \cup {name} |-> IF g = name THEN f ELSE c.mod[g]],
                 !.fn = name, !.cur = 1]

\* A function whose body ends without a return.
CloseFunction(c, ret) ==
    IF Terminated(c) THEN c
    ELSE IF ret = "void" THEN EmitVoid(c, "retvoid", <<>>)
    ELSE LET z == Emit(c, "const", <<0>>, ret) IN EmitVoid(z, "ret", <<z.val>>)

\* The builder, the number of variables and the loops are put back; entries of
\* the map that were overwritten are not.
BackTo(c, d) ==
    [d EXCEPT !.fn = c.fn, !.cur = c.cur, !.vars = SubSeq(d.vars, 1, Len(c.vars)), !.loops = c.loops, !.open = c.open]

-----------------------------------------------------------------------------
(* Expressions.                                                             *)

\* mir_lower_expr or mir_lower_stmt, whichever the node is for.
RECURSIVE LowerNode(_, _), LowerArgs(_, _, _)

\* The values of the arguments, from the left.
LowerArgs(c, args, ids) ==
    IF args = <<>> THEN [c EXCEPT !.val = ids]
    ELSE LET a == LowerNode(c, Head(args)) IN LowerArgs(a, Tail(args), Append(ids, a.val))

LowerLiteral(c, e) == Emit(c, "const", <<e[2]>>, IF e[1] = "bool" THEN "bool" ELSE "int")

LowerGlobalAddr(c, x) == Odd(Emit(c, "globaladdr", <<x>>, "ptr"), "global")

LowerVariable(c, x, moved) ==
    LET v == VarMapGet(c, x)
    IN CASE v.id # NoValue ->
              LET l == Emit(c, "load", <<v.id>>, v.type)
              IN IF moved THEN Emit(l, "move", <<l.val>>, v.type) ELSE l
         [] v.id = NoValue /\ x \in TopNames(FunctionKinds) -> Emit(c, "constfunc", <<x>>, "ptr")
         [] v.id = NoValue /\ x \notin TopNames(FunctionKinds) /\ x \in TopNames({"let"}) ->
              LET g == LowerGlobalAddr(c, x) IN Emit(g, "load", <<g.val>>, TopNamed({"let"}, x)[3])
         [] OTHER -> Odd(Emit(c, "const", <<0>>, "int"), "unknown")

Comparisons == {"==", "!=", "<", "<=", ">", ">="}
Opcode(op) == IF op \in Comparisons \cup {"+", "-", "*", "/", "%"} THEN op ELSE "+"

LowerBinary(c, op, l, r) ==
    LET a == LowerNode(c, l)
        b == LowerNode(a, r)
        d == IF op \in {"&&", "||"} THEN Odd(b, "logic") ELSE b
    IN Emit(d, Opcode(op), <<a.val, b.val>>, IF op \in Comparisons THEN "bool" ELSE ValueType(b, a.val))

LowerUnary(c, op, e) ==
    LET a == LowerNode(c, e)
    IN CASE op = "-" -> Emit(a, "neg", <<a.val>>, ValueType(a, a.val))
         [] op = "!" -> Odd(Emit(a, "bnot", <<a.val>>, ValueType(a, a.val)), "not")
         [] op = "&" -> Emit(a, "borrow", <<a.val>>, "ptr")

LowerCapturedAddr(c, x) ==
    LET v == VarMapGet(c, x) IN IF v.id = NoValue THEN Odd(Emit(c, "const", <<0>>, "ptr"), "unknown") ELSE [c EXCEPT !.val = v.id]

\* The addresses of the captured variables, before ids.
RECURSIVE CapturedAddrs(_, _, _)
CapturedAddrs(c, captured, ids) ==
    IF captured = <<>> THEN [c EXCEPT !.val = ids]
    ELSE LET a == LowerCapturedAddr(c, Head(captured)[1]) IN CapturedAddrs(a, Tail(captured), Append(ids, a.val))

\* The record of a closure: the function and the captured addresses.
RECURSIVE StoreFields(_, _, _, _)
StoreFields(c, record, vals, i) ==
    IF i > Len(vals) THEN [c EXCEPT !.val = record]
    ELSE LET p == Emit(c, "fieldptr", <<record, i - 1>>, "ptr")
         IN StoreFields(EmitVoid(p, "store", <<p.val, vals[i]>>), record, vals, i + 1)
BuildClosureHandle(c, lam) ==
    LET r == Emit(c, "objalloc", <<1 + Len(lam.captured)>>, "ptr")
        f == Emit(r, "constfunc", <<lam.name>>, "ptr")
        a == CapturedAddrs(f, lam.captured, <<f.val>>)
    IN StoreFields(a, r.val, a.val, 1)

\* A captured variable is the parameter that holds its address.
RECURSIVE BindCaptured(_, _, _)
BindCaptured(c, captured, i) ==
    IF i > Len(captured) THEN c
    ELSE BindCaptured(VarMapSet(c, captured[i][1], i, captured[i][2]), captured, i + 1)

\* The body becomes a function of its own; the captured variables come first.
LambdaFunction(c, lam) ==
    LET ps == [i \in DOMAIN lam.captured |-> <<lam.captured[i][1], "ptr">>] \o lam.params
        f == BindCaptured(AddFunction(c, <<lam.name>>, ps, lam.ret), lam.captured, 1)
        p == BindParams(f, lam.params, 1, Len(lam.captured))
    IN BackTo(c, CloseFunction(LowerNode(p, IF lam.expr THEN <<"return", lam.body>> ELSE lam.body), lam.ret))

LambdaValue(c, lam) ==
    IF lam.captured # <<>> THEN BuildClosureHandle(c, lam) ELSE Emit(c, "constfunc", <<lam.name>>, "ptr")

LowerLambda(c, lam) ==
    IF lam.mutable THEN [Emit(c, "const", <<0>>, "ptr") EXCEPT !.errors = TRUE]
    ELSE LambdaValue(IF <<lam.name>> \in DOMAIN c.mod THEN c ELSE LambdaFunction(c, lam), lam)

\* The arguments, or what is called, are the value that was lowered last.
CallNamed(c, name, ret) == Emit(c, "call", <<name, c.val>>, ret)
CallIndirect(c, args, ret) == Odd(Emit(c, "callindirect", <<c.val, args>>, ret), "indirect")
MoreArgs(c, args) == LowerArgs(c, args, c.val)

LowerCallLambda(c, lam, args) ==
    IF lam.captured # <<>>
    THEN CallNamed(MoreArgs(CapturedAddrs(LowerLambda(c, lam), lam.captured, <<>>), args), <<lam.name>>, lam.ret)
    ELSE LET a == LowerArgs(c, args, <<>>) IN CallIndirect(LowerLambda(a, lam), a.val, lam.ret)

LowerCall(c, f, args) ==
    LET a == LowerArgs(c, args, <<>>)
    IN IF f \in TopNames(FunctionKinds) THEN CallNamed(IF f \in TopNames({"extern"}) THEN Odd(a, "extern") ELSE a, <<f>>, FunctionReturn(f))
       ELSE CallIndirect(LowerVariable(a, f, FALSE), a.val, "int")

\* Methods are functions named after their class that take the object first.
LowerMethodCall(c, obj, class, m, args, ret) ==
    LET o == LowerNode(c, obj) IN CallNamed(LowerArgs(o, args, <<o.val>>), <<class, m>>, ret)

LowerStaticCall(c, class, m, args, ret) ==
    Odd(CallNamed(LowerArgs(c, args, <<>>), <<class, m>>, ret), "static")

LowerFieldPtr(c, obj, class, f) ==
    LET o == LowerNode(c, obj) IN Emit(o, "fieldptr", <<o.val, FieldIndex(class, f)>>, "ptr")

LowerField(c, obj, class, f) ==
    LET p == LowerFieldPtr(c, obj, class, f) IN Emit(p, "load", <<p.val>>, "int")

\* The constructor named after the class, or else the first.
Constructor(class) ==
    LET ctors == {i \in DOMAIN ClassMethods(class) : ClassMethods(class)[i].ctor}
        named == {i \in ctors : ClassMethods(class)[i].name = class}
    IN IF ctors = {} THEN Absent
       ELSE IF named # {} THEN <<class>> ELSE <<ClassMethods(class)[Min(ctors)].name>>

LowerNew(c, class, args) ==
    LET o == Emit(c, "objalloc", <<1 + Len(TopNamed({"class"}, class)[3])>>, "ptr")
        k == Constructor(class)
    IN IF k = Absent THEN o
       ELSE [CallNamed(LowerArgs(o, args, <<o.val>>), <<class, k[1]>>, "void") EXCEPT !.val = o.val]

LowerExpr(c, e) ==
    CASE e[1] \in {"lit", "bool"} -> LowerLiteral(c, e)
      [] e[1] = "var" -> LowerVariable(c, e[2], FALSE)
      [] e[1] = "moved" -> LowerVariable(c, e[2], TRUE)
      [] e[1] = "bin" -> LowerBinary(c, e[2], e[3], e[4])
      [] e[1] = "un" -> LowerUnary(c, e[2], e[3])
      [] e[1] = "call" -> LowerCall(c, e[2], e[3])
      [] e[1] = "calllambda" -> LowerCallLambda(c, e[2], e[3])
      [] e[1] = "lambda" -> LowerLambda(c, e[2])
      [] e[1] = "method" -> LowerMethodCall(c, e[2], e[3], e[4], e[5], e[6])
      [] e[1] = "static" -> LowerStaticCall(c, e[2], e[3], e[4], e[5])
      [] e[1] = "field" -> LowerField(c, e[2], e[3], e[4])
      [] e[1] = "new" -> LowerNew(c, e[2], e[3])
      [] e[1] = "this" ->
           LET v == VarMapGet(c, "this")
           IN IF v.id = NoValue THEN [c EXCEPT !.val = NoValue] ELSE Emit(c, "load", <<v.id>>, v.type)

-----------------------------------------------------------------------------
(* Statements.                                                              *)

\* The slot is the value that was lowered last.
StoreInit(c, init) ==
    IF init = Absent THEN c ELSE LET v == LowerNode(c, init) IN EmitVoid(v, "store", <<c.val, v.val>>)

LowerDeclaration(c, x, type, init) ==
    StoreInit(IF c.top THEN LowerGlobalAddr(c, x) ELSE DeclareSlot(c, x, type), init)

\* The slot is looked up before the value is lowered.
LowerAssignment(c, target, e) ==
    IF target[1] = "field"
    THEN LET p == LowerFieldPtr(c, target[2], target[3], target[4])
             v == LowerNode(p, e)
         IN EmitVoid(v, "store", <<p.val, v.val>>)
    ELSE LET slot == VarMapGet(c, target[2]).id
             v == LowerNode(c, e)
             g == LowerGlobalAddr(v, target[2])
         IN CASE slot # NoValue -> EmitVoid(v, "store", <<slot, v.val>>)
              [] slot = NoValue /\ target[2] \in TopNames({"let"}) -> EmitVoid(g, "store", <<g.val, v.val>>)
              [] OTHER -> Odd(v, "unknown")

\* What stands in block b, and the way on to the block next.
LowerPart(c, b, node, next) == BranchTo(LowerNode(SetBlock(c, b), node), next)

LowerIf(c, cond, then, else) ==
    LET n == LastBlock(c)
        merge == n + (IF else = Absent THEN 2 ELSE 3)
        v == LowerNode(AddBlocks(c, merge - n), cond)
        t == LowerPart(EmitVoid(v, "condbr", <<v.val, n + 1, n + 2>>), n + 1, then, merge)
    IN SetBlock(IF else = Absent THEN t ELSE LowerPart(t, n + 2, else, merge), merge)

\* Mutation: the loops around a loop are forgotten when it ends.
PopLoops(c, d, exit) == SetBlock([d EXCEPT !.loops = <<>>], exit)
PopLoop(c, d, exit) == SetBlock([d EXCEPT !.loops = c.loops], exit)
EnterLoop(c, exit, next) == [c EXCEPT !.loops = Append(@, [exit |-> exit, next |-> next])]

LoopTest(c, cond, body, exit) ==
    IF cond = Absent THEN EmitVoid(c, "br", <<body>>)
    ELSE LET v == LowerNode(c, cond) IN EmitVoid(v, "condbr", <<v.val, body, exit>>)

LowerWhile(c, cond, body) ==
    LET n == LastBlock(c)
        h == SetBlock(EmitVoid(EnterLoop(AddBlocks(c, 3), n + 3, n + 1), "br", <<n + 1>>), n + 1)
    IN PopLoop(c, LowerPart(LoopTest(h, cond, n + 2, n + 3), n + 2, body, n + 1), n + 3)

ForLoop(c, cond, inc, body) ==
    LET n == LastBlock(c)
        h == SetBlock(EmitVoid(EnterLoop(AddBlocks(c, 4), n + 4, n + 3), "br", <<n + 1>>), n + 1)
        b == LowerPart(LoopTest(h, cond, n + 2, n + 4), n + 2, body, n + 3)
    IN PopLoop(c, LowerPart(b, n + 3, inc, n + 1), n + 4)
LowerFor(c, x, init, cond, inc, body) ==
    [ForLoop(StoreInit(DeclareSlot(c, x, "int"), init), cond, inc, body) EXCEPT !.open = c.open]

\* A chain of tests.  After an arm without a pattern the builder goes back to
\* the last test it knows, or stays where it is.
RECURSIVE LowerArms(_, _, _, _, _, _)
LowerArms(c, arms, i, subject, merge, next) ==
    IF i > Len(arms) THEN SetBlock(c, merge)
    ELSE LET wild == arms[i][1] = Absent
             arm == LastBlock(c) + 1
             last == i = Len(arms)
             test == IF wild THEN next ELSE IF last THEN merge ELSE arm + 1
             d == AddBlocks(c, IF wild \/ last THEN 1 ELSE 2)
             p == LowerNode(d, arms[i][1])
             q == Emit(p, "==", <<subject, p.val>>, "bool")
             t == IF wild THEN EmitVoid(IF last THEN d ELSE Odd(d, "wildcard"), "br", <<arm>>)
                  ELSE EmitVoid(q, "condbr", <<q.val, arm, test>>)
             b == LowerPart(t, arm, arms[i][2], merge)
         IN LowerArms(IF test \in {0, merge} THEN b ELSE SetBlock(b, test), arms, i + 1, subject, merge, test)

LowerMatch(c, e, arms) ==
    LET s == LowerNode(c, e) IN LowerArms(AddBlocks(s, 1), arms, 1, s.val, LastBlock(s) + 1, 0)

LowerReturn(c, e) ==
    IF e = Absent THEN EmitVoid(c, "retvoid", <<>>) ELSE LET v == LowerNode(c, e) IN EmitVoid(v, "ret", <<v.val>>)

\* The analyzer allows break and continue in loops only.
LowerJump(c, where) == IF c.loops = <<>> THEN c ELSE EmitVoid(c, "br", <<Last(c.loops)[where]>>)

LowerPrint(c, type, e) == LET v == LowerNode(c, e) IN Emit(v, "call", <<<<"print", type>>, <<v.val>>>>, "void")

\* Nothing is lowered after a statement that ends the block.
RECURSIVE LowerBlock(_, _)
LowerBlock(c, stmts) ==
    IF stmts = <<>> THEN c
    ELSE LET s == LowerNode(c, Head(stmts)) IN IF Terminated(s) THEN s ELSE LowerBlock(s, Tail(stmts))

LowerFunction(c, name, params, ret, body) ==
    LET f == [AddFunction(c, name, params, ret) EXCEPT !.loops = <<>>]
    IN BackTo(c, CloseFunction(LowerNode(BindParams(f, params, 1, 0), body), ret))

LowerStmt(c, s) ==
    CASE s[1] = "let" -> LowerDeclaration(c, s[2], s[3], s[4])
      [] s[1] = "assign" -> LowerAssignment(c, s[2], s[3])
      [] s[1] = "if" -> LowerIf(c, s[2], s[3], s[4])
      [] s[1] = "while" -> LowerWhile(c, s[2], s[3])
      [] s[1] = "for" -> LowerFor(c, s[2], s[3], s[4], s[5], s[6])
      [] s[1] = "match" -> LowerMatch(c, s[2], s[3])
      [] s[1] = "return" -> LowerReturn(c, s[2])
      [] s[1] = "break" -> LowerJump(c, "exit")
      [] s[1] = "continue" -> LowerJump(c, "next")
      [] s[1] = "print" -> LowerPrint(c, s[2], s[3])
      [] s[1] = "expr" -> LowerNode(c, s[2])
      [] s[1] = "block" -> [LowerBlock(c, s[2]) EXCEPT !.open = c.open]
      [] s[1] = "func" -> LowerFunction(c, <<s[2]>>, s[3], s[4], s[5])
      [] s[1] \in {"forin", "try", "throw"} -> Odd(c, "dropped")

ExprKinds == {"lit", "bool", "var", "moved", "bin", "un", "call", "calllambda", "lambda", "method", "static", "field", "new", "this"}
LowerNode(c, n) ==
    CASE n = Absent -> [c EXCEPT !.val = NoValue]
      [] n # Absent /\ n[1] \in ExprKinds -> LowerExpr(c, n)
      [] OTHER -> LowerStmt(c, n)

-----------------------------------------------------------------------------
(* The program.                                                             *)

\* A method takes the object first, a static one too, and ends with ret_void.
RECURSIVE LowerMethods(_, _, _)
LowerMethods(c, class, methods) ==
    IF methods = <<>> THEN c
    ELSE LET m == Head(methods)
             ps == <<<<"this", "ptr">>>> \o m.params
             f == [AddFunction(c, <<class, m.name>>, ps, m.ret) EXCEPT !.loops = <<>>]
             d == CloseFunction(LowerNode(BindParams(f, ps, 1, 0), m.body), "void")
         IN LowerMethods(IF m.body = Absent /\ ~m.ctor THEN c ELSE [BackTo(c, d) EXCEPT !.loops = <<>>], class, Tail(methods))

RECURSIVE LowerImpls(_, _, _)
LowerImpls(c, target, funcs) ==
    IF funcs = <<>> THEN c
    ELSE LowerImpls(LowerFunction(c, <<target, Head(funcs)[2]>>, Head(funcs)[3], Head(funcs)[4], Head(funcs)[5]), target, Tail(funcs))

LowerExtern(c, s) ==
    LET d == AddFunction(c, <<s[2]>>, s[3], s[4]) IN [d EXCEPT !.mod[<<s[2]>>].extern = TRUE, !.mod[<<s[2]>>].blocks = <<>>]

\* The third pass.
LowerTop(c, s) ==
    CASE s[1] = "func" -> LowerNode([c EXCEPT !.vars = <<>>], s)
      [] s[1] = "class" -> LowerMethods(c, s[2], s[4])
      [] s[1] = "impl" -> LowerImpls(c, s[2], s[3])
      [] OTHER -> c

Declarations == {"func", "class", "impl", "extern"}
EntryName == <<"__casprix_entry">>
EmptyCtx == [mod |-> <<>>, fn |-> EntryName, cur |-> 1, vars |-> <<>>, loops |-> <<>>, top |-> FALSE,
             val |-> NoValue, errors |-> FALSE, odd |-> {}, open |-> {}]

\* The statements outside of functions become the body of __casprix_entry;
\* nothing stops at one that ends the block.
LowerEntry(c) ==
    LET code == SelectSeq(lw_prog, LAMBDA s : s[1] \notin Declarations)
        f == [AddFunction([c EXCEPT !.vars = <<>>], EntryName, <<>>, "void") EXCEPT !.top = TRUE]
    IN IF code = <<>> THEN c ELSE CloseFunction(FoldLeft(LowerNode, f, code), "void")

MirLowerProgram ==
    LowerEntry(FoldLeft(LowerTop, FoldLeft(LowerExtern, EmptyCtx, SelectSeq(lw_prog, LAMBDA s : s[1] = "extern")), lw_prog))

-----------------------------------------------------------------------------
(* mir_verify_module.                                                       *)

BlockTargets(insts) ==
    IF ~BlockTerminated(insts) THEN {}
    ELSE CASE Last(insts).op = "br" -> {Last(insts).args[1]}
           [] Last(insts).op = "condbr" -> {Last(insts).args[2], Last(insts).args[3]}
           [] OTHER -> {}

RECURSIVE ReachableFrom(_, _)
ReachableFrom(f, bs) ==
    LET more == bs \cup UNION {BlockTargets(f.blocks[b]) : b \in bs} IN IF more = bs THEN bs ELSE ReachableFrom(f, more)
ReachableBlocks(f) == ReachableFrom(f, {1})

\* The operands that are values.
ValueOperands(i) ==
    CASE i.op \in {"call"} -> ToSet(i.args[2])
      [] i.op = "callindirect" -> {i.args[1]} \cup ToSet(i.args[2])
      [] i.op \in {"condbr", "fieldptr"} -> {i.args[1]}
      [] i.op \in {"const", "constfunc", "globaladdr", "alloca", "objalloc", "br", "retvoid"} -> {}
      [] OTHER -> ToSet(i.args)

IntegerOps == {"+", "-", "*", "/", "%"}
InstErrors(f, i) ==
    {e \in {"operand"} : \E v \in ValueOperands(i) : v > Len(f.types)}
    \cup {e \in {"types"} : i.op \in IntegerOps /\ NoValue \notin ValueOperands(i)
                              /\ \E v \in ValueOperands(i) : v <= Len(f.types) /\ f.types[v] # "int"}
BlockErrors(f, insts) ==
    {e \in {"unterminated"} : ~BlockTerminated(insts)}
    \cup {e \in {"after"} : \E i \in 1 .. Len(insts) - 1 : insts[i].op \in Terminators}
    \cup UNION {InstErrors(f, insts[i]) : i \in DOMAIN insts}

\* live is the set of blocks that the function still has.
VerifyFunction(f, live) ==
    UNION {BlockErrors(f, f.blocks[b]) : b \in live} \cup {e \in {"orphan"} : live # ReachableBlocks(f)}

LiveBlocks(f) == IF lw_optimize THEN ReachableBlocks(f) ELSE DOMAIN f.blocks
MirVerifyModule(mod) ==
    UNION {VerifyFunction(mod[g], LiveBlocks(mod[g])) : g \in {h \in DOMAIN mod : ~mod[h].extern}}

-----------------------------------------------------------------------------
(* The driver: lower, verify, run.                                          *)

LwInit ==
    /\ lw_prog \in LwPrograms
    /\ lw_optimize \in BOOLEAN
    /\ lw_mod = [mod |-> <<>>, odd |-> {}, errors |-> {}]
    /\ lw_pc = "lower"

Lower ==
    /\ lw_pc = "lower"
    /\ \E c \in {MirLowerProgram} :
          /\ lw_mod' = [mod |-> c.mod, odd |-> c.odd, errors |-> {e \in {"lowering"} : c.errors}]
          /\ lw_pc' = IF c.errors THEN "rejected" ELSE "verify"
    /\ UNCHANGED <<lw_prog, lw_optimize>>

Verify ==
    /\ lw_pc = "verify"
    /\ LET errs == MirVerifyModule(lw_mod.mod)
       IN /\ lw_mod' = [lw_mod EXCEPT !.errors = errs]
          /\ lw_pc' = IF errs # {} THEN "rejected" ELSE "ready"
    /\ UNCHANGED <<lw_prog, lw_optimize>>
=============================================================================
