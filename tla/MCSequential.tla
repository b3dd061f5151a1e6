---------------------------- MODULE MCSequential ----------------------------
(***************************************************************************)
(* The algorithms of the compiler and of the runtime on small inputs, and  *)
(* its two event loops: what is checked by invariants alone.  They share   *)
(* no state: a behaviour chooses one of them and runs it, while the others *)
(* stay in one initial state, so that their state spaces are added and not *)
(* multiplied.                                                             *)
(***************************************************************************)
EXTENDS KvCache, Mem2Reg, MirBorrow, MirOpt, MirCfg, DropCodegen, SemaMoves, Checkpoint,
        CycleGC, JitRegAlloc, RegexDfa, Collections, Reactor, EventLoop, Parser, Cvm

VARIABLE component

-----------------------------------------------------------------------------
(* Inputs.                                                                  *)

\* All graphs of four blocks, loops and unreachable blocks included, whose
\* last block is the exit.
M2Graphs == {s \in [0 .. 3 -> SUBSET (1 .. 3)] : s[3] = {} /\ \A b \in 0 .. 2 : Cardinality(s[b]) <= 2}
M2EntryCodes == {<<>>}
M2Codes == {<<"load">>, <<"load", "store">>}

\* Three blocks: one of them optional, a block that repeats itself, a loop over
\* two blocks.  Of five instructions three, the first one of them, are borrows
\* of s or moves of s or of a borrow; each borrow is taken once, and on every
\* way to its uses.
BwGraph(a, b, c) == [n \in 0 .. 2 |-> IF n = 0 THEN a ELSE IF n = 1 THEN b ELSE c]
Succs == {BwGraph({1, 2}, {2}, {}), BwGraph({1}, {1, 2}, {}), BwGraph({1}, {2}, {1})}
BwIn(o, v, r) == [op |-> o, uses |-> {v}, res |-> r]
BwIns == {BwIn("use", v, BwNone) : v \in BwValues} \cup {BwIn("move", v, BwNone) : v \in {"s", "b1"}}
    \cup {BwIn(o, "s", v) : o \in {"borrow", "borrow_mut"}, v \in {"b1", "b2"}}
BwOrders(s) ==
    /\ s[1].op # "use" /\ Cardinality({i \in 1 .. 5 : s[i].op # "use"}) = 3
    /\ \A v \in {"b1", "b2"} :
         LET taken == {i \in 1 .. 5 : s[i].res = v}
         IN /\ Cardinality(taken) <= 1
            /\ taken = {} => \A i \in 1 .. 5 : s[i].uses # {v}
            /\ v = "b2" => \A i \in taken : \E j \in 1 .. i - 1 : s[j].res = "b1"
BwCodes == {[b \in 0 .. 2 |-> IF b = 0 THEN <<s[1]>> ELSE <<s[2 * b], s[2 * b + 1]>>] :
              s \in {t \in [1 .. 5 -> BwIns] : BwOrders(t)}}
\* The points control reaches before an instruction defines v.
RECURSIVE BwFlow(_, _, _, _)
BwFlow(frontier, seen, f, v) ==
    LET next == UNION {IF pt[2] > Len(f.code[pt[1]]) THEN {<<t, 1>> : t \in f.succ[pt[1]]}
                       ELSE IF f.code[pt[1]][pt[2]].res = v THEN {} ELSE {<<pt[1], pt[2] + 1>>} : pt \in frontier} \ seen
    IN IF frontier = {} THEN seen ELSE BwFlow(next, seen \cup next, f, v)
BwFunctions == {f \in {[succ |-> g, code |-> c] : g \in Succs, c \in BwCodes} :
    \A v \in {"b1", "b2"} : \A pt \in BwFlow({<<0, 1>>}, {<<0, 1>>}, f, v) :
        pt[2] <= Len(f.code[pt[1]]) => v \notin f.code[pt[1]][pt[2]].uses}
BwOne == CHOOSE f \in BwFunctions : TRUE

\* A constant, three computations and a return.
In(op, r, a, b) == [op |-> op, res |-> r, a |-> a, b |-> b]
MoFirst == {In("const", 1, c, NoVal) : c \in {-1, 0, 1, 2}}
MoSecond == {In("const", 2, 4, NoVal), In("copy", 2, 0, NoVal)}
            \cup {In(op, 2, a, 1) : op \in {"add", "mul", "mod"}, a \in 0 .. 1}
MoThird == {In(op, 3, a, b) : op \in Arith \cup {"lt"}, a \in {0, 2}, b \in {1, 2}}
MoFourth == {In("copy", 4, 3, NoVal), In("mod", 4, 3, 1)}
MoEnd == {<<In("call", NoVal, 2, NoVal), In("ret", NoVal, 3, NoVal)>>,
          <<In("vcall", NoVal, 2, NoVal), In("ret", NoVal, 4, NoVal)>>, <<In("ret", NoVal, 4, NoVal)>>}
Programs == {<<a, b, c, d>> \o e : a \in MoFirst, b \in MoSecond, c \in MoThird, d \in MoFourth, e \in MoEnd}
Inputs == {-8, -3, 0, 1, 5}

\* One block, and the graphs of if/else, while, for, while with a break, and of
\* nested ifs.
Ret == [k |-> "ret", to |-> <<>>]
Br(t) == [k |-> "br", to |-> <<t>>]
Cond(t, f) == [k |-> "condbr", to |-> <<t, f>>]
FromZero(s) == [b \in 0 .. Len(s) - 1 |-> s[b + 1]]
Graphs == {FromZero(s) : s \in {<<Ret>>,
    <<Cond(1, 2), Br(3), Br(3), Ret>>,
    <<Br(1), Cond(2, 3), Br(1), Ret>>,
    <<Br(1), Cond(2, 4), Br(3), Br(1), Ret>>,
    <<Br(1), Cond(2, 4), Cond(4, 3), Br(1), Ret>>,
    <<Cond(1, 4), Cond(2, 3), Br(3), Br(4), Ret>>}}

\* A loop whose body declares, branches, moves, copies, assigns, hides a local
\* and leaves the loop or the function; and a branch over a parameter.
NewOne == [op |-> "new"]
Zero == [op |-> "zero"]
Copy(v) == [op |-> "load", from |-> v, moves |-> FALSE]
MoveOf(v) == [op |-> "load", from |-> v, moves |-> TRUE]
Decl(v, e) == [k |-> "decl", v |-> v, e |-> e]
Assign(v, e) == [k |-> "assign", v |-> v, e |-> e]
ReturnOf(e) == [k |-> "return", e |-> e]
Block(b) == [k |-> "block", body |-> b]
IfElse(t, e) == [k |-> "if", then |-> Block(t), else |-> Block(e)]
Leaf == {<<>>, <<[k |-> "break"]>>, <<[k |-> "continue"]>>, <<ReturnOf(Zero)>>, <<Decl("d", MoveOf("b"))>>}
Leaf2 == Leaf \cup {<<ReturnOf(MoveOf("b"))>>, <<ReturnOf(Copy("b"))>>, <<Decl("d", Copy("b"))>>,
                   <<Assign("a", MoveOf("b"))>>, <<Decl("b", NewOne), Assign("b", NewOne)>>}
Branch == {IfElse(p \o l, e) : p \in {<<>>, <<Decl("c", NewOne)>>}, l \in Leaf2, e \in {<<>>, <<[k |-> "continue"]>>, <<Decl("d", MoveOf("b"))>>}}
Body == {Block(<<Decl("b", NewOne), i>> \o r) : i \in Branch, r \in {<<>>, <<Decl("c", Zero)>>}}
        \cup {Block(<<Decl("b", NewOne)>> \o l) : l \in Leaf}
Looping == {Block(<<Decl("a", NewOne), [k |-> l, body |-> b]>> \o r) :
              l \in {"while", "for"}, b \in Body, r \in {<<>>, <<ReturnOf(MoveOf("a"))>>}}
OverParam == {<<>>, <<ReturnOf(MoveOf("a"))>>, <<ReturnOf(Copy("a"))>>, <<Assign("a", NewOne)>>,
              <<Assign("d", MoveOf("a"))>>, <<Decl("b", MoveOf("a")), ReturnOf(Copy("b"))>>}
DcSources == {[params |-> <<>>, body |-> b] : b \in Looping}
             \cup {[params |-> <<"a">>, body |-> Block(<<Decl("d", Zero), IfElse(t, e)>>)] : t \in OverParam, e \in OverParam}

\* A loop, a branch or a match over uses and moves, a branch, and a use.
Atom(k) == [k |-> k]
SmLeaf == {<<>>, <<Atom("move"), Atom("return")>>} \cup {<<Atom(k)>> : k \in {"use", "move", "return"}}
SmInner == SmLeaf \cup {<<Atom(k)>> : k \in {"break", "continue"}}
                  \cup {<<Atom("move"), Atom(k)>> : k \in {"break", "continue"}}
SmIf(L) == {[k |-> "if", then |-> t, else |-> e] : t \in L, e \in L}
SmLoopBody == SmInner \cup {<<i>> \o r : i \in SmIf(SmInner), r \in {<<>>, <<Atom("move")>>, <<Atom("use")>>}}
SmWhile(bs) == {[k |-> "while", body |-> b] : b \in bs}
SmCompound == SmIf(SmLeaf) \cup SmWhile(SmLoopBody)
    \cup {[k |-> "for", body |-> b, inc |-> i] : b \in SmLoopBody, i \in {<<Atom("use")>>, <<Atom("move")>>}}
    \cup SmWhile({<<l>> \o t : l \in SmWhile(SmInner), t \in SmInner})
    \cup {[k |-> "match", arms |-> <<a, b>>] : a \in SmLeaf, b \in SmLeaf}
SmPrograms == {<<c, d, Atom("use")>> : c \in SmCompound, d \in SmIf({<<>>, <<Atom("move")>>, <<Atom("move"), Atom("return")>>})}

\* Three instructions define a value each and read up to two, one only reads.
\* In the list the branches go forward, around a merge block, into a merge
\* block listed before the blocks that reach it, and back; `ready` are the
\* values that every way to the instruction defines.
JaLists ==
    {[next |-> <<{2}, {3}, {4}, {}>>,       ready |-> <<{0}, {0, 1}, {0, 1, 2}, {0, 1, 2, 3}>>],
     [next |-> <<{2, 3}, {4}, {4}, {}>>,    ready |-> <<{0}, {0, 1}, {0, 1}, {0, 1}>>],
     [next |-> <<{2, 3}, {}, {4}, {2}>>,    ready |-> <<{0}, {0, 1}, {0, 1}, {0, 1, 3}>>],
     [next |-> <<{2}, {3}, {2, 4}, {}>>,    ready |-> <<{0}, {0, 1}, {0, 1, 2}, {0, 1, 2, 3}>>]}
JaReads(ready) == {r \in SUBSET ready : Cardinality(r) <= 2}
JaInsts(list, i) == {[reads |-> r, def |-> i, next |-> list.next[i]] : r \in JaReads(list.ready[i])}
JaLast(list) == {[reads |-> {v}, def |-> JaNone, next |-> list.next[4]] : v \in list.ready[4]}
JaPrograms == UNION {JaInsts(l, 1) \X JaInsts(l, 2) \X JaInsts(l, 3) \X JaLast(l) : l \in JaLists}

\* All patterns of up to four tokens, and a group of three with a quantifier
\* and what follows it.
RxTokens == {"a", "b", ".", "|", "*", "+", "?", "(", ")"}
RxPats == UNION {[1 .. n -> RxTokens] : n \in 0 .. 4}
    \cup {<<"(", x, op, y, ")">> \o q \o z :
            x \in {"a", "b", "|"}, y \in {"a", "b", "|"}, op \in {"|", "*", "+", "?", "a"},
            q \in {<<"*">>, <<"+">>, <<"?">>, <<>>}, z \in {<<>>, <<"a">>, <<"b", "?">>}}
RxClasses == [t \in {"a", "b", "."} |-> IF t = "." THEN {"a", "b"} ELSE {t}]
RxBytes == <<"a", "b">>

\* Keys that collide in a table of four slots and part in one of eight.
ClNames == {"k1", "k2", "k3", "k4"}
ClHashFns == {[k \in ClNames |-> IF k = "k1" THEN 0 ELSE IF k = "k2" THEN a ELSE IF k = "k3" THEN b ELSE c] :
                a \in {0, 3}, b \in {0, 3, 4}, c \in {1, 7}}

\* Texts: all of up to three tokens, and three tokens after the head of each
\* construct that has members, and a closing brace.
PsTokens == {"a", "{", "}", "(", ")", ";", "func", "match", "=>", "|", "if", "class", "bad", "<", ">>"}
PsHeads == {<<"func", "a", "(", ")">>, <<"class", "C", "{">>, <<"struct", "a", "{">>, <<"enum", "a", "{">>,
            <<"union", "a", "{">>, <<"trait", "a", "{">>, <<"impl", "a", "{">>, <<"try", "{">>,
            <<"match", "a", "{">>, <<"extern", "func", "a", "(">>, <<"for", "(">>}
PsTails == [1 .. 3 -> {"a", "{", "}", ":", ";", "(", ")", "func", "=>"}]
PsInputs == UNION {[1 .. n -> PsTokens] : n \in 0 .. 3}
    \cup {h \o t \o <<"}">> : h \in PsHeads, t \in PsTails}

\* Programs: an operator over each two expressions, two simple statements, and
\* a compound statement over two simple ones before or after one of them.
PsVar(x) == <<"var", x>>
PsOne == <<"lit", "1">>
PsOps == {"||", "&&", "|", "^", "&", "==", "<", ">>", "-", "*"}
PsBinary == {<<"bin", o, PsVar("a"), PsOne>> : o \in PsOps}
PsTerms == PsBinary \cup {PsVar("a"), PsOne, <<"un", "-", PsVar("a")>>, <<"un", "!", PsVar("a")>>, <<"call", PsVar("a"), <<PsVar("b")>>>>,
    <<"index", PsVar("a"), PsVar("b")>>, <<"field", PsVar("a"), "b">>, <<"method", PsVar("a"), "print", <<>>>>,
    <<"list", <<PsVar("a"), PsVar("b")>>>>, <<"await", PsVar("a")>>, <<"generic", "a", <<"i32">>>>, <<"new", "C", <<PsVar("a")>>>>,
    <<"super", "a">>, <<"supercall", "a", <<>>>>, <<"move", "a">>, <<"this">>,
    <<"lambda", <<<<"a", "i32", NoFn>>>>, PsVar("a")>>, <<"lambda", <<>>, <<"assign", PsVar("a"), PsVar("b")>>>>,
    <<"lambda", <<>>, <<"block", "i32", <<<<"return", PsVar("a")>>>>>>>>}
PsExprs == {<<"bin", o, x, y>> : o \in PsOps, x \in PsBinary, y \in PsBinary}
    \cup {<<"bin", o, x, y>> : o \in {"|", "<", "*"}, x \in PsTerms, y \in PsTerms} \cup {<<"un", "-", x>> : x \in PsTerms}
    \cup {<<"field", x, "b">> : x \in PsTerms} \cup {<<"await", x>> : x \in PsTerms}
    \cup {<<"call", x, <<y>>>> : x \in PsTerms, y \in PsTerms} \cup {<<"index", x, y>> : x \in PsTerms, y \in PsTerms}
PsSimple == {<<"print", PsVar("a")>>, <<"return", None>>, <<"return", PsVar("a")>>, <<"expr", <<"bin", "+", PsVar("a"), PsVar("b")>>>>,
    <<"expr", <<"un", "-", PsVar("b")>>>>, <<"expr", <<"list", <<PsVar("a")>>>>>>, <<"expr", <<"method", PsVar("a"), "b", <<>>>>>>,
    <<"assign", <<"index", PsVar("a"), PsVar("b")>>, PsOne>>, <<"assign", PsVar("a"), <<"bin", "+", PsVar("a"), PsVar("b")>>>>,
    <<"infer", "a", PsOne>>, <<"let", "a", "C", PsVar("b")>>, <<"let", "a", "array", None>>}
PsCompound(b) == {<<"block", b>>, <<"if", PsVar("a"), b, <<"elif", <<"if", PsVar("b"), b, <<"else", b>>>>>>>>,
    <<"if", PsVar("a"), b, None>>, <<"while", PsVar("a"), b>>, <<"forin", "a", PsVar("b"), b>>,
    <<"match", PsVar("a"), <<<<"arm", PsVar("b"), <<"block", b>>>>, <<"arm", None, <<"print", PsVar("a")>>>>>>>>,
    <<"func", "a", <<<<"a", "func", 2>>, <<"b", "C", NoFn>>>>, "array", NoFn, b>>, <<"func", "a", <<>>, "void", NoFn, b>>,
    <<"func", "a", <<>>, "func", 1, b>>}
PsPrograms == {<<<<"print", e>>>> : e \in PsExprs} \cup {<<x, y>> : x \in PsSimple, y \in PsSimple}
    \cup UNION {UNION {{<<c, x>>, <<x, c>>} : c \in PsCompound(<<x, y>>)} : x \in PsSimple, y \in PsSimple}

\* Programs for the VM.  Control: a compound statement over simple ones, in a
\* main that may return afterwards.
LwVar(x) == <<"var", x>>
LwInt(n) == <<"lit", n>>
LwBin(o, l, r) == <<"bin", o, l, r>>
LwSet(x, e) == <<"assign", LwVar(x), e>>
LwLet(x, e) == <<"let", x, "int", e>>
LwPr(e) == <<"print", "int", e>>
LwRet(e) == <<"return", e>>
LwBlk(ss) == <<"block", ss>>
LwParams(xs) == [i \in DOMAIN xs |-> <<xs[i], "int">>]
LwFunc(f, ps, ret, ss) == <<"func", f, LwParams(ps), ret, LwBlk(ss)>>
LwMain(ss) == LwFunc("main", <<>>, "int", ss)
LwMore(x) == LwSet(x, LwBin("+", LwVar(x), LwInt(1)))
LwSimple == {LwPr(LwVar("a")), LwMore("a"), LwRet(LwVar("a"))}
LwLeaf == LwSimple \cup {<<"break">>, <<"continue">>}
LwTest == LwBin("<", LwVar("a"), LwInt(2))
LwIfs(L) == {<<"if", LwTest, LwBlk(<<x>>), IF y = Absent THEN y ELSE LwBlk(<<y>>)>> : x \in L, y \in L \cup {Absent}}
LwWhile(b) == <<"while", LwBin("<", LwVar("a"), LwInt(4)), LwBlk(<<LwMore("a")>> \o b)>>
LwFor(x, b) == <<"for", x, LwInt(0), LwBin("<", LwVar(x), LwInt(2)), LwMore(x), LwBlk(b)>>
LwBodies == {<<x>> : x \in LwLeaf} \cup {<<x, y>> : x \in LwSimple, y \in LwLeaf}
    \cup {<<i>> \o r : i \in LwIfs(LwLeaf), r \in {<<>>, <<LwPr(LwVar("a"))>>, <<LwLet("b", LwVar("a")), LwPr(LwVar("b"))>>}}
LwLoops == {LwWhile(b) : b \in LwBodies} \cup {LwFor("i", b) : b \in LwBodies}
    \cup {LwFor("i", <<LwFor("j", <<x>>), y>>) : x \in LwLeaf, y \in LwLeaf}
LwArms == {<<LwInt(1), LwPr(LwInt(7))>>, <<LwInt(2), LwRet(LwInt(5))>>, <<Absent, LwPr(LwInt(8))>>}
LwMatches == {<<"match", LwVar("a"), arms>> : arms \in [1 .. 2 -> LwArms] \cup [1 .. 3 -> LwArms]}
LwControl == {<<LwMain(<<LwLet("a", LwInt(1)), s>> \o e)>> :
                s \in LwIfs(LwSimple) \cup LwLoops \cup LwMatches, e \in {<<>>, <<LwRet(LwVar("a"))>>}}

\* Scopes that follow each other and declare the same name.
LwScope(v) == LwBlk(<<LwLet("b", v), LwMore("b"), LwPr(LwVar("b"))>>)
LwScoped == {LwScope(LwVar("a")), LwFor("b", <<LwPr(LwVar("b"))>>), LwFor("i", <<LwScope(LwVar("i"))>>),
             <<"if", LwTest, LwScope(LwInt(7)), LwScope(LwInt(8))>>,
             <<"match", LwVar("a"), <<<<LwInt(1), LwBlk(<<LwLet("b", LwInt(5)), LwSet("a", LwVar("b"))>>)>>>>>>}
LwScopes == {<<LwMain(<<LwLet("a", LwInt(1)), s, t, LwPr(LwVar("a"))>>)>> : s \in LwScoped, t \in LwScoped}

\* Functions: recursion up to one call too many, arguments that print, ends
\* without a return; with a main, with top-level code, and with neither.
LwCall(f, as) == <<"call", f, as>>
LwRec == LwFunc("f", <<"x">>, "int",
    <<LwPr(LwVar("x")), <<"if", LwBin("<", LwVar("x"), LwInt(1)), LwRet(LwInt(0)), Absent>>, LwSet("x", LwBin("-", LwVar("x"), LwInt(1))),
      LwLet("b", LwCall("f", <<LwVar("x")>>)), LwPr(LwVar("x")), LwRet(LwBin("+", LwVar("b"), LwInt(2)))>>)
LwTwo == LwFunc("g", <<"x", "y">>, "int", <<LwPr(LwVar("y")), LwMore("x"), LwRet(LwBin("-", LwVar("x"), LwVar("y")))>>)
LwEmpty == LwFunc("h", <<>>, "int", <<LwPr(LwInt(6))>>)
LwCalls == {LwCall("f", <<LwInt(n)>>) : n \in 0 .. 3} \cup {LwCall("h", <<>>)}
    \cup {LwCall("g", <<LwCall("g", <<LwInt(4), LwInt(1)>>), LwCall("f", <<LwInt(n)>>)>>) : n \in {0, 1}}
LwFunctions == {<<LwRec, LwTwo, LwEmpty, LwMain(<<LwLet("x", LwInt(9)), LwPr(e), LwPr(LwVar("x"))>>)>> : e \in LwCalls}
    \cup {<<LwMain(<<<<"expr", LwCall("h", <<>>)>>>>), LwFunc("h", <<>>, "void", b)>> :
             b \in {<<>>, <<LwPr(LwInt(1)), LwRet(Absent), LwPr(LwInt(2))>>}}
    \cup {<<LwRec>>} \cup {<<LwRec, s, LwPr(LwInt(3))>> : s \in {LwPr(LwCall("f", <<LwInt(n)>>)) : n \in 1 .. 3}
             \cup {LwFor("i", <<x, LwPr(LwVar("i"))>>) : x \in {<<"break">>, <<"continue">>, LwPr(LwInt(0))}}
             \cup {LwLet("a", LwInt(1)), LwScope(LwInt(1))}}

\* Objects with two names, with each kind of constructor.
LwMethod(m, ps, ret, b, ctor) == [name |-> m, params |-> LwParams(ps), ret |-> ret, body |-> b, ctor |-> ctor]
LwThis(f) == <<"field", <<"this">>, "K", f>>
LwBump == LwMethod("bump", <<"y">>, "int", LwBlk(<<<<"assign", LwThis("q"), LwBin("+", LwThis("p"), LwVar("y"))>>, LwRet(LwThis("q"))>>), FALSE)
LwClass(ms) == <<"class", "K", <<"p", "q">>, Append(ms, LwBump)>>
LwCtor(n) == LwMethod(n, <<"x">>, "void", LwBlk(<<<<"assign", LwThis("p"), LwVar("x")>>>>), TRUE)
LwObj(x, f) == <<"field", LwVar(x), "K", f>>
LwNew(n) == <<"new", "K", <<LwInt(n)>>>>
LwUseObj(v) == LwMain(<<<<"let", "o", "ptr", LwNew(1)>>, <<"let", "r", "ptr", v>>,
    <<"assign", LwObj("r", "p"), LwBin("+", LwObj("o", "p"), LwInt(5))>>, LwPr(<<"method", LwVar("o"), "K", "bump", <<LwInt(3)>>, "int">>),
    LwPr(LwObj("o", "p")), LwRet(LwObj("o", "q"))>>)
LwObjects == {<<LwClass(ms), LwUseObj(v)>> : ms \in {<<LwCtor("K")>>, <<LwCtor("init"), LwMethod("bare", <<>>, "int", Absent, FALSE)>>,
                                                      <<LwCtor("init"), LwMethod("K", <<>>, "void", Absent, TRUE)>>},
                                             v \in {LwVar("o"), <<"moved", "o">>, <<"un", "&", LwVar("o")>>, LwNew(2)}}
    \cup {<<LwClass(<<>>), LwMain(<<<<"let", "o", "ptr", LwNew(1)>>, LwPr(LwObj("o", "q"))>>)>>}

\* Lambdas as values and called at once; a value that is called.
LwLams == {[name |-> "l", captured |-> cap, params |-> LwParams(<<"z">>), ret |-> "int", mutable |-> mut, expr |-> e,
            body |-> IF e THEN LwBin("+", LwVar("z"), LwInt(1)) ELSE LwBlk(<<LwPr(LwVar("z"))>>)] :
             cap \in {<<>>, <<<<"a", "int">>>>, <<<<"u", "int">>>>}, mut \in BOOLEAN, e \in BOOLEAN}
LwLambdas == {<<LwMain(<<LwLet("a", LwInt(1)), s, LwPr(LwVar("a"))>>)>> :
    s \in UNION {{<<"let", "k", "ptr", <<"lambda", l>>>>, LwPr(<<"calllambda", l, <<LwInt(2)>>>>),
                  LwBlk(<<<<"let", "k", "ptr", <<"lambda", l>>>>, LwPr(LwCall("k", <<LwInt(1)>>))>>)} : l \in LwLams}}

\* Operators, and one of each of what is not translated into what it means.
LwNested == <<"func", "n", LwParams(<<"w">>), "int", LwBlk(<<LwRet(LwVar("w"))>>)>>
LwOthers == {LwPr(<<"un", "!", LwTest>>), LwPr(<<"un", "-", LwVar("a")>>), LwBlk(<<LwLet("a", LwInt(3)), LwPr(LwVar("a"))>>),
    LwBlk(<<LwLet("b", Absent), LwPr(LwVar("b"))>>), <<"forin">>, <<"expr", LwCall("e", <<LwInt(1)>>)>>,
    <<"expr", <<"static", "K", "s", <<LwInt(1)>>, "int">>>>, LwSet("v", LwInt(2)), LwPr(LwVar("v")), LwNested, LwPr(LwVar("h")),
    LwPr(LwVar("u")), LwSet("u", LwInt(1)), LwBlk(<<LwNested, LwPr(LwCall("n", <<LwInt(4)>>))>>), LwPr(<<"bool", 1>>),
    LwWhile(<<LwNested, LwMore("a"), <<"continue">>>>)}
    \cup {<<"if", LwBin(o, LwTest, LwTest), LwPr(LwInt(1)), Absent>> : o \in {"&&", "||"}}
    \cup {LwPr(LwBin(op, LwBin("-", LwVar("a"), LwInt(x)), LwInt(y))) : op \in {"*", "/", "%"}, x \in {0, 4}, y \in {-2, 0, 2}}
    \cup {<<"print", "bool", LwBin(op, LwVar("a"), LwInt(y))>> : op \in Comparisons, y \in 0 .. 2}
LwRest == {<<<<"extern", "e", LwParams(<<"x">>), "int">>, LwLet("v", LwInt(4)), LwEmpty, <<"impl", "K", <<LwTwo>>>>,
             LwClass(<<LwMethod("s", <<"x">>, "int", LwBlk(<<LwRet(LwVar("x"))>>), FALSE)>>),
             LwMain(<<LwLet("a", LwInt(1)), s, LwPr(LwVar("a"))>>)>> : s \in LwOthers}
LwSources == LwControl \cup LwScopes \cup LwFunctions \cup LwObjects \cup LwLambdas \cup LwRest

\* Every set of up to four references between the objects, and an object with
\* two fields that are the same; the first of the objects are the suspects.
CgTwice == {[o \in CgObjs |-> IF o = 1 THEN <<2, 2>> ELSE IF o = 2 THEN s ELSE <<>>] : s \in {<<>>, <<1>>, <<3>>, <<1, 3>>}}
CgFew == {S \in [CgObjs -> SUBSET CgObjs] : Cardinality(S[1]) + Cardinality(S[2]) + Cardinality(S[3]) <= 4}
CgGraphs == {[o \in CgObjs |-> SetToSortSeq(S[o], <)] : S \in CgFew} \cup CgTwice
CgSuspects == {<<1>>, <<1, 2>>}

-----------------------------------------------------------------------------
(* One initial state of each component.                                     *)

KvRest == KvInit
M2Rest == m2_succ = [b \in M2Blocks |-> {}] /\ m2_code = [b \in M2Blocks |-> IF b = 0 THEN <<>> ELSE <<"load">>] /\ M2Init
BwRest == bw_func = BwOne /\ BwInit
MoRest == mo_orig = (CHOOSE p \in Programs : TRUE) /\ MoInit
CfRest == cf_orig = FromZero(<<Ret>>) /\ cf_body = [b \in CfBlocks |-> "code"] /\ CfInit /\ DOMAIN cf_g.phi = {}
DcRest == dc_fun = (CHOOSE f \in DcFunctions : f.params = <<>>) /\ DcInit
SmRest == sm_body = (CHOOSE b \in SmPrograms : TRUE) /\ SmInit
CkRest == ck_model = (CHOOSE m \in CkModels : TRUE) /\ CkInit
CgRest == cg_fields = [o \in CgObjs |-> <<>>] /\ cg_outside = [o \in CgObjs |-> 1] /\ cg_suspects = <<1>> /\ CgInit
JaRest == ja_code = (CHOOSE c \in JaCodes : TRUE) /\ JaInit
RxRest == rx_pat = <<>> /\ RxInit
ClRest == cl_which = "queue" /\ ClInit
ReRest == ReInit
ElRest == ElInit
PsRest == ps_tree = NoTree /\ ps_tokens = <<>> /\ PsInit
CvRest == lw_prog = <<LwRec>> /\ lw_optimize = TRUE /\ CvInit

Chosen(c) == component = c
Init ==
    /\ \/ component \in {"kv", "m2", "bw", "mo", "cf", "dc", "sm", "ck", "cg", "ja", "rx", "cl", "re", "el", "cv"}
       \/ component = "ps"
    /\ IF Chosen("kv") THEN TRUE ELSE KvRest
    /\ IF Chosen("m2") THEN TRUE ELSE M2Rest
    /\ IF Chosen("bw") THEN TRUE ELSE BwRest
    /\ IF Chosen("mo") THEN TRUE ELSE MoRest
    /\ IF Chosen("cf") THEN TRUE ELSE CfRest
    /\ IF Chosen("dc") THEN TRUE ELSE DcRest
    /\ IF Chosen("sm") THEN TRUE ELSE SmRest
    /\ IF Chosen("ck") THEN TRUE ELSE CkRest
    /\ IF Chosen("cg") THEN TRUE ELSE CgRest
    /\ IF Chosen("ja") THEN TRUE ELSE JaRest
    /\ IF Chosen("rx") THEN TRUE ELSE RxRest
    /\ IF Chosen("cl") THEN TRUE ELSE ClRest
    /\ IF Chosen("re") THEN TRUE ELSE ReRest
    /\ IF Chosen("el") THEN TRUE ELSE ElRest
    /\ IF Chosen("ps") THEN TRUE ELSE PsRest
    /\ IF Chosen("cv") THEN TRUE ELSE CvRest
    /\ IF Chosen("kv") THEN KvInit ELSE TRUE
    /\ IF Chosen("m2") THEN M2Init ELSE TRUE
    /\ IF Chosen("bw") THEN BwInit ELSE TRUE
    /\ IF Chosen("mo") THEN MoInit ELSE TRUE
    /\ IF Chosen("cf") THEN CfInit ELSE TRUE
    /\ IF Chosen("dc") THEN DcInit ELSE TRUE
    /\ IF Chosen("sm") THEN SmInit ELSE TRUE
    /\ IF Chosen("ck") THEN CkInit ELSE TRUE
    /\ IF Chosen("cg") THEN CgInit ELSE TRUE
    /\ IF Chosen("ja") THEN JaInit ELSE TRUE
    /\ IF Chosen("rx") THEN RxInit ELSE TRUE
    /\ IF Chosen("cl") THEN ClInit ELSE TRUE
    /\ IF Chosen("re") THEN ReInit ELSE TRUE
    /\ IF Chosen("el") THEN ElInit ELSE TRUE
    /\ IF Chosen("ps") THEN PsInit ELSE TRUE
    /\ IF Chosen("cv") THEN CvInit ELSE TRUE

\* The map of Collections stops where a removal has cut a chain, the reactor
\* where a handler let go of its connection too early.
Next ==
    \/ Chosen("kv") /\ KvNext /\ UNCHANGED <<component, m2Vars, bwVars, moVars, cfVars, dcVars, smVars, ckVars, cgVars, jaVars, rxVars, clVars, reVars, elVars, psVars, cvVars>>
    \/ Chosen("m2") /\ M2Next /\ UNCHANGED <<component, kvVars, bwVars, moVars, cfVars, dcVars, smVars, ckVars, cgVars, jaVars, rxVars, clVars, reVars, elVars, psVars, cvVars>>
    \/ Chosen("bw") /\ BwNext /\ UNCHANGED <<component, kvVars, m2Vars, moVars, cfVars, dcVars, smVars, ckVars, cgVars, jaVars, rxVars, clVars, reVars, elVars, psVars, cvVars>>
    \/ Chosen("mo") /\ MoNext /\ UNCHANGED <<component, kvVars, m2Vars, bwVars, cfVars, dcVars, smVars, ckVars, cgVars, jaVars, rxVars, clVars, reVars, elVars, psVars, cvVars>>
    \/ Chosen("cf") /\ CfNext /\ UNCHANGED <<component, kvVars, m2Vars, bwVars, moVars, dcVars, smVars, ckVars, cgVars, jaVars, rxVars, clVars, reVars, elVars, psVars, cvVars>>
    \/ Chosen("dc") /\ DcNext /\ UNCHANGED <<component, kvVars, m2Vars, bwVars, moVars, cfVars, smVars, ckVars, cgVars, jaVars, rxVars, clVars, reVars, elVars, psVars, cvVars>>
    \/ Chosen("sm") /\ SmNext /\ UNCHANGED <<component, kvVars, m2Vars, bwVars, moVars, cfVars, dcVars, ckVars, cgVars, jaVars, rxVars, clVars, reVars, elVars, psVars, cvVars>>
    \/ Chosen("ck") /\ CkNext /\ UNCHANGED <<component, kvVars, m2Vars, bwVars, moVars, cfVars, dcVars, smVars, cgVars, jaVars, rxVars, clVars, reVars, elVars, psVars, cvVars>>
    \/ Chosen("cg") /\ CgNext /\ UNCHANGED <<component, kvVars, m2Vars, bwVars, moVars, cfVars, dcVars, smVars, ckVars, jaVars, rxVars, clVars, reVars, elVars, psVars, cvVars>>
    \/ Chosen("ja") /\ JaNext /\ UNCHANGED <<component, kvVars, m2Vars, bwVars, moVars, cfVars, dcVars, smVars, ckVars, cgVars, rxVars, clVars, reVars, elVars, psVars, cvVars>>
    \/ Chosen("rx") /\ RxNext /\ UNCHANGED <<component, kvVars, m2Vars, bwVars, moVars, cfVars, dcVars, smVars, ckVars, cgVars, jaVars, clVars, reVars, elVars, psVars, cvVars>>
    \/ Chosen("cl") /\ ~map_broken /\ ClNext /\ UNCHANGED <<component, kvVars, m2Vars, bwVars, moVars, cfVars, dcVars, smVars, ckVars, cgVars, jaVars, rxVars, reVars, elVars, psVars, cvVars>>
    \/ Chosen("re") /\ re_early = {} /\ ReNext /\ UNCHANGED <<component, kvVars, m2Vars, bwVars, moVars, cfVars, dcVars, smVars, ckVars, cgVars, jaVars, rxVars, clVars, elVars, psVars, cvVars>>
    \/ Chosen("el") /\ ElNext /\ UNCHANGED <<component, kvVars, m2Vars, bwVars, moVars, cfVars, dcVars, smVars, ckVars, cgVars, jaVars, rxVars, clVars, reVars, psVars, cvVars>>
    \/ Chosen("ps") /\ PsNext /\ UNCHANGED <<component, kvVars, m2Vars, bwVars, moVars, cfVars, dcVars, smVars, ckVars, cgVars, jaVars, rxVars, clVars, reVars, elVars, cvVars>>
    \/ Chosen("cv") /\ CvNext /\ UNCHANGED <<component, kvVars, m2Vars, bwVars, moVars, cfVars, dcVars, smVars, ckVars, cgVars, jaVars, rxVars, clVars, reVars, elVars, psVars>>

vars == <<component, kvVars, m2Vars, bwVars, moVars, cfVars, dcVars, smVars, ckVars, cgVars, jaVars, rxVars, clVars, reVars, elVars, psVars, cvVars>>
Spec == Init /\ [][Next]_vars
=============================================================================
