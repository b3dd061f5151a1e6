-------------------------------- MODULE Parser --------------------------------
(***************************************************************************)
(* parser.c: recursive descent over the tokens of a program, with recovery  *)
(* from errors.                                                             *)
(*                                                                         *)
(* The state of the Parser is a record: the current token and its position, *)
(* the token before it, panic_mode and had_error, and the signature of the   *)
(* function type that was read last.  A parse function takes the state and   *)
(* returns the state with the node it built in val: a tuple of a kind and    *)
(* its children.  A token is its own text; identifiers that the parser tells *)
(* apart by their spelling are tokens of their own.  Lines and columns are   *)
(* left out.                                                                 *)
(*                                                                         *)
(* Two fields are no state of the code.  stuck tells the loop that made no   *)
(* progress, which then runs for ever, or "null" where the code follows a    *)
(* null pointer; implicit holds the places of blocks that open without a     *)
(* brace.                                                                    *)
(***************************************************************************)
EXTENDS Integers, FiniteSets, SequencesExt

CONSTANTS
    PsNames,        \* plain identifiers
    PsTexts,        \* sequences of tokens to parse
    PsTrees         \* programs, sequences of nodes, whose text is parsed

ASSUME PsAssumption == \A s \in PsTexts : "eof" \notin ToSet(s)

VARIABLES
    ps_tree,        \* the program whose text is parsed, NoTree for a bare text
    ps_tokens,      \* the tokens the lexer returns before TOKEN_EOF
    ps_state,       \* the Parser
    ps_program      \* statements of parse

psVars == <<ps_tree, ps_tokens, ps_state, ps_program>>

-----------------------------------------------------------------------------
(* Tokens.                                                                  *)

SimpleTypeTokens == {"i32"}
ParameterizedTypeTokens == {"array"}
IntAliases == {"Int"}               \* Int, Float, String, Bool, Void
Capitalized == IntAliases \cup {"T", "Tuple", "C"}
Identifiers == PsNames \cup Capitalized \cup {"dyn", "lambda", "vec4", "mat4", "field", "alloc", "_"}
LiteralTokens == {"1", "1.5", "true", "str", "nostr"}
AssignTokens == {"=", "+=", "-=", "*=", "/=", "%="}
BinaryOf == [t \in {"+=", "-=", "*=", "/=", "%="} |->
    IF t = "+=" THEN "+" ELSE IF t = "-=" THEN "-" ELSE IF t = "*=" THEN "*" ELSE IF t = "/=" THEN "/" ELSE "%"]

\* The operators of logical_or, logical_and, bitwise_or, bitwise_xor,
\* bitwise_and, equality, comparison, shift, term and factor, in this order.
Levels == <<{"||"}, {"&&"}, {"|"}, {"^"}, {"&"}, {"==", "!="}, {"<", "<=", ">", ">="},
            {"<<", ">>"}, {"+", "-"}, {"*", "/", "%"}>>

NoFn == -1
None == <<"none">>
NilNode == <<"null">>
NoTree == <<NilNode>>

-----------------------------------------------------------------------------
(* Reading tokens.                                                          *)

TokenAt(i) == IF i <= Len(ps_tokens) THEN ps_tokens[i] ELSE "eof"
Cur(p) == p.cur
PeekToken(p, k) == TokenAt(p.pos + k)
AtIdentifier(p) == Cur(p) \in Identifiers

ErrorAt(p) == IF p.panic THEN p ELSE [p EXCEPT !.panic = TRUE, !.err = TRUE]

\* Tokens the lexer could not read are reported and skipped.
NextToken(pos) ==
    CHOOSE i \in pos + 1 .. Len(ps_tokens) + 1 : TokenAt(i) # "bad" /\ \A j \in pos + 1 .. i - 1 : ps_tokens[j] = "bad"
MoveTo(p, i) == [p EXCEPT !.prev = p.cur, !.pos = i, !.cur = TokenAt(i),
                          !.panic = @ \/ i > p.pos + 1, !.err = @ \/ (i > p.pos + 1 /\ ~p.panic)]
AdvanceToken(p) == IF Cur(p) = "eof" THEN [p EXCEPT !.prev = "eof"] ELSE MoveTo(p, NextToken(p.pos))

Opt(p, t) == IF Cur(p) = t THEN AdvanceToken(p) ELSE p
Consume(p, t) == IF Cur(p) = t THEN AdvanceToken(p) ELSE ErrorAt(p)
ConsumeName(p) == IF AtIdentifier(p) THEN AdvanceToken(p) ELSE ErrorAt(p)

\* A ">>" closes two generic lists: the first close leaves its second half.
ConsumeGenericClose(p) ==
    IF Cur(p) = ">>" THEN [p EXCEPT !.prev = ">", !.cur = ">"] ELSE Consume(p, ">")

Node(p, v) == [p EXCEPT !.val = v]

-----------------------------------------------------------------------------
(* Recovery: at least one token is skipped.                                 *)

StatementStarts == {"func", "if", "for", "while", "print", "return"}
BlockStarts == StatementStarts \cup
    {"let", "mut", "const", "match", "try", "throw", "class", "struct", "enum", "union", "trait", "impl",
     "extern", "public", "private", "protected", "static", "abstract"}

RECURSIVE SkipTo(_, _)
SkipTo(p, stops) ==
    IF Cur(p) \in stops \cup {"eof"} \/ p.prev = ";" THEN p ELSE SkipTo(AdvanceToken(p), stops)

Synchronize(p) == SkipTo(AdvanceToken([p EXCEPT !.panic = FALSE]), StatementStarts)

\* Mutation: recovery in a block stops where it is when that begins a statement.
SynchronizeBlockHere(p) == SkipTo([p EXCEPT !.panic = FALSE], BlockStarts \cup {"}"})
SynchronizeBlock(p) == SkipTo(AdvanceToken([p EXCEPT !.panic = FALSE]), BlockStarts \cup {"}"})

-----------------------------------------------------------------------------
(* Lists.  Item reads one item of a kind; the parse functions that call each *)
(* other do it through Item.                                                 *)

RECURSIVE Item(_, _)
ReadExpr(p) == Item(p, "expr")
ReadUnary(p) == Item(p, "unary")
ReadPostfix(p) == Item(p, "postfix")
ReadType(p, cls) == Item(p, IF cls THEN "type" ELSE "plaintype")
ReadStatement(p) == Item(p, "statement")
ReadIf(p) == Item(p, "if")
ReadFunction(p) == Item(p, "function")

\* do read an item while match(TOKEN_COMMA)
RECURSIVE CommaList(_, _, _)
CommaList(p, kind, items) ==
    LET x == Item(p, kind)
        all == Append(items, x.val)
    IN IF Cur(x) = "," THEN CommaList(AdvanceToken(x), kind, all) ELSE Node(x, all)

\* A list in brackets that may be empty; the opening bracket has been read.
Enclosed(p, kind, close) ==
    LET l == IF Cur(p) = close THEN Node(p, <<>>) ELSE CommaList(p, kind, <<>>)
    IN Node(Consume(l, close), l.val)

\* The loops that read to a closing brace: an item, and recovery if it is
\* needed.  A class member without a name skips the recovery, a match has none.
AfterMember(x, kind) ==
    IF x.panic /\ kind # "arm" /\ ~(kind = "classmember" /\ x.val = <<"unnamed">>) THEN SynchronizeBlock(x) ELSE x
Progressed(p, x, kind) ==
    IF x.pos = p.pos /\ x.cur = p.cur /\ x.stuck = "no" THEN [x EXCEPT !.stuck = kind] ELSE x
RECURSIVE Members(_, _, _)
Members(p, kind, items) ==
    IF Cur(p) \in {"}", "eof"} \/ p.stuck # "no" THEN Node(p, items)
    ELSE LET x == Item(p, kind)
         IN Members(Progressed(p, AfterMember(x, kind), kind), kind, Append(items, x.val))

Braced(p, kind) == LET l == Members(p, kind, <<>>) IN Node(Consume(l, "}"), l.val)

-----------------------------------------------------------------------------
(* Types.  cls is TRUE for parse_type_with_class and FALSE for parse_type:   *)
(* they read the same tokens and differ in what they return.                 *)

TypeArguments(p) == IF Cur(p) = "<" THEN ConsumeGenericClose(CommaList(AdvanceToken(p), "type", <<>>)) ELSE p

RECURSIVE DynTraits(_)
DynTraits(p) == LET n == ConsumeName(p) IN IF Cur(n) = "+" THEN DynTraits(AdvanceToken(n)) ELSE n
DynTraitBounds(p) == IF Cur(p) = "[" THEN Consume(DynTraits(AdvanceToken(p)), "]") ELSE p

RECURSIVE LambdaTypeParams(_, _)
InnerTypeParam(p) == IF Cur(p) = "<" THEN ConsumeGenericClose(ReadType(AdvanceToken(p), TRUE)) ELSE p

LambdaTypeParams(p, count) ==
    IF Cur(p) \in {")", "eof"} THEN Node(p, count)
    ELSE LET t == ReadType(p, TRUE) IN
           IF Cur(t) = "," THEN LambdaTypeParams(AdvanceToken(t), count + 1) ELSE Node(t, count + 1)

\* The signature is kept for the declaration that has this type.
LambdaTypeInfo(p) ==
    LET l == IF Cur(p) = "(" THEN LambdaTypeParams(AdvanceToken(p), 0) ELSE Node(p, 0)
        c == IF Cur(p) = "(" THEN Consume(l, ")") ELSE l
        r == IF Cur(c) = "->" THEN ReadType(AdvanceToken(c), TRUE) ELSE c
    IN [r EXCEPT !.fn = l.val, !.val = "func"]

\* A type that is an identifier; some identifiers have a meaning here.
NamedType(p, cls) ==
    LET t == Cur(p)
        n == AdvanceToken(p)
    IN CASE t \in {"vec4", "mat4"} -> Node(InnerTypeParam(n), t)
         [] t = "dyn" -> Node(DynTraitBounds(n), "dyn")
         [] t \in IntAliases -> Node(n, "i32")
         [] t = "lambda" -> LambdaTypeInfo(n)
         [] t = "T" -> Node(n, "error")
         [] t = "Tuple" -> Node(TypeArguments(n), "error")
         [] t \in Identifiers \ (IntAliases \cup {"dyn", "lambda", "T", "Tuple", "vec4", "mat4"}) ->
                Node(TypeArguments(n), IF cls THEN t ELSE "class")
         [] OTHER -> Node(ErrorAt(p), "error")

ParseType(p0, cls) ==
    LET p == [p0 EXCEPT !.fn = NoFn]
        t == Cur(p)
        n == AdvanceToken(p)
    IN CASE t = "&" -> LET inner == ReadType(Opt(n, "mut"), cls) IN Node(inner, IF cls THEN inner.val ELSE "ref")
         [] t \in SimpleTypeTokens -> Node(n, t)
         [] t \in ParameterizedTypeTokens -> Node(InnerTypeParam(n), t)
         [] t = "[" -> Node(Consume(Consume(Consume(ReadType(n, FALSE), ";"), "1"), "]"), "static_array")
         [] OTHER -> NamedType(p, cls)

-----------------------------------------------------------------------------
(* Expressions.                                                             *)

\* A "<" after a name opens type arguments if a type keyword or a capitalized
\* name follows.
StartsTypeArguments(p) ==
    Cur(p) = "<" /\ PeekToken(p, 1) \in SimpleTypeTokens \cup ParameterizedTypeTokens \cup Capitalized

Assignable(v) == v[1] \in {"var", "move", "field", "method", "index"}

\* The body of a lambda is an expression, an assignment or a block; without an
\* arrow there is no node.
LambdaBody(p, params) ==
    IF Cur(p) = "=>"
      THEN LET e == ReadExpr(AdvanceToken(p)) IN
             IF Cur(e) = "=" /\ Assignable(e.val)
               THEN LET v == ReadExpr(AdvanceToken(e)) IN Node(v, <<"lambda", params, <<"assign", e.val, v.val>>>>)
               ELSE Node(e, <<"lambda", params, e.val>>)
    ELSE IF Cur(p) = "->"
      THEN LET t == ReadType(AdvanceToken(p), TRUE)
               b == Braced(Consume(t, "{"), "declaration")
           IN Node(b, <<"lambda", params, <<"block", t.val, b.val>>>>)
    ELSE Node(ErrorAt(p), NilNode)

\* The first bar has been read.
LambdaExpression(p) ==
    LET c == IF Cur(p) \in {"&", "move", "copy"} THEN Consume(Consume(AdvanceToken(p), "|"), "|") ELSE p
        l == IF Cur(c) = ":" THEN Node(AdvanceToken(c), <<>>)
             ELSE IF Cur(c) = "|" THEN Node(c, <<>>) ELSE CommaList(c, "param", <<>>)
    IN LambdaBody(Consume(l, "|"), l.val)

SuperExpression(p) ==
    LET m == ConsumeName(Consume(p, "."))
        args == Enclosed(AdvanceToken(m), "expr", ")")
    IN IF Cur(m) = "(" THEN Node(args, <<"supercall", m.prev, args.val>>) ELSE Node(m, <<"super", m.prev>>)

NewExpression(p) ==
    LET c == ConsumeName(p)
        args == Enclosed(Consume(TypeArguments(c), "("), "expr", ")")
    IN Node(args, <<"new", c.prev, args.val>>)

NameExpression(p) ==
    LET n == AdvanceToken(p)
        d == IF Cur(p) = "dyn" THEN DynTraitBounds(n) ELSE n
        l == CommaList(AdvanceToken(d), "type", <<>>)
    IN IF StartsTypeArguments(d) THEN Node(ConsumeGenericClose(l), <<"generic", Cur(p), l.val>>)
       ELSE Node(d, <<"var", Cur(p)>>)

\* Of a list in parentheses the last expression is the value.
Grouping(p) == LET l == CommaList(p, "expr", <<>>) IN Node(Consume(l, ")"), Last(l.val))

Primary(p) ==
    LET t == Cur(p)
        n == AdvanceToken(p)
    IN CASE t \in LiteralTokens -> Node(n, <<"lit", t>>)
         [] t = "this" -> Node(n, <<"this">>)
         [] t = "super" -> SuperExpression(n)
         [] t = "move" -> LET v == ConsumeName(n) IN Node(v, <<"move", v.prev>>)
         [] t = "new" -> NewExpression(n)
         [] t \in Identifiers -> NameExpression(p)
         [] t = "(" -> Grouping(n)
         [] t = "|" -> LambdaExpression(n)
         [] t = "await" -> LET e == ReadUnary(n) IN Node(e, <<"await", e.val>>)
         [] t = "[" -> LET l == Enclosed(n, "expr", "]") IN Node(l, <<"list", l.val>>)
         [] OTHER -> Node(ErrorAt(p), <<"error">>)

\* The loop of postfix and of postfix_with_expr: calls, indices and members
\* of what has been read.
RECURSIVE PostfixWithExpr(_)
MemberAccess(e) ==
    LET d == AdvanceToken(e)
        m == IF Cur(d) \in Identifiers \cup {"print", "union"} THEN AdvanceToken(d) ELSE ErrorAt(d)
        args == Enclosed(AdvanceToken(m), "expr", ")")
    IN IF Cur(m) = "(" THEN Node(args, <<"method", e.val, m.prev, args.val>>)
       ELSE Node(m, <<"field", e.val, m.prev>>)
PostfixWithExpr(e) ==
    LET n == AdvanceToken(e) IN
      CASE Cur(e) = "(" -> LET a == Enclosed(n, "expr", ")") IN PostfixWithExpr(Node(a, <<"call", e.val, a.val>>))
        [] Cur(e) = "[" -> LET i == ReadExpr(n) IN
                             PostfixWithExpr(Node(Consume(i, "]"), <<"index", e.val, i.val>>))
        [] Cur(e) = "." -> PostfixWithExpr(MemberAccess(e))
        [] OTHER -> e
Postfix(p) == PostfixWithExpr(Primary(p))

Unary(p) ==
    IF Cur(p) \in {"!", "-", "~"}
      THEN LET e == ReadUnary(AdvanceToken(p)) IN Node(e, <<"un", Cur(p), e.val>>)
      ELSE ReadPostfix(p)

\* A "|" does not continue an expression where a lambda starts.
LambdaStarts(p) ==
    \/ PeekToken(p, 1) \in Identifiers /\ PeekToken(p, 2) = ":"
    \/ PeekToken(p, 1) = "|"
Continues(p, level) == Cur(p) \in Levels[level] /\ ~(Cur(p) = "|" /\ LambdaStarts(p))

RECURSIVE BinaryLevel(_, _), BinaryLoop(_, _)
RightOperand(p, level) == IF level = Len(Levels) THEN ReadPostfix(p) ELSE BinaryLevel(p, level + 1)
BinaryLoop(e, level) ==
    IF ~Continues(e, level) THEN e
    ELSE LET r == RightOperand(AdvanceToken(e), level)
         IN BinaryLoop(Node(r, <<"bin", Cur(e), e.val, r.val>>), level)
BinaryLevel(p, level) == BinaryLoop(IF level = Len(Levels) THEN ReadUnary(p) ELSE BinaryLevel(p, level + 1), level)

Expression(p) == BinaryLevel(p, 1)

-----------------------------------------------------------------------------
(* Statements; the keyword has been read.                                   *)

BlockStatement(p) == Braced(Consume(p, "{"), "declaration")

PrintStatement(p) ==
    LET e == ReadExpr(Consume(p, "(")) IN Node(Opt(Consume(e, ")"), ";"), <<"print", e.val>>)

IfStatement(p) ==
    LET c == ReadExpr(p)
        b == BlockStatement(c)
        elif == ReadIf(AdvanceToken(b))
        else == BlockStatement(AdvanceToken(b))
    IN IF Cur(b) = "elif" THEN Node(elif, <<"if", c.val, b.val, <<"elif", elif.val>>>>)
       ELSE IF Cur(b) = "else" THEN Node(else, <<"if", c.val, b.val, <<"else", else.val>>>>)
       ELSE Node(b, <<"if", c.val, b.val, None>>)

\* The condition of while and the subject of match may stand in parentheses.
Condition(p) ==
    LET e == ReadExpr(Opt(p, "(")) IN Node(IF Cur(p) = "(" THEN Consume(e, ")") ELSE e, e.val)

WhileStatement(p) ==
    LET c == Condition(p)
        b == BlockStatement(c)
    IN Node(b, <<"while", c.val, b.val>>)

ForInStatement(p) ==
    LET v == ConsumeName(p)
        e == ReadExpr(Consume(v, "in"))
        b == BlockStatement(e)
    IN Node(b, <<"forin", v.prev, e.val, b.val>>)

ForStatement(p) ==
    IF AtIdentifier(p) /\ PeekToken(p, 1) = "in" THEN ForInStatement(p)
    ELSE LET v == ConsumeName(Consume(p, "("))
             t == ReadType(Consume(v, ":"), FALSE)
             i == ReadExpr(Consume(t, "="))
             c == ReadExpr(Consume(i, ";"))
             w == ConsumeName(Consume(c, ";"))
             x == ReadExpr(Consume(w, "="))
             b == BlockStatement(Consume(x, ")"))
         IN Node(b, <<"for">>)

ReturnStatement(p) ==
    LET e == IF Cur(p) \in {";", "}", "eof"} THEN Node(p, None) ELSE ReadExpr(p)
    IN Node(Opt(e, ";"), <<"return", e.val>>)

ThrowStatement(p) == LET e == ReadExpr(p) IN Node(Opt(e, ";"), <<"throw", e.val>>)

\* A name before the pattern is consumed, and not only the wildcard.
MatchArm(p) ==
    LET n == IF AtIdentifier(p) THEN AdvanceToken(p) ELSE p
        pattern == IF Cur(p) = "_" THEN Node(n, None) ELSE ReadExpr(n)
        a == Consume(pattern, "=>")
        body == IF Cur(a) = "{" THEN LET b == BlockStatement(a) IN Node(b, <<"block", b.val>>) ELSE ReadStatement(a)
    IN Node(Opt(body, ","), <<"arm", pattern.val, body.val>>)

MatchStatement(p) ==
    LET s == Condition(p)
        arms == Braced(Consume(s, "{"), "arm")
    IN Node(arms, <<"match", s.val, arms.val>>)

CatchClause(p) ==
    LET o == Consume(p, "(")
        v == IF Cur(o) = ")" THEN o ELSE ConsumeName(o)
        t == IF Cur(o) # ")" /\ Cur(v) = ":" THEN ConsumeName(AdvanceToken(v)) ELSE v
        b == BlockStatement(Consume(t, ")"))
    IN b

RECURSIVE CatchClauses(_)
CatchClauses(p) == IF Cur(p) # "catch" THEN p ELSE CatchClauses(CatchClause(AdvanceToken(p)))

TryStatement(p) ==
    LET c == CatchClauses(BlockStatement(p))
    IN Node(IF Cur(c) = "finally" THEN BlockStatement(AdvanceToken(c)) ELSE c, <<"try">>)

\* The operator of a compound assignment is applied to a copy of the target.
AssignmentTo(e) ==
    LET a == AdvanceToken(e)
        v == ReadExpr(IF Assignable(e.val) THEN a ELSE ErrorAt(a))
        value == IF Cur(e) = "=" THEN v.val ELSE <<"bin", BinaryOf[Cur(e)], e.val, v.val>>
    IN Node(Opt(v, ";"), <<"assign", e.val, value>>)

FinishExpression(e) ==
    IF Cur(e) \in AssignTokens THEN AssignmentTo(e) ELSE Node(Opt(e, ";"), <<"expr", e.val>>)

\* The expression is used without a test, and a lambda may have failed.
ExpressionStatement(p) ==
    LET e == ReadExpr(p)
        f == FinishExpression(e)
    IN IF e.val = NilNode /\ f.stuck = "no" THEN [f EXCEPT !.stuck = "null"] ELSE f

Statement(p) ==
    LET n == AdvanceToken(p) IN
      CASE Cur(p) = "print" -> PrintStatement(n)
        [] Cur(p) = "if" -> ReadIf(n)
        [] Cur(p) = "while" -> WhileStatement(n)
        [] Cur(p) = "for" -> ForStatement(n)
        [] Cur(p) = "return" -> ReturnStatement(n)
        [] Cur(p) = "{" -> LET b == Braced(n, "declaration") IN Node(b, <<"block", b.val>>)
        [] Cur(p) = "match" -> MatchStatement(n)
        [] Cur(p) = "try" -> TryStatement(n)
        [] Cur(p) = "throw" -> ThrowStatement(n)
        [] Cur(p) \in {"break", "continue"} -> Node(Opt(n, ";"), <<Cur(p)>>)
        [] OTHER -> ExpressionStatement(p)

-----------------------------------------------------------------------------
(* Declarations; the keyword has been read.                                 *)

OptType(p) == IF Cur(p) = ":" THEN ReadType(AdvanceToken(p), TRUE) ELSE Node(p, "error")
OptValue(p) == IF Cur(p) = "=" THEN ReadExpr(AdvanceToken(p)) ELSE Node(p, None)
ReturnType(p) == IF Cur(p) = "->" THEN ReadType(AdvanceToken(p), TRUE) ELSE Node([p EXCEPT !.fn = NoFn], "void")
TypeParams(p) ==
    IF Cur(p) = "<" THEN ConsumeGenericClose(CommaList(AdvanceToken(p), "typeparam", <<>>)) ELSE p

\* name: Type = value, with the name read.
TypedName(p, kind) ==
    LET t == ReadType(Consume(p, ":"), TRUE)
        v == OptValue(t)
    IN Node(Opt(v, ";"), <<kind, p.prev, t.val, v.val>>)

VarDeclaration(p) == TypedName(p, "var")
MutDeclaration(p) == TypedName(ConsumeName(p), "mut")

LetDeclaration(p) ==
    LET n == ConsumeName(p)
        t == OptType(n)
        v == OptValue(t)
        w == IF Cur(t) # "=" /\ t.val = "error" THEN ErrorAt(v) ELSE v
    IN Node(Opt(w, ";"), <<"let", n.prev, t.val, v.val>>)

ConstDeclaration(p) ==
    LET n == ConsumeName(p)
        t == OptType(n)
        v == ReadExpr(Consume(t, "="))
    IN Node(Opt(v, ";"), <<"const", n.prev, t.val, v.val>>)

FunctionDeclaration(p) ==
    LET n == ConsumeName(p)
        params == Enclosed(Consume(TypeParams(n), "("), "param", ")")
        r == ReturnType(params)
        b == IF Cur(r) = "{" THEN Braced(AdvanceToken(r), "declaration")
             ELSE Braced([r EXCEPT !.implicit = @ \cup {r.pos}], "declaration")
    IN Node(b, <<"func", n.prev, params.val, r.val, r.fn, b.val>>)

ExternDeclaration(p) ==
    LET n == ConsumeName(Consume(p, "func"))
        r == ReadType(Consume(Enclosed(Consume(n, "("), "param", ")"), "->"), TRUE)
    IN Node(Opt(r, ";"), <<"extern">>)

TraitMethod(p) ==
    LET n == ConsumeName(Opt(p, "func"))
        r == ReturnType(Enclosed(Consume(n, "("), "traitparam", ")"))
    IN IF Cur(r) = "{" THEN BlockStatement(r) ELSE Opt(r, ";")

TraitStatement(p) ==
    Node(Braced(Consume(TypeParams(ConsumeName(p)), "{"), "traitmethod"), <<"trait">>)

\* struct, enum and union: a name and a list of members, each followed by an
\* optional comma and an optional semicolon.
FieldOf(p, cls) == Opt(Opt(ReadType(Consume(ConsumeName(p), ":"), cls), ","), ";")

Variant(p) ==
    LET n == ConsumeName(p)
        e == IF Cur(n) = "(" THEN Consume(CommaList(AdvanceToken(n), "type", <<>>), ")") ELSE n
    IN Opt(Opt(e, ","), ";")

StructDeclaration(p) == Node(Braced(Consume(ConsumeName(p), "{"), "structfield"), <<"struct">>)
EnumDeclaration(p) == Node(Braced(Consume(ConsumeName(p), "{"), "variant"), <<"enum">>)
UnionDeclaration(p) == Node(Braced(Consume(ConsumeName(p), "{"), "unionfield"), <<"union">>)

ImplDeclaration(p) ==
    LET g == TypeParams(ConsumeName(p))
        f == IF Cur(g) = "for" THEN ConsumeName(AdvanceToken(g)) ELSE g
    IN Node(Braced(Consume(f, "{"), "implmethod"), <<"impl">>)

IncludeStatement(p) ==
    IF Cur(p) = "str" THEN Node(Opt(AdvanceToken(p), ";"), <<"include">>) ELSE Node(ErrorAt(p), NilNode)

-----------------------------------------------------------------------------
(* Classes.                                                                 *)

ModifierGroup == [t \in {"public", "private", "protected", "static", "abstract", "let", "mut", "const"} |->
    IF t \in {"public", "private", "protected"} THEN "access"
    ELSE IF t \in {"let", "mut", "const"} THEN "binding" ELSE t]
NoModifiers == [g \in {"access", "static", "abstract", "binding"} |-> "none"]

\* Modifiers in any order, each at most once.
RECURSIVE Modifiers(_, _)
Modifiers(p, mods) ==
    IF Cur(p) \notin DOMAIN ModifierGroup THEN Node(p, mods)
    ELSE LET g == ModifierGroup[Cur(p)]
             n == AdvanceToken(p)
         IN Modifiers(IF mods[g] = "none" THEN n ELSE ErrorAt(n), [mods EXCEPT ![g] = Cur(p)])

MethodNames == Identifiers \cup {"new", "print", "union"}
Method(p, mods) ==
    LET f == AdvanceToken(IF mods.binding = "none" THEN p ELSE ErrorAt(p))
        n == AdvanceToken(f)
        r == ReturnType(Enclosed(Consume(n, "("), "param", ")"))
        b == IF mods.abstract # "none" THEN Opt(r, ";") ELSE BlockStatement(r)
    IN IF Cur(f) \in MethodNames THEN Node(b, <<"method">>) ELSE Node(ErrorAt(f), <<"unnamed">>)

ClassMember(p0) ==
    LET p == Modifiers(p0, NoModifiers)
        mods == p.val
        q == IF mods.abstract = "none" THEN p ELSE ErrorAt(p)
        field(n) == TypedName(n, "field")
    IN CASE Cur(p) = "func" -> Method(p, mods)
         [] Cur(p) # "func" /\ mods.binding # "none" -> field(ConsumeName(q))
         [] Cur(p) = "field" /\ mods.binding = "none" -> field(ConsumeName(AdvanceToken(q)))
         [] AtIdentifier(p) /\ Cur(p) # "field" /\ mods.binding = "none" ->
                LET n == AdvanceToken(q) IN IF Cur(n) = ":" THEN field(n) ELSE Node(ErrorAt(n), NilNode)
         [] OTHER -> Node(AdvanceToken(ErrorAt(p)), NilNode)

ClassDeclaration(p) ==
    LET g == TypeParams(ConsumeName(p))
        e == IF Cur(g) = "extends" THEN ConsumeName(AdvanceToken(g)) ELSE g
        i == IF Cur(e) = "implements" THEN CommaList(AdvanceToken(e), "name", <<>>) ELSE e
    IN Node(Braced(Consume(i, "{"), "classmember"), <<"class">>)

-----------------------------------------------------------------------------
(* What a declaration, or a statement, begins with.                         *)

Unsupported(p) == Node(AdvanceToken(ErrorAt(p)), NilNode)

\* A name begins a declaration, or an expression of which only the calls,
\* indices and members that follow the name are read.
NameStatement(p) ==
    LET n == AdvanceToken(p)
        v == ReadExpr(AdvanceToken(n))
    IN CASE Cur(n) = ":" -> VarDeclaration(n)
         [] Cur(n) = ":=" -> Node(Opt(v, ";"), <<"infer", Cur(p), v.val>>)
         [] OTHER -> FinishExpression(PostfixWithExpr(Node(n, <<"var", Cur(p)>>)))

Declaration(p0) ==
    LET abstract == Cur(p0) = "abstract"
        p1 == Opt(p0, "abstract")
        p2 == Opt(p1, "async")
        p == IF abstract /\ Cur(p2) \notin {"implements", "class"} THEN ErrorAt(p2) ELSE p2
        n == AdvanceToken(p)
        alloc == Cur(p) = "alloc" /\ PeekToken(p, 1) = "{"
    IN CASE Cur(p) \in {"implements", "spawn"} -> Unsupported(p)
         [] Cur(p) = "class" -> ClassDeclaration(n)
         [] Cur(p) = "func" -> ReadFunction(n)
         [] Cur(p) \in {"include", "import"} -> IncludeStatement(n)
         [] Cur(p) = "extern" -> ExternDeclaration(n)
         [] Cur(p) = "struct" -> StructDeclaration(n)
         [] Cur(p) = "enum" -> EnumDeclaration(n)
         [] Cur(p) = "union" -> UnionDeclaration(n)
         [] Cur(p) = "trait" -> TraitStatement(n)
         [] Cur(p) = "let" -> LetDeclaration(n)
         [] Cur(p) = "const" -> ConstDeclaration(n)
         [] Cur(p) = "mut" -> MutDeclaration(n)
         [] Cur(p) = "impl" -> ImplDeclaration(n)
         [] alloc -> LET b == BlockStatement(n) IN Node(b, <<"alloc", b.val>>)
         [] AtIdentifier(p) /\ ~alloc -> NameStatement(p)
         [] OTHER -> ReadStatement(p)

-----------------------------------------------------------------------------
(* Items.                                                                   *)

Param(p) ==
    LET n == ConsumeName(p)
        t == ReadType(Consume(n, ":"), TRUE)
    IN [t EXCEPT !.val = <<n.prev, t.val, t.fn>>, !.fn = NoFn]

TraitParam(p) ==
    LET n == ConsumeName(p) IN IF Cur(n) = ":" THEN ReadType(AdvanceToken(n), FALSE) ELSE n

RECURSIVE SkipBounds(_)
SkipBounds(p) == IF Cur(p) \in {",", ">", "eof"} THEN p ELSE SkipBounds(AdvanceToken(p))
TypeParam(p) ==
    LET n == ConsumeName(p)
        c == IF Cur(n) = ":" THEN ConsumeName(AdvanceToken(n)) ELSE n
    IN IF Cur(c) = "implements" THEN SkipBounds(ErrorAt(c)) ELSE c

Item(p, kind) ==
    CASE kind = "expr" -> Expression(p)
      [] kind = "unary" -> Unary(p)
      [] kind = "postfix" -> Postfix(p)
      [] kind = "statement" -> Statement(p)
      [] kind = "if" -> IfStatement(p)
      [] kind = "function" -> FunctionDeclaration(p)
      [] kind = "type" -> ParseType(p, TRUE)
      [] kind = "plaintype" -> ParseType(p, FALSE)
      [] kind = "param" -> Param(p)
      [] kind = "traitparam" -> TraitParam(p)
      [] kind = "typeparam" -> TypeParam(p)
      [] kind = "name" -> ConsumeName(p)
      [] kind = "declaration" -> Declaration(p)
      [] kind = "arm" -> MatchArm(p)
      [] kind = "structfield" -> FieldOf(p, TRUE)
      [] kind = "unionfield" -> FieldOf(p, FALSE)
      [] kind = "variant" -> Variant(p)
      [] kind = "traitmethod" -> TraitMethod(p)
      [] kind = "implmethod" -> ReadFunction(Consume(p, "func"))
      [] kind = "classmember" -> ClassMember(p)

-----------------------------------------------------------------------------
(* parse: declarations to the end of the text.                              *)

InitParser ==
    AdvanceToken([pos |-> 0, cur |-> "start", prev |-> "start", panic |-> FALSE, err |-> FALSE,
                  fn |-> NoFn, val |-> NilNode, stuck |-> "no", implicit |-> {}])

\* Append a declaration and recover if it failed.
Declared(d) == /\ ps_program' = Append(ps_program, d.val)
               /\ ps_state' = Progressed(ps_state, IF d.panic THEN Synchronize(d) ELSE d, "parse")

ParseDeclaration ==
    /\ Cur(ps_state) # "eof" /\ ps_state.stuck = "no"
    /\ Declared(Item(ps_state, "declaration"))
    /\ UNCHANGED <<ps_tree, ps_tokens>>

PsNext == ParseDeclaration

-----------------------------------------------------------------------------
(* The text of a tree: what it is written as with as few parentheses as the  *)
(* precedence of operators allows, and with all semicolons or with those     *)
(* alone that part two statements.  Three places differ from the grammar in  *)
(* the documents and need parentheses: a unary operand on the right of a     *)
(* product, a statement that begins with a name and goes on with an operator, *)
(* and a pattern that begins with a name.                                    *)

Precedence == [op \in UNION {Levels[i] : i \in DOMAIN Levels} |->
    CASE op = "||" -> 1 [] op = "&&" -> 2 [] op = "|" -> 3 [] op = "^" -> 4 [] op = "&" -> 5
      [] op \in {"==", "!="} -> 6 [] op \in {"<", "<=", ">", ">="} -> 7 [] op \in {"<<", ">>"} -> 8
      [] op \in {"+", "-"} -> 9 [] op \in {"*", "/", "%"} -> 10]
Product == 10
Prefix == 11
Closed == 12
Tightness(e) ==
    CASE e[1] = "bin" -> Precedence[e[2]]
      [] e[1] \in {"un", "await"} -> Prefix
      [] e[1] = "lambda" -> 0
      [] OTHER -> Closed

InParens(s) == <<"(">> \o s \o <<")">>
Separated(ss, sep) == FoldLeft(LAMBDA acc, s : IF acc = <<>> THEN s ELSE acc \o <<sep>> \o s, <<>>, ss)

TypeText(t, fn) ==
    CASE t = "func" -> <<"lambda", "(">> \o Separated([i \in 1 .. fn |-> <<"i32">>], ",") \o <<")">>
      [] t = "array" -> <<"array", "<", "i32", ">">>
      [] t = "C" -> <<"C", "<", "array", "<", "i32", ">>">>       \* two lists that end together
      [] t = "static_array" -> <<"[", "i32", ";", "1", "]">>
      [] OTHER -> <<t>>
ParamText(x) == <<x[1], ":">> \o TypeText(x[2], x[3])
ParamsText(ps) == Separated([i \in DOMAIN ps |-> ParamText(ps[i])], ",")

RECURSIVE ExprText(_), StatementsText(_, _)
AtLeast(e, strength) == IF Tightness(e) < strength THEN InParens(ExprText(e)) ELSE ExprText(e)
ArgsText(es) == Separated([i \in DOMAIN es |-> ExprText(es[i])], ",")

LambdaBodyText(b) ==
    CASE b[1] = "assign" -> <<"=>">> \o ExprText(b[2]) \o <<"=">> \o ExprText(b[3])
      [] b[1] = "block" -> <<"->">> \o TypeText(b[2], 0) \o <<"{">> \o StatementsText(b[3], TRUE) \o <<"}">>
      [] OTHER -> <<"=>">> \o ExprText(b)

ExprText(e) ==
    CASE e[1] \in {"lit", "var"} -> <<e[2]>>
      [] e[1] = "this" -> <<"this">>
      [] e[1] = "move" -> <<"move", e[2]>>
      [] e[1] = "super" -> <<"super", ".", e[2]>>
      [] e[1] = "supercall" -> <<"super", ".", e[2], "(">> \o ArgsText(e[3]) \o <<")">>
      [] e[1] = "new" -> <<"new", e[2], "(">> \o ArgsText(e[3]) \o <<")">>
      [] e[1] = "generic" -> <<e[2], "<">> \o Separated([i \in DOMAIN e[3] |-> TypeText(e[3][i], 0)], ",") \o <<">">>
      [] e[1] = "list" -> <<"[">> \o ArgsText(e[2]) \o <<"]">>
      [] e[1] = "un" -> <<e[2]>> \o AtLeast(e[3], Prefix)
      [] e[1] = "await" -> <<"await">> \o AtLeast(e[2], Prefix)
      [] e[1] = "bin" -> LET s == Precedence[e[2]] IN
            AtLeast(e[3], s) \o <<e[2]>> \o AtLeast(e[4], IF s = Product THEN Closed ELSE s + 1)
      [] e[1] = "call" -> (IF e[2][1] \in {"field", "super"} THEN InParens(ExprText(e[2])) ELSE AtLeast(e[2], Closed)) \o InParens(ArgsText(e[3]))
      [] e[1] = "index" -> AtLeast(e[2], Closed) \o <<"[">> \o ExprText(e[3]) \o <<"]">>
      [] e[1] = "field" -> AtLeast(e[2], Closed) \o <<".", e[3]>>
      [] e[1] = "method" -> AtLeast(e[2], Closed) \o <<".", e[3]>> \o InParens(ArgsText(e[4]))
      [] e[1] = "lambda" -> <<"|">> \o ParamsText(e[2]) \o <<"|">> \o LambdaBodyText(e[3])

FromName(e, strength) ==
    IF Tightness(e) < strength /\ Head(ExprText(e)) \in Identifiers THEN InParens(ExprText(e)) ELSE ExprText(e)
AssignText(s) ==
    LET compound == s[3][1] = "bin" /\ s[3][2] \in {"+", "-", "*", "/", "%"} /\ s[3][3] = s[2]
        op == CHOOSE t \in DOMAIN BinaryOf : BinaryOf[t] = s[3][2]
    IN ExprText(s[2]) \o (IF compound THEN <<op>> \o ExprText(s[3][4]) ELSE <<"=">> \o ExprText(s[3]))
BracesText(b, semi) == <<"{">> \o StatementsText(b, semi) \o <<"}">>

RECURSIVE StatementText(_, _)
ElseText(e, semi) ==
    CASE e[1] = "elif" -> <<"elif">> \o Tail(StatementText(e[2], semi))
      [] e[1] = "else" -> <<"else">> \o BracesText(e[2], semi)
      [] OTHER -> <<>>
ArmText(a, semi) ==
    (IF a[2] = None THEN <<"_">> ELSE FromName(a[2], Closed + 1))
      \o <<"=>">> \o (IF a[3][1] = "block" THEN BracesText(a[3][2], semi) ELSE StatementText(a[3], semi) \o <<";">>)
StatementText(s, semi) ==
    CASE s[1] = "print" -> <<"print">> \o InParens(ExprText(s[2]))
      [] s[1] = "return" -> <<"return">> \o (IF s[2] = None THEN <<>> ELSE ExprText(s[2]))
      [] s[1] = "expr" -> FromName(s[2], Closed)
      [] s[1] = "assign" -> AssignText(s)
      [] s[1] = "infer" -> <<s[2], ":=">> \o ExprText(s[3])
      [] s[1] = "let" -> <<"let", s[2], ":">> \o TypeText(s[3], 0) \o (IF s[4] = None THEN <<>> ELSE <<"=">> \o ExprText(s[4]))
      [] s[1] = "block" -> BracesText(s[2], semi)
      [] s[1] = "if" -> <<"if">> \o ExprText(s[2]) \o BracesText(s[3], semi) \o ElseText(s[4], semi)
      [] s[1] = "while" -> <<"while">> \o InParens(ExprText(s[2])) \o BracesText(s[3], semi)
      [] s[1] = "forin" -> <<"for", s[2], "in">> \o ExprText(s[3]) \o BracesText(s[4], semi)
      [] s[1] = "match" -> <<"match">> \o InParens(ExprText(s[2])) \o <<"{">>
            \o FlattenSeq([i \in DOMAIN s[3] |-> ArmText(s[3][i], semi)]) \o <<"}">>
      [] s[1] = "func" -> <<"func", s[2]>> \o InParens(ParamsText(s[3]))
            \o (IF s[4] = "void" THEN <<>> ELSE <<"->">> \o TypeText(s[4], s[5])) \o BracesText(s[6], semi)

\* A statement needs its semicolon where what follows would continue it.
EndsOpen(s) == s[1] \in {"print", "return", "expr", "assign", "infer", "let"}
NeedsSemicolon(s, t) ==
    \/ s[1] \in {"return", "expr", "assign", "infer", "let"} /\ Head(StatementText(t, TRUE)) \in {"(", "[", "-"}
    \/ s = <<"return", None>>
StatementsText(b, semi) ==
    FlattenSeq([i \in DOMAIN b |-> StatementText(b[i], semi) \o
        (IF EndsOpen(b[i]) /\ (semi \/ (i < Len(b) /\ NeedsSemicolon(b[i], b[i + 1]))) THEN <<";">> ELSE <<>>)])

-----------------------------------------------------------------------------

PsInit ==
    /\ \/ ps_tree = NoTree /\ ps_tokens \in PsTexts
       \/ ps_tree \in PsTrees /\ \E semi \in BOOLEAN : ps_tokens = StatementsText(ps_tree, semi)
    /\ ps_state = InitParser /\ ps_program = <<>>

PsSpec == PsInit /\ [][PsNext]_psVars

Finished == Cur(ps_state) = "eof" \/ ps_state.stuck # "no"

\* Every loop of the parser comes to an end, whatever the tokens: recovery
\* skips a token, and what is not recovered from has read one.  The loop over
\* the arms of a match has neither (parser.c:1734).  A null node is used only
\* after an error (parser.c:1870).
PsTerminates ==
    /\ ps_state.stuck \in {"no", "null", "arm"}
    /\ ps_state.stuck # "no" => ps_state.err

\* What is accepted has its brackets in pairs, where a function body without
\* an opening brace counts as opened (parser.c:1993).
Pair == [t \in {")", "]", "}"} |-> IF t = ")" THEN "(" ELSE IF t = "]" THEN "[" ELSE "{"]
OpenAfter(open, i) ==
    LET o == IF i \in ps_state.implicit THEN Append(open, "{") ELSE open
        t == ps_tokens[i]
    IN CASE t \in {"(", "[", "{"} -> Append(o, t)
         [] t \in DOMAIN Pair -> IF o # <<>> /\ Last(o) = Pair[t] THEN Front(o) ELSE Append(o, "unpaired")
         [] OTHER -> o
PsBalanced ==
    Finished /\ ~ps_state.err =>
        FoldLeft(OpenAfter, <<>>, [i \in DOMAIN ps_tokens |-> i]) = <<>>

\* The text of a program is read as that program: operators group by their
\* precedence and to the left, optional semicolons may be left out, ">>"
\* closes two type lists, and the signature of a function type stays with its
\* parameter.
PsReadsBack == ps_tree # NoTree /\ Finished => ~ps_state.err /\ ps_program = ps_tree

PsCorrect == PsTerminates /\ PsBalanced /\ PsReadsBack

=============================================================================
