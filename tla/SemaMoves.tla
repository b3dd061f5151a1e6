------------------------------ MODULE SemaMoves ------------------------------
(***************************************************************************)
(* The path-sensitive move analysis of src/compiler/sema/semantic.c, over  *)
(* the move state kept by sema/ownership_check.c, for functions with one   *)
(* owned variable x.  The function is chosen first; its analysis is one    *)
(* step.                                                                   *)
(*                                                                         *)
(* A block is a sequence of statements.  "use" reads x, "move" reads and   *)
(* moves it (a declaration or an assignment whose value is `move x`), and  *)
(* a condition reads nothing.  The move state of the code maps symbols to  *)
(* a bit; that of the model is the bit of x.                               *)
(***************************************************************************)
EXTENDS Integers, Sequences, FiniteSets

CONSTANT SmBodies   \* the function bodies, blocks

VARIABLES
    sm_body,          \* the function
    sm_done,          \* it was analysed
    sm_errors         \* the uses reported, by their places

smVars == <<sm_body, sm_done, sm_errors>>

SmInit == sm_body \in SmBodies /\ sm_done = FALSE /\ sm_errors = {}

-----------------------------------------------------------------------------
(* What the code asks of the tree alone.                                    *)

\* branch_diverges.  An if without an else has the empty block there.
RECURSIVE BranchDiverges(_)
BranchDiverges(block) ==
    \E i \in DOMAIN block :
      \/ block[i].k \in {"return", "break", "continue"}
      \/ block[i].k = "if" /\ BranchDiverges(block[i].then) /\ BranchDiverges(block[i].else)
      \/ /\ block[i].k = "match" /\ block[i].arms # <<>>
         /\ \A a \in DOMAIN block[i].arms : BranchDiverges(block[i].arms[a])

\* The blocks inside a statement.
Blocks(s) == CASE s.k = "if" -> <<s.then, s.else>>
               [] s.k = "match" -> s.arms
               [] s.k = "while" -> <<s.body>>
               [] s.k = "for" -> <<s.body, s.inc>>
               [] OTHER -> <<>>

\* stmt_has_move.
RECURSIVE StmtHasMove(_)
StmtHasMove(block) ==
    \E i \in DOMAIN block :
      \/ block[i].k = "move"
      \/ \E b \in DOMAIN Blocks(block[i]) : StmtHasMove(Blocks(block[i])[b])

-----------------------------------------------------------------------------
(* The analysis.  An analysis goes from a move state to a move state and    *)
(* reports; a place is the path of a statement in the tree.                 *)

SmResult(moved, errs) == [moved |-> moved, errs |-> errs]

\* own_state_merge_intersect and own_state_merge_union, of one symbol.
MergeIntersect(a, b) == a /\ b
MergeUnion(a, b) == a \/ b

\* check_ownership_valid: what reading x reports.
CheckOwnershipValid(moved, place) == IF moved THEN {place} ELSE {}

\* Mutation: the join keeps a move of either branch, diverging or not.
JoinIfUnion(s, pre, then, else) == MergeUnion(then, else)

\* The state after an if: of the branches that reach the join.
JoinIf(s, pre, then, else) ==
    LET thenDiv == BranchDiverges(s.then)
        elseDiv == BranchDiverges(s.else)
    IN CASE thenDiv /\ elseDiv -> pre
         [] thenDiv /\ ~elseDiv -> else
         [] ~thenDiv /\ elseDiv -> then
         [] OTHER -> MergeIntersect(then, else)

RECURSIVE AnalyzeStmt(_, _, _), AnalyzeBlock(_, _, _, _), AnalyzeLoopBody(_, _, _),
          AnalyzeArms(_, _, _, _, _)

AnalyzeBlock(block, i, place, moved) ==
    IF i > Len(block) THEN SmResult(moved, {})
    ELSE LET first == AnalyzeStmt(block[i], Append(place, i), moved)
             rest == AnalyzeBlock(block, i + 1, place, first.moved)
         IN SmResult(rest.moved, first.errs \cup rest.errs)

\* analyze_loop_body_fixpoint: a silent pass widens the head, a second reports.
AnalyzeLoopBody(body, place, entry) ==
    IF ~StmtHasMove(body) THEN AnalyzeBlock(body, 1, place, entry)
    ELSE LET prime == AnalyzeBlock(body, 1, place, entry)
             head == MergeUnion(entry, prime.moved)
             final == AnalyzeBlock(body, 1, place, head)
         IN SmResult(MergeUnion(entry, final.moved), final.errs)

\* analyze_match_stmt: every arm from the same state, and no arm at all.
AnalyzeArms(arms, i, place, pre, acc) ==
    IF i > Len(arms) THEN SmResult(acc, {})
    ELSE LET arm == AnalyzeBlock(arms[i], 1, Append(place, i), pre)
             rest == AnalyzeArms(arms, i + 1, place, pre,
                                 IF BranchDiverges(arms[i]) THEN acc
                                 ELSE MergeIntersect(acc, arm.moved))
         IN SmResult(rest.moved, arm.errs \cup rest.errs)

AnalyzeIf(s, place, pre) ==
    LET then == AnalyzeBlock(s.then, 1, Append(place, 1), pre)
        else == AnalyzeBlock(s.else, 1, Append(place, 2), pre)
    IN SmResult(JoinIf(s, pre, then.moved, else.moved), then.errs \cup else.errs)

\* analyze_for_stmt: the increment is analysed once, before the body.
AnalyzeFor(s, place, moved) ==
    LET inc == AnalyzeBlock(s.inc, 1, Append(place, 2), moved)
        body == AnalyzeLoopBody(s.body, Append(place, 1), inc.moved)
    IN SmResult(body.moved, inc.errs \cup body.errs)

AnalyzeStmt(s, place, moved) ==
    CASE s.k = "use" -> SmResult(moved, CheckOwnershipValid(moved, place))
      [] s.k = "move" -> SmResult(TRUE, CheckOwnershipValid(moved, place))
      [] s.k = "if" -> AnalyzeIf(s, place, moved)
      [] s.k = "match" -> AnalyzeArms(s.arms, 1, place, moved, moved)
      [] s.k = "while" -> AnalyzeLoopBody(s.body, Append(place, 1), moved)
      [] s.k = "for" -> AnalyzeFor(s, place, moved)
      [] OTHER -> SmResult(moved, {})   \* return, throw, break, continue

SmAnalyze ==
    /\ ~sm_done
    /\ sm_done' = TRUE
    /\ sm_errors' = AnalyzeBlock(sm_body, 1, <<>>, FALSE).errs
    /\ UNCHANGED sm_body

SmNext == SmAnalyze
SmSpec == SmInit /\ [][SmNext]_smVars

-----------------------------------------------------------------------------
(* What the executions do.  From the set of states of x in which a          *)
(* statement is reached: those in which it falls through (out), breaks      *)
(* (brk) or continues (cont), and the states in which each use is reached.  *)

SmEnd(out, brk, cont, at) == [out |-> out, brk |-> brk, cont |-> cont, at |-> at]

SmJoin(a, b) == SmEnd(a.out \cup b.out, a.brk \cup b.brk, a.cont \cup b.cont, a.at \cup b.at)

RECURSIVE ExecStmt(_, _, _), ExecBlock(_, _, _, _), ExecLoop(_, _, _), ExecArms(_, _, _, _)

ExecBlock(block, i, place, S) ==
    IF i > Len(block) THEN SmEnd(S, {}, {}, {})
    ELSE LET first == ExecStmt(block[i], Append(place, i), S)
             rest == ExecBlock(block, i + 1, place, first.out)
         IN [SmJoin(first, rest) EXCEPT !.out = rest.out]

\* S: the states in which the condition is evaluated, grown to a fixed point.
ExecLoop(s, place, S) ==
    LET inc == IF s.k = "for" THEN s.inc ELSE <<>>
        body == ExecBlock(s.body, 1, Append(place, 1), S)
        next == ExecBlock(inc, 1, Append(place, 2), body.out \cup body.cont)
    IN IF next.out \subseteq S THEN SmEnd(S \cup body.brk, {}, {}, body.at \cup next.at)
       ELSE ExecLoop(s, place, S \cup next.out)

ExecArms(arms, i, place, S) ==
    IF i > Len(arms) THEN SmEnd(S, {}, {}, {})
    ELSE SmJoin(ExecBlock(arms[i], 1, Append(place, i), S), ExecArms(arms, i + 1, place, S))

ExecStmt(s, place, S) ==
    CASE s.k = "use" -> SmEnd(S, {}, {}, {<<place, m>> : m \in S})
      [] s.k = "move" -> SmEnd(IF S = {} THEN {} ELSE {TRUE}, {}, {}, {<<place, m>> : m \in S})
      [] s.k = "return" -> SmEnd({}, {}, {}, {})
      [] s.k = "break" -> SmEnd({}, S, {}, {})
      [] s.k = "continue" -> SmEnd({}, {}, S, {})
      [] s.k = "if" -> SmJoin(ExecBlock(s.then, 1, Append(place, 1), S),
                              ExecBlock(s.else, 1, Append(place, 2), S))
      [] s.k = "match" -> ExecArms(s.arms, 1, place, S)
      [] OTHER -> ExecLoop(s, place, S)

\* The uses some execution reaches, each with the states x then has.
Reached == ExecBlock(sm_body, 1, <<>>, {FALSE}).at

\* The uses in the increment of a for statement of the body.
RECURSIVE InIncrement(_, _)
InIncrement(block, place) ==
    LET s == block[place[1]]
    IN Len(place) > 1 /\ \/ s.k = "for" /\ place[2] = 2
                         \/ InIncrement(Blocks(s)[place[2]], SubSeq(place, 3, Len(place)))

\* A loop around or before the use whose body always leaves it.
RECURSIVE HasLeavingLoop(_)
HasLeavingLoop(block) ==
    \E i \in DOMAIN block :
      \/ block[i].k \in {"while", "for"} /\ BranchDiverges(block[i].body)
      \/ \E b \in DOMAIN Blocks(block[i]) : HasLeavingLoop(Blocks(block[i])[b])

\* A use of x that every execution reaches after x was moved is reported,
\* through branches that return, joins, loops and breaks.  A use in the
\* increment of a for is the exception: it is analysed once, before the
\* body (semantic.c:2184), and a move of the body is not seen there.
SmDefiniteReported ==
    sm_done => \A r \in Reached :
      (r[2] /\ <<r[1], FALSE>> \notin Reached /\ ~InIncrement(sm_body, r[1])) => r[1] \in sm_errors

\* What is reported at a place that can be reached, some execution does: no
\* function is rejected for a move it cannot make before that use.  The
\* exception is a loop whose body always leaves it: the priming pass carries
\* its moves to a second iteration that never comes (semantic.c:2067).
SmReportsReal ==
    sm_done => \A p \in sm_errors :
      (\E r \in Reached : r[1] = p) => <<p, TRUE>> \in Reached \/ HasLeavingLoop(sm_body)

\* The verdict on a function, in both directions.
SmVerdict == SmDefiniteReported /\ SmReportsReal
=============================================================================
