------------------------------- MODULE Mem2Reg -------------------------------
(***************************************************************************)
(* The SSA construction of the compiler, src/compiler/ir/mir_mem2reg.c,    *)
(* for one promotable alloca: dominators, dominance frontiers, phi         *)
(* placement and renaming.  The function is chosen first, the pass is one  *)
(* step, and then the function before and the function after the pass are  *)
(* executed side by side along every path.                                 *)
(*                                                                         *)
(* A block is a sequence of loads and stores of the alloca.  Every store   *)
(* stores a value of its own; what replaces a load is such a value, a phi, *)
(* or the MIR_UNDEF put at the start of the entry block.  Block 0 is the   *)
(* entry and has no predecessor (mir.c:924); edges are sets (mir.c:588).   *)
(***************************************************************************)
EXTENDS Integers, Sequences, FiniteSets, SequencesExt

CONSTANTS
    M2Last,       \* the blocks are 0 .. M2Last
    M2Succs,      \* flow graphs, functions from blocks to sets of at most two blocks
    M2EntryCode,  \* what the entry block may hold
    M2Code        \* what the other blocks may hold

M2Blocks == 0 .. M2Last
NoBlock == -1
Undef == <<"undef">>
StoreVal(b, i) == <<"store", b, i>>
PhiVal(b) == <<"phi", b>>

VARIABLES
    m2_succ, m2_code,           \* the function: successors, instructions
    m2_idom, m2_df, m2_phi,     \* immediate dominators, frontiers, blocks with a phi
    m2_repl, m2_edge,           \* what replaces a load; the edges of the phis
    m2_pc,                      \* <<>> before the pass, then the point <<block, index>>
    m2_mem,                     \* contents of the alloca
    m2_env                      \* values of the phis

m2Function == <<m2_succ, m2_code>>
m2Result == <<m2_idom, m2_df, m2_phi, m2_repl, m2_edge>>
m2Vars == <<m2Function, m2Result, m2_pc, m2_mem, m2_env>>

M2Preds(b) == {p \in M2Blocks : b \in m2_succ[p]}
M2Ordered(S) == SetToSortSeq(S, <)

M2Init ==
    /\ m2_succ \in M2Succs
    /\ m2_code \in {c \in [M2Blocks -> M2Code \cup M2EntryCode] :
                      c[0] \in M2EntryCode /\ \A b \in M2Blocks \ {0} : c[b] \in M2Code}
    /\ m2_idom = <<>> /\ m2_df = <<>> /\ m2_phi = {} /\ m2_repl = <<>> /\ m2_edge = <<>>
    /\ m2_pc = <<>> /\ m2_mem = Undef /\ m2_env = <<>>

-----------------------------------------------------------------------------
(* Dominators: dfs_post_order, compute_rpo, intersect,                      *)
(* mir_compute_dominators.                                                  *)

RECURSIVE DfsPostOrder(_, _)
DfsPostOrder(b, st) ==
    IF b \in st.visited THEN st
    ELSE LET deeper == FoldLeft(LAMBDA acc, s : DfsPostOrder(s, acc),
                                [st EXCEPT !.visited = @ \cup {b}], M2Ordered(m2_succ[b]))
         IN [deeper EXCEPT !.blocks = Append(@, b)]

ComputeRpo == Reverse(DfsPostOrder(0, [visited |-> {}, blocks |-> <<>>]).blocks)

RpoIndex(rpo, b) == CHOOSE i \in DOMAIN rpo : rpo[i] = b

\* The fingers climb to the common ancestor.
RECURSIVE Intersect(_, _, _, _)
Intersect(b1, b2, idom, rpo) ==
    IF b1 = b2 THEN b1
    ELSE IF RpoIndex(rpo, b1) > RpoIndex(rpo, b2)
           THEN Intersect(idom[b1], b2, idom, rpo)
           ELSE Intersect(b1, idom[b2], idom, rpo)

\* The processed predecessors, intersected.
NewIdom(b, idom, rpo) ==
    LET processed == M2Ordered({p \in M2Preds(b) : idom[p] # NoBlock})
    IN IF processed = <<>> THEN idom[b]
       ELSE FoldLeft(LAMBDA acc, p : Intersect(p, acc, idom, rpo), processed[1], Tail(processed))

\* Sweeps in reverse post-order until nothing changes.
RECURSIVE DomFixpoint(_, _)
DomFixpoint(idom, rpo) ==
    LET swept == FoldLeft(LAMBDA acc, b : [acc EXCEPT ![b] = NewIdom(b, acc, rpo)], idom, Tail(rpo))
    IN IF swept = idom THEN idom ELSE DomFixpoint(swept, rpo)

ComputeDominators ==
    DomFixpoint([b \in M2Blocks |-> IF b = 0 THEN 0 ELSE NoBlock], ComputeRpo)

-----------------------------------------------------------------------------
(* mir_compute_dom_frontiers, the iterated frontier, rename_block.          *)

\* The runner climbs from a predecessor of a join to the join's dominator;
\* with right dominators it meets it before it is past the entry.
RECURSIVE Runner(_, _, _)
Runner(r, stop, idom) ==
    IF r = stop \/ r = NoBlock THEN {}
    ELSE {r} \cup IF idom[r] = r THEN {} ELSE Runner(idom[r], stop, idom)

DomFrontiers(idom) ==
    [b \in M2Blocks |-> {y \in M2Blocks :
        /\ Cardinality(M2Preds(y)) >= 2
        /\ \E p \in M2Preds(y) : b \in Runner(p, idom[y], idom)}]

DefBlocks == {b \in M2Blocks : \E i \in DOMAIN m2_code[b] : m2_code[b][i] = "store"}

\* Mutation: a phi is not a definition that needs phis in turn.
PlacePhisOnce(worklist, phis, df) == UNION {df[b] : b \in worklist}

\* The work list: definitions, and every block that gets a phi.
RECURSIVE PlacePhis(_, _, _)
PlacePhis(worklist, phis, df) ==
    IF worklist = {} THEN phis
    ELSE LET new == UNION {df[b] : b \in worklist} \ phis IN PlacePhis(new, phis \cup new, df)

\* stack.top = saved_tops[a]
Restore(saved, stack) == SubSeq(stack, 1, saved)

\* The value that reaches the end of b is filled into the phis of the successors.
PhiEdges(b, phis, val) == {<<s, b, val>> : s \in m2_succ[b] \cap phis}

\* rename_block: st has the stack of reaching definitions, the replacements
\* of loads and the edges of phis, [<<block, predecessor>> -> value].
RECURSIVE RenameBlock(_, _, _, _)
RenameBlock(b, st, idom, phis) ==
    LET saved == Len(st.stack)
        entered == IF b \in phis THEN [st EXCEPT !.stack = Append(@, PhiVal(b))] ELSE st
        walked == FoldLeft(LAMBDA acc, i :
                      IF m2_code[b][i] = "store"
                        THEN [acc EXCEPT !.stack = Append(@, StoreVal(b, i))]
                        ELSE [acc EXCEPT !.repl = @ \cup {<<b, i, Last(acc.stack)>>}],
                    entered, [i \in DOMAIN m2_code[b] |-> i])
        filled == [walked EXCEPT !.edge = @ \cup PhiEdges(b, phis, Last(walked.stack))]
        children == {c \in M2Blocks \ {0} : idom[c] = b}
        done == FoldLeft(LAMBDA acc, c : RenameBlock(c, acc, idom, phis), filled, M2Ordered(children))
    IN [done EXCEPT !.stack = Restore(saved, @)]

-----------------------------------------------------------------------------
(* mir_mem2reg, then execution.                                             *)

M2Pass ==
    /\ m2_pc = <<>>
    /\ LET idom == ComputeDominators
           df == DomFrontiers(idom)
           phis == PlacePhis(DefBlocks, {}, df)
           st == RenameBlock(0, [stack |-> <<Undef>>, repl |-> {}, edge |-> {}], idom, phis)
       IN /\ m2_idom' = idom /\ m2_df' = df /\ m2_phi' = phis
          /\ m2_repl' = st.repl /\ m2_edge' = st.edge
    /\ m2_pc' = <<0, 1>> /\ m2_env' = [b \in m2_phi' |-> Undef]
    /\ UNCHANGED <<m2Function, m2_mem>>

\* The value of an operand after the pass.
M2Eval(v) == IF v[1] = "phi" THEN m2_env[v[2]] ELSE v

\* One instruction of both functions.
M2Step ==
    /\ m2_pc # <<>>
    /\ LET b == m2_pc[1]
           i == m2_pc[2]
       IN /\ i <= Len(m2_code[b])
          /\ m2_mem' = IF m2_code[b][i] = "store" THEN StoreVal(b, i) ELSE m2_mem
          /\ m2_pc' = <<b, i + 1>>
    /\ UNCHANGED <<m2Function, m2Result, m2_env>>

\* The branch at the end of a block; a phi takes the value of its edge.
M2Jump ==
    /\ m2_pc # <<>>
    /\ LET b == m2_pc[1] IN
         /\ m2_pc[2] > Len(m2_code[b])
         /\ \E s \in m2_succ[b] :
              /\ m2_pc' = <<s, 1>>
              /\ m2_env' = IF s \in m2_phi
                             THEN [m2_env EXCEPT ![s] =
                                M2Eval((CHOOSE e \in m2_edge : e[1] = s /\ e[2] = b)[3])]
                             ELSE m2_env
    /\ UNCHANGED <<m2Function, m2Result, m2_mem>>

M2Next == M2Pass \/ M2Step \/ M2Jump
M2Spec == M2Init /\ [][M2Next]_m2Vars

-----------------------------------------------------------------------------
(* Properties.                                                              *)

\* Blocks reachable from the entry without entering block without.
RECURSIVE M2Reach(_, _)
M2Reach(S, without) ==
    LET more == S \cup (UNION {m2_succ[b] : b \in S} \ {without})
    IN IF more = S THEN S ELSE M2Reach(more, without)
M2Reachable == M2Reach({0}, NoBlock)

\* Dominance as it is defined: every path from the entry passes b.
M2Dominates(b, c) == b = c \/ b = 0 \/ c \notin M2Reach({0}, b)

\* The iteration ends in the immediate dominators, in every flow graph,
\* irreducible ones included (mir_mem2reg.c:105).
M2Dominators ==
    m2_pc = <<0, 1>> =>
      \A b \in M2Reachable \ {0} :
        LET d == m2_idom[b] IN
          /\ d \in M2Reachable \ {b} /\ M2Dominates(d, b)
          /\ \A c \in M2Reachable \ {b} : M2Dominates(c, b) => M2Dominates(c, d)

\* The frontiers are those of the definition at mir_mem2reg.c:176.
M2Frontiers ==
    m2_pc = <<0, 1>> =>
      \A b, y \in M2Reachable :
        (y \in m2_df[b]) <=> ((\E p \in M2Preds(y) \cap M2Reachable : M2Dominates(b, p))
                              /\ ~(M2Dominates(b, y) /\ b # y))

\* Wherever the original function loads the variable, what replaces the load
\* has the value the memory has, on every path, through loops and joins.
M2LoadsPreserved ==
    m2_pc # <<>> =>
      \A r \in m2_repl : m2_pc = <<r[1], r[2]>> => M2Eval(r[3]) = m2_mem

\* A phi has an edge for each of its predecessors that can be reached, which
\* the validator compares with pred_count (mir.c:906).
M2PhisComplete ==
    m2_pc # <<>> =>
      \A b \in m2_phi \cap M2Reachable :
        {e[2] : e \in {x \in m2_edge : x[1] = b}} = M2Preds(b) \cap M2Reachable

\* The pass is correct: its two analyses are what they are defined to be, and
\* the values it puts in place of the loads are the ones memory would hold.
M2Correct == M2Dominators /\ M2Frontiers /\ M2LoadsPreserved /\ M2PhisComplete
=============================================================================
