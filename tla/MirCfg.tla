-------------------------------- MODULE MirCfg --------------------------------
(***************************************************************************)
(* The control-flow passes of src/compiler/ir/mir_opt.c:                   *)
(* mir_pass_simplify_cfg inside the iteration of mir_optimize_function,    *)
(* and mir_remove_unreachable_blocks after it.                             *)
(*                                                                         *)
(* Of a block its terminator, its phis (as the set of blocks their edges   *)
(* come from) and whether anything else is in it are kept.  The value      *)
(* passes before it in an iteration are one step that finds conditions     *)
(* constant, drops phis and drops the constants of folded branches.        *)
(* The arrays of predecessors and successors hold no block twice           *)
(* (mir.c:585), so they are sets.  Switches are not built by the lowering. *)
(***************************************************************************)
EXTENDS Integers, FiniteSets

CONSTANTS
    CfGraphs,     \* functions: the terminators of the blocks 0 .. n, 0 the entry
    CfMaxIter     \* max_iterations

CfTerms(B) ==
    [k : {"ret"}, to : {<<>>}] \cup [k : {"br"}, to : [{1} -> B]] \cup [k : {"condbr"}, to : [{1, 2} -> B]]

ASSUME CfAssumption ==
    \A f \in CfGraphs : 0 \in DOMAIN f /\ f \in [DOMAIN f -> CfTerms(DOMAIN f)]

VARIABLES
    cf_orig,      \* the terminators before the passes
    cf_body,      \* "code", "empty", or "const": the constant of a branch only
    cf_g,         \* terminators, successor and predecessor lists, phis
    cf_known,     \* what the value passes know of the conditions: 0, 1 or 2 = unknown
    cf_pc,        \* the pass that is next: "values", "simplify"; "done"
    cf_at,        \* the block that mir_pass_simplify_cfg visits next
    cf_iter,      \* iterations begun
    cf_list       \* block_list

cfVars == <<cf_orig, cf_body, cf_g, cf_known, cf_pc, cf_at, cf_iter, cf_list>>

CfBlocks == DOMAIN cf_orig

CfTargets(term) == {term.to[i] : i \in DOMAIN term.to}

\* The sets of blocks an edge relation does not lead out of, and the blocks
\* it leads to from b: those in every such set that b is in.
CfClosed(next) == {S \in SUBSET CfBlocks : \A b \in S : next[b] \subseteq S}
CfReach(closed, b) == {r \in CfBlocks : \A S \in closed : b \in S => r \in S}

CfEdges(term) == [b \in DOMAIN term |-> CfTargets(term[b])]

\* What the lowering and mem2reg produce: phis only where paths meet, and
\* with one edge for every predecessor.  `odd` is a history variable.
CfInit ==
    /\ cf_orig \in CfGraphs
    /\ cf_body \in {c \in [CfBlocks -> {"code", "empty", "const"}] :
                      \A b \in CfBlocks : /\ c[b] = "const" => cf_orig[b].k = "condbr"
                                          /\ cf_orig[b].k = "ret" \/ b = 0 => c[b] = "code"}
    /\ LET preds == [b \in CfBlocks |-> {p \in CfBlocks : b \in CfTargets(cf_orig[p])}]
       IN \E phis \in SUBSET {b \in CfBlocks : Cardinality(preds[b]) > 1} :
            cf_g = [term |-> cf_orig, succ |-> CfEdges(cf_orig), pred |-> preds,
                    phi |-> [b \in phis |-> preds[b]], odd |-> FALSE]
    /\ cf_known = [b \in CfBlocks |-> 2]
    /\ cf_pc = "values" /\ cf_at = 0 /\ cf_iter = 0 /\ cf_list = CfBlocks

-----------------------------------------------------------------------------
(* The lists.                                                               *)

CfHasPhi(g, b) == b \in DOMAIN g.phi

\* cfg_remove_pred: off the list, and off every phi.
RemovePred(g, live, dead) ==
    [g EXCEPT !.pred[live] = @ \ {dead},
              !.phi = [b \in DOMAIN g.phi |-> IF b = live THEN g.phi[b] \ {dead} ELSE g.phi[b]]]

RemoveSucc(g, b, s) == [g EXCEPT !.succ[b] = @ \ {s}]

\* Which of the two targets a constant condition takes.
Taken(b) == IF cf_known[b] = 1 THEN 1 ELSE 2

\* A conditional branch on a constant becomes a branch.
CfFolds(g, b) == g.term[b].k = "condbr" /\ cf_known[b] # 2

FoldBranch(g, b) ==
    IF ~CfFolds(g, b) THEN g
    ELSE LET dead == g.term[b].to[3 - Taken(b)]
             br == [k |-> "br", to |-> <<g.term[b].to[Taken(b)]>>]
         IN RemovePred(RemoveSucc([g EXCEPT !.term[b] = br], b, dead), dead, b)

IsForwarder(g, b) ==
    /\ b # 0 /\ cf_body[b] = "empty" /\ ~CfHasPhi(g, b) /\ g.term[b].k = "br"
    /\ ~CfHasPhi(g, g.term[b].to[1])

\* Mutation: the target does not learn of its new predecessors.
ThreadedPredsLost(g, b, target) == g.pred[target]

ThreadedPreds(g, b, target) == g.pred[target] \cup (IF target = b THEN {} ELSE g.pred[b])

Redirected(t, b, target) ==
    [t EXCEPT !.to = [i \in DOMAIN t.to |-> IF t.to[i] = b THEN target ELSE t.to[i]]]

\* A block that only branches on: its predecessors go to its target.
ThreadForwarder(g, b) ==
    IF ~IsForwarder(g, b) THEN g
    ELSE LET target == g.term[b].to[1]
             threaded ==
               [term |-> [p \in CfBlocks |-> IF p \in g.pred[b] THEN Redirected(g.term[p], b, target) ELSE g.term[p]],
                succ |-> [p \in CfBlocks |-> IF p \in g.pred[b] THEN (g.succ[p] \ {b}) \cup ({target} \ {b}) ELSE g.succ[p]],
                pred |-> [g.pred EXCEPT ![target] = ThreadedPreds(g, b, target)],
                phi |-> g.phi, odd |-> g.odd]
         IN [RemovePred(threaded, target, b) EXCEPT !.pred[b] = {}]

-----------------------------------------------------------------------------
(* The iteration.                                                           *)

\* Constant folding, copy propagation, dead code elimination: conditions
\* become constant, unused phis and phis with one edge go, and so do the
\* constants of branches folded before.
CfValuePasses ==
    /\ cf_pc = "values" /\ cf_iter < CfMaxIter
    /\ \E known \in [CfBlocks -> 0 .. 2] :
         /\ \A b \in CfBlocks : /\ cf_known[b] # 2 => known[b] = cf_known[b]
                                /\ cf_orig[b].k # "condbr" => known[b] = 2
         /\ cf_known' = known
    /\ \E gone \in SUBSET DOMAIN cf_g.phi :
         /\ {b \in DOMAIN cf_g.phi : Cardinality(cf_g.phi[b]) = 1} \subseteq gone
         /\ cf_g' = [cf_g EXCEPT !.phi = [b \in DOMAIN cf_g.phi \ gone |-> cf_g.phi[b]]]
    /\ cf_body' = [b \in CfBlocks |->
                     IF cf_body[b] = "const" /\ cf_g.term[b].k = "br" THEN "empty" ELSE cf_body[b]]
    /\ cf_pc' = "simplify" /\ cf_iter' = cf_iter + 1
    /\ UNCHANGED <<cf_orig, cf_at, cf_list>>

\* Both rewritings of one block.  It is odd if a block is threaded to itself
\* or a branch is folded whose targets are the same.
SimplifyBlock(g, b) ==
    LET folded == FoldBranch(g, b)
        same == CfFolds(g, b) /\ g.term[b].to[1] = g.term[b].to[2]
        self == IsForwarder(folded, b) /\ folded.term[b].to[1] = b
    IN [ThreadForwarder(folded, b) EXCEPT !.odd = @ \/ same \/ self]

\* mir_pass_simplify_cfg goes over the list once, to the next block that it
\* rewrites or to the end.
CfRewrites(b) == CfFolds(cf_g, b) \/ IsForwarder(cf_g, b)
CfSimplify ==
    /\ cf_pc = "simplify"
    /\ \E b \in CfBlocks :
         /\ b >= cf_at /\ CfRewrites(b) /\ \A c \in CfBlocks : c \in cf_at .. b - 1 => ~CfRewrites(c)
         /\ cf_g' = SimplifyBlock(cf_g, b) /\ cf_at' = b + 1
    /\ UNCHANGED <<cf_orig, cf_body, cf_known, cf_pc, cf_iter, cf_list>>
CfSimplified ==
    /\ cf_pc = "simplify"
    /\ \A b \in CfBlocks : b >= cf_at => ~CfRewrites(b)
    /\ cf_pc' = "values" /\ cf_at' = 0
    /\ UNCHANGED <<cf_orig, cf_body, cf_g, cf_known, cf_iter, cf_list>>

\* mir_remove_unreachable_blocks: what the successor lists do not reach goes.
CfRemoveUnreachable ==
    /\ cf_pc = "values" /\ cf_iter > 0
    /\ LET dead == CfBlocks \ CfReach(CfClosed(cf_g.succ), 0)
           Off(b) == {d \in dead : b \in cf_g.succ[d]}
       IN /\ cf_list' = CfBlocks \ dead
          /\ cf_g' = [cf_g EXCEPT !.pred = [b \in CfBlocks |-> @[b] \ Off(b)],
                                  !.phi = [b \in DOMAIN @ |-> @[b] \ Off(b)]]
    /\ cf_pc' = "done"
    /\ UNCHANGED <<cf_orig, cf_body, cf_known, cf_at, cf_iter>>

CfNext == CfValuePasses \/ CfSimplify \/ CfSimplified \/ CfRemoveUnreachable

CfSpec == CfInit /\ [][CfNext]_cfVars

-----------------------------------------------------------------------------

CfLive == CfReach(CfClosed(CfEdges(cf_g.term)), 0)

\* The lists agree with the branches: nothing that a branch can reach is
\* removed, predecessors are exactly the blocks that branch here, and a phi
\* has one edge for each.  Excepted: a block that was threaded to itself and
\* a folded branch whose targets were threaded to one block; in both the
\* edge is taken off the lists though the branch is still there.
CfListsMatch ==
    ~cf_g.odd =>
      LET live == CfLive
      IN \A b \in live :
           /\ b \in cf_list /\ cf_g.succ[b] = CfTargets(cf_g.term[b])
           /\ cf_g.pred[b] \cap live = {p \in live : b \in CfTargets(cf_g.term[p])}
           /\ cf_pc = "done" => cf_g.pred[b] \subseteq live
           /\ CfHasPhi(cf_g, b) => cf_g.phi[b] = cf_g.pred[b]

\* A path leaves a block behind that has no code and only one way on.
CfSkips(term, b) ==
    cf_body[b] # "code" /\ (term[b].k = "br" \/ (term[b].k = "condbr" /\ cf_known[b] # 2))
CfOnward(term) ==
    [b \in CfBlocks |-> IF ~CfSkips(term, b) THEN {}
                        ELSE {term[b].to[IF term[b].k = "br" THEN 1 ELSE Taken(b)]}]

\* The block where a path goes on from b that does something, none for "never".
CfReal(closed, term, b) == {r \in CfReach(closed, b) : ~CfSkips(term, r)}

CfChoices(b) == IF cf_orig[b].k = "ret" THEN {} ELSE IF cf_orig[b].k = "br" THEN {1}
                ELSE IF cf_known[b] = 2 THEN {1, 2} ELSE {Taken(b)}

\* Where block b goes now on choice c.
CfGoes(b, c) == cf_g.term[b].to[IF cf_g.term[b].k = "br" THEN 1 ELSE c]

\* The passes keep every path of the program: whatever a condition chooses,
\* the next block that does something is the same as before the passes.
CfPathsKept ==
    cf_g.term # cf_orig =>
      LET now == CfClosed(CfOnward(cf_g.term))
          before == CfClosed(CfOnward(cf_orig))
      IN \A b \in CfBlocks : \A c \in CfChoices(b) :
           CfReal(now, cf_g.term, CfGoes(b, c)) = CfReal(before, cf_orig, cf_orig[b].to[c])

\* The control-flow passes: the two lists of every edge match and the paths
\* of the function are kept.
CfCorrect == CfListsMatch /\ CfPathsKept

-----------------------------------------------------------------------------
(* What is inductive.                                                       *)

CfGraphOK(g) ==
    /\ g = [term |-> g.term, succ |-> g.succ, pred |-> g.pred, phi |-> g.phi, odd |-> g.odd]
    /\ g.term \in [CfBlocks -> CfTerms(CfBlocks)]
    /\ g.succ \in [CfBlocks -> SUBSET CfBlocks]
    /\ g.pred \in [CfBlocks -> SUBSET CfBlocks]
    /\ DOMAIN g.phi \subseteq CfBlocks

CfTypeOK ==
    /\ cf_orig \in CfGraphs
    /\ cf_body \in [CfBlocks -> {"code", "empty", "const"}]
    /\ cf_known \in [CfBlocks -> 0 .. 2]
    /\ CfGraphOK(cf_g)

\* The lists are exact but for predecessors that nothing reaches: such a
\* block may have been taken off a list with its own.
CfExact(g) ==
    /\ \A b \in CfBlocks : g.succ[b] = CfTargets(g.term[b])
    /\ \A b \in CfBlocks : \A p \in g.pred[b] : b \in CfTargets(g.term[p])
    /\ \A p \in CfReach(CfClosed(CfEdges(g.term)), 0) : \A b \in CfTargets(g.term[p]) : p \in g.pred[b]
    /\ \A b \in DOMAIN g.phi : g.phi[b] = g.pred[b]

\* A branch leads to a block that its path in the program came through.
CfFollows(g) ==
    \A b \in CfBlocks :
      /\ \/ g.term[b].k = cf_orig[b].k
         \/ cf_orig[b].k = "condbr" /\ g.term[b].k = "br" /\ cf_known[b] # 2
      /\ \A c \in CfChoices(b) :
           g.term[b].to[IF g.term[b].k = "br" THEN 1 ELSE c] \in CfReach(CfClosed(CfOnward(cf_orig)), cf_orig[b].to[c])

CfInv ==
    /\ CfTypeOK /\ (~cf_g.odd => CfExact(cf_g)) /\ CfFollows(cf_g)
    /\ cf_pc # "done" => cf_list = CfBlocks
    /\ cf_pc = "done" /\ ~cf_g.odd =>
         /\ CfLive \subseteq cf_list
         /\ \A b \in CfLive : cf_g.pred[b] \subseteq CfLive
=============================================================================
