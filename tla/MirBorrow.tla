------------------------------ MODULE MirBorrow ------------------------------
(***************************************************************************)
(* The borrow checker of the compiler, src/compiler/ir/mir_borrow.c: its   *)
(* two analyses of the flow graph, one block of a work list a step, the    *)
(* pass that reports what breaks a rule, and then an execution of the      *)
(* function that was checked, which is what the reports are about.         *)
(*                                                                         *)
(* Of an instruction only what the checker looks at is kept: the values it *)
(* uses, the value it defines, and whether it is a borrow or a move; "use" *)
(* stands for every other opcode of the three switches over operands.      *)
(***************************************************************************)
EXTENDS Integers, Sequences, FiniteSets

CONSTANTS
    BwLast,        \* the blocks are 0 .. BwLast, in the order of the list
    BwValues,      \* the values of MIR
    BwNone,        \* MIR_VALUE_NONE
    BwFuncs,       \* the functions: the flow graph and the code of each block
    BwMaxBorrows   \* MIR_MAX_BORROWS

BwBlocks == 0 .. BwLast

BwInsts == [op : {"use", "move"}, uses : SUBSET BwValues, res : BwValues \cup {BwNone}]
    \cup [op : {"borrow", "borrow_mut"}, uses : {{v} : v \in BwValues}, res : BwValues]

\* No value is defined twice: next_value_id numbers them.
BwAssumption ==
    /\ BwLast \in Nat /\ BwMaxBorrows \in Nat
    /\ BwNone \notin BwValues
    /\ \A f \in BwFuncs :
         /\ f \in [succ : [BwBlocks -> SUBSET BwBlocks], code : [BwBlocks -> Seq(BwInsts)]]
         /\ \A b, c \in BwBlocks : \A i \in DOMAIN f.code[b], j \in DOMAIN f.code[c] :
              f.code[b][i].res = f.code[c][j].res /\ f.code[b][i].res # BwNone => b = c /\ i = j

ASSUME BwAssumption

VARIABLES
    bw_func,       \* the function
    bw_pc,         \* "moves", "liveness", "checked", "run"
    bw_work,       \* the blocks in the work list
    bw_out,        \* block_out: the values moved at the end of a block
    bw_livein,     \* live_in
    bw_liveout,    \* live_out
    bw_errors,     \* what was reported
    bw_pt,         \* an execution: the instruction it is at,
    bw_moved,      \* the values it has moved,
    bw_held,       \* the borrows that are in force,
    bw_ended       \* and those that ended, each with the borrow that ended it

bwVars == <<bw_func, bw_pc, bw_work, bw_out, bw_livein, bw_liveout, bw_errors,
            bw_pt, bw_moved, bw_held, bw_ended>>

BwNoValues == [b \in BwBlocks |-> {}]

BwInit ==
    /\ bw_func \in BwFuncs
    /\ bw_pc = "moves" /\ bw_work = BwBlocks
    /\ bw_out = BwNoValues /\ bw_livein = BwNoValues /\ bw_liveout = BwNoValues
    /\ bw_errors = {}
    /\ bw_pt = <<0, 1>> /\ bw_moved = {} /\ bw_held = {} /\ bw_ended = {}

-----------------------------------------------------------------------------
(* Points of the function: before each instruction, and a block's end.      *)

Size(b) == Len(bw_func.code[b])
AllPoints == UNION {{<<b, i>> : i \in 1 .. Size(b) + 1} : b \in BwBlocks}
InstPoints == {pt \in AllPoints : pt[2] <= Size(pt[1])}
Inst(pt) == bw_func.code[pt[1]][pt[2]]
HasInst(pt) == pt[1] \in BwBlocks /\ pt[2] \in 1 .. Size(pt[1])

\* inst_uses_value, mark_uses, borrow_check_inst_operands: the operands.
UsesAt(pt) == IF HasInst(pt) THEN Inst(pt).uses ELSE {}
\* The result of an instruction.
DefsAt(pt) == IF HasInst(pt) THEN {Inst(pt).res} \ {BwNone} ELSE {}
MovesAt(pt) == IF HasInst(pt) /\ Inst(pt).op = "move" THEN Inst(pt).uses ELSE {}

BwBorrows == {pt \in InstPoints : Inst(pt).op \in {"borrow", "borrow_mut"}}
EarlierPoint(p, q) == p[1] < q[1] \/ (p[1] = q[1] /\ p[2] < q[2])

BwPreds(b) == {p \in BwBlocks : b \in bw_func.succ[p]}

-----------------------------------------------------------------------------
(* mir_borrow_check_function.                                               *)

InState(b) == UNION {bw_out[p] : p \in BwPreds(b)}
Moves(b) == UNION {MovesAt(<<b, i>>) : i \in 1 .. Size(b)}

\* Mutation: the blocks that depend on a changed one are not handled again.
BwWorkAfterOnce(b, changed, S) == bw_work \ {b}

\* PUSH_WL and POP_WL: a block waits once; those that depend on a block are
\* handled again when it changed.  The order of the queue is left open.
BwWorkAfter(b, changed, S) == (bw_work \ {b}) \cup (IF changed THEN S ELSE {})

\* Forward: the values moved on some way to the end of the block.
BwMoveStep(b) ==
    LET out == InState(b) \cup Moves(b)
    IN /\ bw_pc = "moves" /\ b \in bw_work
       /\ bw_out' = [bw_out EXCEPT ![b] = out]
       /\ bw_work' = BwWorkAfter(b, out # bw_out[b], bw_func.succ[b])
       /\ UNCHANGED <<bw_func, bw_pc, bw_livein, bw_liveout, bw_errors, bw_pt, bw_moved, bw_held, bw_ended>>

BwMovesDone ==
    /\ bw_pc = "moves" /\ bw_work = {}
    /\ bw_pc' = "liveness" /\ bw_work' = BwBlocks
    /\ UNCHANGED <<bw_func, bw_out, bw_livein, bw_liveout, bw_errors, bw_pt, bw_moved, bw_held, bw_ended>>

\* The values used before the block defines them, and the values it defines.
UpwardUses(b) ==
    {v \in BwValues : \E i \in 1 .. Size(b) :
        v \in UsesAt(<<b, i>>) /\ \A j \in 1 .. i - 1 : v \notin DefsAt(<<b, j>>)}
BlockDefs(b) == UNION {DefsAt(<<b, i>>) : i \in 1 .. Size(b)}

LiveOut(b) == UNION {bw_livein[s] : s \in bw_func.succ[b]}
LiveIn(b) == (LiveOut(b) \ BlockDefs(b)) \cup UpwardUses(b)

\* Backward: the values used on some way from the start of the block.
BwLiveStep(b) ==
    /\ bw_pc = "liveness" /\ b \in bw_work
    /\ bw_liveout' = [bw_liveout EXCEPT ![b] = LiveOut(b)]
    /\ bw_livein' = [bw_livein EXCEPT ![b] = LiveIn(b)]
    /\ bw_work' = BwWorkAfter(b, LiveIn(b) # bw_livein[b], BwPreds(b))
    /\ UNCHANGED <<bw_func, bw_pc, bw_out, bw_errors, bw_pt, bw_moved, bw_held, bw_ended>>

\* is_live_after: it passes over the definitions of the rest of the block.
IsLiveAfter(p, v) ==
    \/ \E j \in p[2] + 1 .. Size(p[1]) : v \in UsesAt(<<p[1], j>>)
    \/ v \in bw_liveout[p[1]]

\* track_borrow: the borrows that fit the table, in the order of the code.
Tracked == {q \in BwBorrows : Cardinality({p \in BwBorrows : EarlierPoint(p, q)}) < BwMaxBorrows}

\* Two borrows of the same value, one of them mutable.
Conflicting(p, q) ==
    /\ p # q /\ Inst(p).uses = Inst(q).uses
    /\ "borrow_mut" \in {Inst(p).op, Inst(q).op}

\* check_borrow_conflicts: the borrow q is used here or later.
BwActive(p, q) == Inst(q).res \in UsesAt(p) \/ IsLiveAfter(p, Inst(q).res)

MovedBefore(p) == InState(p[1]) \cup UNION {MovesAt(<<p[1], j>>) : j \in 1 .. p[2] - 1}

\* The validation pass: operands and second moves, and borrows.  (emit_error
\* keeps the first MIR_MAX_ERRORS of them.)
MoveErrors == {<<"moved", p, v>> : p \in InstPoints, v \in BwValues}
ConflictErrors == {<<"conflict", p, q>> : p \in BwBorrows, q \in Tracked}
BwErrors ==
    {e \in MoveErrors : e[3] \in UsesAt(e[2]) \cap MovedBefore(e[2])}
      \cup {e \in ConflictErrors : Conflicting(e[2], e[3]) /\ BwActive(e[2], e[3])}

BwCheck ==
    /\ bw_pc = "liveness" /\ bw_work = {}
    /\ bw_pc' = "checked" /\ bw_errors' = BwErrors
    /\ UNCHANGED <<bw_func, bw_work, bw_out, bw_livein, bw_liveout, bw_pt, bw_moved, bw_held, bw_ended>>

-----------------------------------------------------------------------------
(* An execution of the function.                                            *)

BwCall ==
    /\ bw_pc = "checked" /\ bw_pc' = "run"
    /\ UNCHANGED <<bw_func, bw_work, bw_out, bw_livein, bw_liveout, bw_errors, bw_pt, bw_moved, bw_held, bw_ended>>

\* A borrow ends those it conflicts with; a definition makes a new value.
BwExecute ==
    LET ends == IF bw_pt \in BwBorrows THEN {q \in bw_held : Conflicting(bw_pt, q)} ELSE {}
    IN /\ bw_pc = "run" /\ bw_pt \in InstPoints
       /\ bw_pt' = <<bw_pt[1], bw_pt[2] + 1>>
       /\ bw_moved' = (bw_moved \cup MovesAt(bw_pt)) \ DefsAt(bw_pt)
       /\ bw_held' = (bw_held \ ends) \cup ({bw_pt} \cap BwBorrows)
       /\ bw_ended' = {e \in bw_ended : e[1] # bw_pt} \cup {<<q, bw_pt>> : q \in ends}
       /\ UNCHANGED <<bw_func, bw_pc, bw_work, bw_out, bw_livein, bw_liveout, bw_errors>>

BwGoto(t) ==
    /\ bw_pc = "run" /\ bw_pt \notin InstPoints
    /\ t \in bw_func.succ[bw_pt[1]]
    /\ bw_pt' = <<t, 1>>
    /\ UNCHANGED <<bw_func, bw_pc, bw_work, bw_out, bw_livein, bw_liveout, bw_errors, bw_moved, bw_held, bw_ended>>

BwNext ==
    \/ \E b \in BwBlocks : BwMoveStep(b) \/ BwLiveStep(b) \/ BwGoto(b)
    \/ BwMovesDone \/ BwCheck \/ BwCall \/ BwExecute

BwSpec == BwInit /\ [][BwNext]_bwVars

-----------------------------------------------------------------------------
(* Ways through the function.                                               *)

PtSucc(pt) ==
    IF HasInst(pt) THEN {<<pt[1], pt[2] + 1>>} ELSE {<<t, 1>> : t \in bw_func.succ[pt[1]]}

\* Some way leads from a point of S to u, and no instruction before u defines
\* v: u is in every set of points that has S and is closed under such steps.
Flows(S, u, v) ==
    \A X \in SUBSET AllPoints :
        S \subseteq X /\ (\A x \in X : v \notin DefsAt(x) => PtSucc(x) \subseteq X) => u \in X

BwReached(p) == Flows({<<0, 1>>}, p, BwNone)
Leads(q, p) == Flows(PtSucc(q), p, BwNone)

\* Every way from the entry to a use of v passes its definition.
Dominated(v) == \A u \in InstPoints : v \in UsesAt(u) => ~Flows({<<0, 1>>}, u, v)

\* An instruction that uses a value which this execution has moved, and one
\* that uses a borrow after a conflicting one was taken, were reported: rules 1
\* to 3 of mir_borrow.h, through joins and loops.
BwSound ==
    bw_pc = "run" =>
      /\ \A v \in UsesAt(bw_pt) \cap bw_moved : <<"moved", bw_pt, v>> \in bw_errors
      /\ \A e \in bw_ended : e[1] \in Tracked /\ Inst(e[1]).res \in UsesAt(bw_pt) =>
                               <<"conflict", e[2], e[1]>> \in bw_errors

\* What is rejected has a way on which it goes wrong.  A value that was moved:
\* the move leads to its use (the analysis does not forget a moved value where
\* a loop defines it again, mir_borrow.c:562).  A borrow p that meets a borrow
\* q: q is used from p on and, where p is reached at all, leads to p; except
\* that is_live_after (223) passes over the definition of a later borrow of
\* the same block, and then rejects p because of the q that comes after it.
BwPrecise ==
    bw_pc = "checked" => \A e \in bw_errors :
      /\ e[1] = "moved" => \E q \in InstPoints : e[3] \in MovesAt(q) /\ Leads(q, e[2])
      /\ e[1] = "conflict" =>
           LET p == e[2]
               q == e[3]
               v == Inst(q).res
           IN \/ q[1] = p[1] /\ q[2] > p[2]
              \/ /\ v \in UsesAt(p) \/ \E u \in InstPoints : v \in UsesAt(u) /\ Flows(PtSucc(p), u, v)
                 /\ Dominated(v) /\ BwReached(p) => Leads(q, p)

\* The verdict on a function, in both directions.
BwVerdict == BwSound /\ BwPrecise
-----------------------------------------------------------------------------
(* Why the verdict holds: the inductive invariant.                          *)

BwTypeOK ==
    /\ bw_func \in BwFuncs
    /\ bw_pc \in {"moves", "liveness", "checked", "run"}
    /\ bw_work \subseteq BwBlocks
    /\ bw_out \in [BwBlocks -> SUBSET BwValues]
    /\ bw_livein \in [BwBlocks -> SUBSET BwValues]
    /\ bw_liveout \in [BwBlocks -> SUBSET BwValues]
    /\ bw_pt \in AllPoints
    /\ bw_held \subseteq BwBorrows

\* A block that does not wait in the work list satisfies its equations.
BwMovesSettled ==
    \A b \in BwBlocks : (bw_pc = "moves" => b \notin bw_work) => bw_out[b] = InState(b) \cup Moves(b)
BwLiveSettled ==
    \A b \in BwBlocks : bw_pc # "moves" /\ (bw_pc = "liveness" => b \notin bw_work) =>
        bw_liveout[b] = LiveOut(b) /\ bw_livein[b] = LiveIn(b)

\* What the analyses have found so far has a way.
BwMovesReal ==
    \A b \in BwBlocks : \A v \in bw_out[b] :
        \E q \in InstPoints : v \in MovesAt(q) /\ Leads(q, <<b, Size(b) + 1>>)
BwLiveReal ==
    \A b \in BwBlocks : \A v \in bw_livein[b] :
        \E u \in InstPoints : v \in UsesAt(u) /\ Flows({<<b, 1>>}, u, v)

BwReported == bw_pc \in {"checked", "run"} => bw_errors = BwErrors

\* v is used at pt or later, before it is defined.
BwLiveAt(pt, v) ==
    \/ \E j \in pt[2] .. Size(pt[1]) :
         v \in UsesAt(<<pt[1], j>>) /\ \A k \in pt[2] .. j - 1 : v \notin DefsAt(<<pt[1], k>>)
    \/ v \in bw_liveout[pt[1]] /\ \A k \in pt[2] .. Size(pt[1]) : v \notin DefsAt(<<pt[1], k>>)

\* The analyses bound what an execution has moved and may still use.
BwFollows ==
    /\ bw_pc # "run" => bw_pt = <<0, 1>> /\ bw_moved = {} /\ bw_held = {} /\ bw_ended = {}
    /\ bw_moved \subseteq MovedBefore(bw_pt)
    /\ \A e \in bw_ended :
         /\ e[1] \in BwBorrows
         /\ e[1] \in Tracked /\ BwLiveAt(bw_pt, Inst(e[1]).res) => <<"conflict", e[2], e[1]>> \in bw_errors

BwInv ==
    /\ BwTypeOK /\ BwMovesSettled /\ BwLiveSettled
    /\ BwMovesReal /\ BwLiveReal /\ BwReported /\ BwFollows
=============================================================================
