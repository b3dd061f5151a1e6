------------------------------ MODULE RegexDfa ------------------------------
(***************************************************************************)
(* mir_regex.c: a pattern is parsed, turned into Thompson's automaton, made *)
(* deterministic, and emitted as a function with a block per state.         *)
(*                                                                         *)
(* A token of a pattern is a metacharacter or stands for a set of bytes: a  *)
(* literal, the dot, a character class, an escape; parse_class and          *)
(* parse_escape_into, which read such a set, are left out.  The automata    *)
(* number their states from 1, and 0 is "none"; the code counts from 0 and  *)
(* none is -1.  A set of states stands for its sorted vector, and comparing *)
(* sets for the hash table that finds one.                                  *)
(***************************************************************************)
EXTENDS Integers, FiniteSets, SequencesExt

CONSTANTS
    RxPatterns,     \* the patterns, sequences of tokens
    RxClass,        \* the set of bytes of a token that is no metacharacter
    RxAlphabet,     \* the bytes, in their order
    RxMaxWord       \* bound: the length of the words that are matched

ASSUME RxAssumption == \A t \in DOMAIN RxClass : RxClass[t] \subseteq ToSet(RxAlphabet)

VARIABLES
    rx_pat, rx_pc,          \* the pattern, the phase of mir_regex_compile
    rx_tree, rx_nfa,        \* the results of parse_pattern and build_nfa
    rx_dfa, rx_processed    \* the states of the Dfa, how many were expanded

rxVars == <<rx_pat, rx_pc, rx_tree, rx_nfa, rx_dfa, rx_processed>>

Quantifiers == {"*", "+", "?"}
NoNode == [k |-> "none"]

RxInit ==
    /\ rx_pat \in RxPatterns /\ rx_pc = "parse"
    /\ rx_tree = NoNode /\ rx_nfa = <<>> /\ rx_dfa = <<>> /\ rx_processed = 0

-----------------------------------------------------------------------------
(* The parser.  A parse function takes the position and returns its success, *)
(* the position after what it read and the node.                             *)

Peek(i) == IF i <= Len(rx_pat) THEN rx_pat[i] ELSE "end"
Parsed(i, node) == [ok |-> TRUE, pos |-> i, node |-> node]
ParseFails == [ok |-> FALSE, pos |-> 0, node |-> NoNode]
AtomStartsHere(i) == Peek(i) \notin {"end", "|", ")"}

RECURSIVE ParseAlt(_)

\* A group, a set of bytes, or an error: a quantifier without an atom, an
\* anchor, a bounded repetition.
ParseAtom(i) ==
    IF Peek(i) = "("
      THEN LET inner == ParseAlt(i + 1) IN
             IF inner.ok /\ Peek(inner.pos) = ")" THEN Parsed(inner.pos + 1, inner.node) ELSE ParseFails
      ELSE IF Peek(i) \in DOMAIN RxClass THEN Parsed(i + 1, [k |-> "class", set |-> RxClass[Peek(i)]])
      ELSE ParseFails

\* At most one quantifier follows an atom.
ParseAtomQuant(i) ==
    LET atom == ParseAtom(i) IN
      IF atom.ok /\ Peek(atom.pos) \in Quantifiers
        THEN Parsed(atom.pos + 1, [k |-> Peek(atom.pos), a |-> atom.node])
        ELSE atom

RECURSIVE ConcatLoop(_)
ConcatLoop(lhs) ==
    IF ~lhs.ok \/ ~AtomStartsHere(lhs.pos) THEN lhs
    ELSE LET rhs == ParseAtomQuant(lhs.pos) IN
           IF rhs.ok THEN ConcatLoop(Parsed(rhs.pos, [k |-> "concat", a |-> lhs.node, b |-> rhs.node])) ELSE rhs

ParseConcat(i) == IF AtomStartsHere(i) THEN ConcatLoop(ParseAtomQuant(i)) ELSE Parsed(i, [k |-> "empty"])

RECURSIVE AltLoop(_)
AltLoop(lhs) ==
    IF ~lhs.ok \/ Peek(lhs.pos) # "|" THEN lhs
    ELSE LET rhs == ParseConcat(lhs.pos + 1) IN
           IF rhs.ok THEN AltLoop(Parsed(rhs.pos, [k |-> "alt", a |-> lhs.node, b |-> rhs.node])) ELSE rhs

ParseAlt(i) == AltLoop(ParseConcat(i))

\* parse_pattern: the whole pattern has to be read.
RxParse ==
    /\ rx_pc = "parse"
    /\ LET tree == ParseAlt(1) IN
         IF tree.ok /\ tree.pos = Len(rx_pat) + 1
           THEN rx_pc' = "nfa" /\ rx_tree' = tree.node
           ELSE rx_pc' = "error" /\ UNCHANGED rx_tree
    /\ UNCHANGED <<rx_pat, rx_nfa, rx_dfa, rx_processed>>

-----------------------------------------------------------------------------
(* Thompson's construction.  A fragment is the automaton so far, its entry,  *)
(* and the slots that wait for the entry of the next fragment.               *)

NfaNew(nfa, kind, cls) == Append(nfa, [kind |-> kind, cls |-> cls, out |-> <<0, 0>>])
Frag(nfa, entry, patches) == [nfa |-> nfa, entry |-> entry, patches |-> patches]
PatchTo(nfa, patches, target) ==
    [i \in DOMAIN nfa |->
       [nfa[i] EXCEPT !.out = [s \in 1 .. 2 |-> IF <<i, s>> \in patches THEN target ELSE @[s]]]]

RECURSIVE BuildFrag(_, _)
BuildFrag(nfa, r) ==
    LET split == NfaNew(nfa, "split", {})
        s == Len(split)
        inner == BuildFrag(split, r.a)
    IN CASE r.k = "empty" -> Frag(split, s, {<<s, 1>>})
         [] r.k = "class" -> Frag(NfaNew(nfa, "byte", r.set), s, {<<s, 1>>})
         [] r.k = "concat" ->
              LET l == BuildFrag(nfa, r.a)
                  rr == BuildFrag(l.nfa, r.b)
              IN Frag(PatchTo(rr.nfa, l.patches, rr.entry), l.entry, rr.patches)
         [] r.k = "alt" ->
              LET rr == BuildFrag(inner.nfa, r.b)
              IN Frag([rr.nfa EXCEPT ![s].out = <<inner.entry, rr.entry>>], s, inner.patches \cup rr.patches)
         [] r.k = "*" ->
              Frag(PatchTo([inner.nfa EXCEPT ![s].out[1] = inner.entry], inner.patches, s), s, {<<s, 2>>})
         [] r.k = "+" ->
              LET first == BuildFrag(nfa, r.a)
                  after == NfaNew(first.nfa, "split", {})
                  loop == Len(after)
              IN Frag(PatchTo([after EXCEPT ![loop].out[1] = first.entry], first.patches, loop),
                      first.entry, {<<loop, 2>>})
         [] r.k = "?" ->
              Frag([inner.nfa EXCEPT ![s].out[1] = inner.entry], s, {<<s, 2>>} \cup inner.patches)

\* build_nfa: the match state comes last.
RxBuildNfa ==
    /\ rx_pc = "nfa"
    /\ LET top == BuildFrag(<<>>, rx_tree)
           nfa == NfaNew(top.nfa, "split", {})
       IN rx_nfa' = PatchTo(nfa, top.patches, Len(nfa))
    /\ rx_pc' = "start"
    /\ UNCHANGED <<rx_pat, rx_tree, rx_dfa, rx_processed>>

-----------------------------------------------------------------------------
(* Subset construction.                                                      *)

MatchState == Len(rx_nfa)

\* Mutation: the second edge of a split is not followed.
EpsilonFirst(i) == IF rx_nfa[i].kind = "split" THEN {rx_nfa[i].out[1]} \ {0} ELSE {}

Epsilon(i) == IF rx_nfa[i].kind = "split" THEN ToSet(rx_nfa[i].out) \ {0} ELSE {}

RECURSIVE Eclose(_)
Eclose(set) ==
    LET more == set \cup UNION {Epsilon(i) : i \in set} IN IF more = set THEN set ELSE Eclose(more)

DfaFind(dfa, set) == {i \in DOMAIN dfa : dfa[i].set = set}

\* dfa_find_or_add, without the table.
DfaFindOrAdd(dfa, set) ==
    IF DfaFind(dfa, set) # {} THEN dfa
    ELSE Append(dfa, [set |-> set, accepting |-> MatchState \in set,
                      trans |-> [b \in ToSet(RxAlphabet) |-> 0]])

\* The start state is made from the first state of the automaton, which every
\* construction above has to make its entry.
RxStart ==
    /\ rx_pc = "start"
    /\ rx_dfa' = DfaFindOrAdd(<<>>, Eclose({1})) /\ rx_pc' = "expand"
    /\ UNCHANGED <<rx_pat, rx_tree, rx_nfa, rx_processed>>

\* One round of the loop of nfa_to_dfa: the transitions of one state, byte by
\* byte; the states they lead to are added at the end.
RxExpand ==
    /\ rx_pc = "expand" /\ rx_processed < Len(rx_dfa)
    /\ LET cur == rx_processed + 1
           Nxt(b) == Eclose({rx_nfa[i].out[1] :
                        i \in {j \in rx_dfa[cur].set : rx_nfa[j].kind = "byte" /\ b \in rx_nfa[j].cls}} \ {0})
           Trans(dfa, b) ==
             IF Nxt(b) = {} THEN dfa
             ELSE LET d == DfaFindOrAdd(dfa, Nxt(b))
                  IN [d EXCEPT ![cur].trans[b] = CHOOSE i \in DfaFind(d, Nxt(b)) : TRUE]
       IN rx_dfa' = FoldLeft(Trans, rx_dfa, RxAlphabet)
    /\ rx_processed' = rx_processed + 1
    /\ UNCHANGED <<rx_pat, rx_pc, rx_tree, rx_nfa>>

\* emit_mir, when the loop has caught up.
RxEmit ==
    /\ rx_pc = "expand" /\ rx_processed = Len(rx_dfa)
    /\ rx_pc' = "done"
    /\ UNCHANGED <<rx_pat, rx_tree, rx_nfa, rx_dfa, rx_processed>>

RxNext == RxParse \/ RxBuildNfa \/ RxStart \/ RxExpand \/ RxEmit

\* The emitted function on a word: the head of a state tests for the end, its
\* body dispatches on the byte or goes to reject.
RxRun(word) ==
    LET state == FoldLeft(LAMBDA s, b : IF s = 0 THEN 0 ELSE rx_dfa[s].trans[b], 1, word)
    IN state # 0 /\ rx_dfa[state].accepting

RxSpec == RxInit /\ [][RxNext]_rxVars

-----------------------------------------------------------------------------
(* What a pattern means, from its tokens alone.                             *)

Depth(p, i) == Cardinality({j \in 1 .. i : p[j] = "("}) - Cardinality({j \in 1 .. i : p[j] = ")"})

InGrammar(p) ==
    /\ \A i \in DOMAIN p : p[i] \in DOMAIN RxClass \cup Quantifiers \cup {"(", ")", "|"}
    /\ \A i \in DOMAIN p : Depth(p, i) >= 0
    /\ Depth(p, Len(p)) = 0
    /\ \A i \in DOMAIN p : p[i] \in Quantifiers => i > 1 /\ p[i - 1] \in DOMAIN RxClass \cup {")"}

From(s, i) == SubSeq(s, i, Len(s))

\* w is a word of the language of the well-formed pattern p; Repeated: of a
\* sequence of one or more words of it.
RECURSIVE Denotes(_, _), Repeated(_, _)
Repeated(p, w) ==
    Denotes(p, w) \/ \E n \in 1 .. Len(w) - 1 : Denotes(p, SubSeq(w, 1, n)) /\ Repeated(p, From(w, n + 1))
Denotes(p, w) ==
    LET bars == {i \in DOMAIN p : p[i] = "|" /\ Depth(p, i) = 0}
        end == CHOOSE i \in DOMAIN p : Depth(p, i) = 0 /\ \A j \in 1 .. i - 1 : Depth(p, j) > 0
        q == IF end < Len(p) /\ p[end + 1] \in Quantifiers THEN p[end + 1] ELSE "1"
        rest == From(p, IF q = "1" THEN end + 1 ELSE end + 2)
        One(v) == IF p[1] = "(" THEN Denotes(SubSeq(p, 2, end - 1), v) ELSE Len(v) = 1 /\ v[1] \in RxClass[p[1]]
        Many(v) == IF p[1] = "(" THEN Repeated(SubSeq(p, 2, end - 1), v)
                   ELSE v # <<>> /\ \A i \in DOMAIN v : v[i] \in RxClass[p[1]]
        First(v) == CASE q = "1" -> One(v)
                      [] q = "?" -> v = <<>> \/ One(v)
                      [] q = "+" -> Many(v)
                      [] q = "*" -> v = <<>> \/ Many(v)
    IN IF bars # {} THEN LET b == CHOOSE i \in bars : TRUE IN Denotes(SubSeq(p, 1, b - 1), w) \/ Denotes(From(p, b + 1), w)
       ELSE IF p = <<>> THEN w = <<>>
       ELSE \E n \in 0 .. Len(w) : First(SubSeq(w, 1, n)) /\ Denotes(rest, From(w, n + 1))

Words == UNION {[1 .. n -> ToSet(RxAlphabet)] : n \in 0 .. RxMaxWord}

\* The compiler accepts exactly the patterns of its grammar, and the function
\* it emits returns 1 on exactly the words the pattern denotes: through empty
\* alternatives, loops of empty words and automata that share states.
RxLanguage ==
    /\ rx_pc = "error" => ~InGrammar(rx_pat)
    /\ rx_pc = "done" => InGrammar(rx_pat) /\ \A w \in Words : RxRun(w) <=> Denotes(rx_pat, w)
=============================================================================
