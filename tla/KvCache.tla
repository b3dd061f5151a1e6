------------------------------ MODULE KvCache ------------------------------
(***************************************************************************)
(* The key/value cache of the ML runtime, runtime/ai/ml/cpx_kvcache.c.     *)
(* Both layouts run side by side on the same calls, as the regression      *)
(* test tests/runtime/test_kvcache_paged.c runs them: the contiguous block *)
(* with computed offsets and the page table over a shared pool.            *)
(*                                                                         *)
(* A (layer, head) pair is one number lh.  A K or V row is the call that   *)
(* wrote it: sequence, pair, position and round.                           *)
(*                                                                         *)
(* The caller keeps the protocol of the decoder: the pairs of one token    *)
(* (or of one prompt) are written in order, and no position beyond         *)
(* max_seq_len is written: the code does not test that in either layout.   *)
(***************************************************************************)
EXTENDS Integers, Sequences, FiniteSets

CONSTANTS
    KvSeqs,      \* sequence slots, 0 .. max_batch - 1
    KvPairs,     \* num_layers * num_kv_heads
    KvMaxLen,    \* max_seq_len
    KvPageSize,  \* tokens per page
    KvPool,      \* page_pool_cap: the pages are 1 .. KvPool
    KvRounds     \* bound: times a slot's tokens are rewritten

ASSUME KvAssumption ==
    /\ KvPairs \in Nat \ {0} /\ KvMaxLen \in Nat \ {0} /\ KvPageSize \in Nat \ {0}
    /\ KvRounds \in Nat /\ KvPool \in Nat /\ IsFiniteSet(KvSeqs)

\* kv_max_pages
KvMaxPages == (KvMaxLen + KvPageSize - 1) \div KvPageSize
KvLh == 0 .. KvPairs - 1
KvPageIdx == 0 .. KvMaxPages - 1
KvPages == 1 .. KvPool
NoPage == 0       \* NULL in a page table
NoRow == <<>>

\* cpx_kvcache_create sizes the pool for every sequence at full length (the
\* code adds a reserve of 128 pages).
ASSUME KvPoolAssumption ==
    KvPool >= Cardinality(KvSeqs) * KvPairs * KvMaxPages

VARIABLES
    kv_active,   \* seq_id >= 0
    kv_num,      \* num_seqs
    kv_len,      \* seq_len
    kv_spec,     \* spec_start
    kv_spec_len, \* spec_len
    kv_table,    \* pages[lh * max_pages + page_idx]
    kv_free,     \* the stack free_pages
    kv_page,     \* rows of a page
    kv_flat,     \* k_base: the rows of the contiguous layout
    kv_pass,     \* the caller's pass: tokens P, and next pair lh and token t
    kv_round     \* the caller: round of the rows it writes

kvPool == <<kv_table, kv_free, kv_page, kv_flat>>
kvSpec == <<kv_spec, kv_spec_len>>
kvVars == <<kv_active, kv_num, kv_len, kvSpec, kvPool, kv_pass, kv_round>>

KvPos == 0 .. KvMaxLen - 1
KvRows == (KvSeqs \X KvLh \X KvPos \X (0 .. KvRounds)) \cup {NoRow}
KvNoPass == [P |-> 0, lh |-> 0, t |-> 0]

KvTypeOK ==
    /\ kv_active \subseteq KvSeqs /\ kv_num \in Int
    /\ kv_len \in [KvSeqs -> 0 .. KvMaxLen]
    /\ kv_spec \in [KvSeqs -> -1 .. KvMaxLen] /\ kv_spec_len \in [KvSeqs -> {0}]
    /\ kv_table \in [KvSeqs -> [KvLh \X KvPageIdx -> KvPages \cup {NoPage}]]
    /\ kv_free \in Seq(KvPages) /\ Len(kv_free) <= KvPool
    /\ kv_page \in [KvPages -> [0 .. KvPageSize - 1 -> KvRows]]
    /\ kv_flat \in [KvSeqs -> [0 .. KvPairs * KvMaxLen - 1 -> KvRows]]
    /\ kv_pass \in [KvSeqs -> [P : 0 .. KvMaxLen, lh : KvLh, t : KvPos]]
    /\ kv_round \in [KvSeqs -> 0 .. KvRounds]

KvNoTable == [x \in KvLh \X KvPageIdx |-> NoPage]

KvInit ==
    /\ kv_active = {} /\ kv_num = 0
    /\ kv_len = [s \in KvSeqs |-> 0]
    /\ kv_spec = [s \in KvSeqs |-> 0] /\ kv_spec_len = [s \in KvSeqs |-> 0]
    /\ kv_table = [s \in KvSeqs |-> KvNoTable]
    /\ kv_free = [i \in KvPages |-> i]
    /\ kv_page = [p \in KvPages |-> [o \in 0 .. KvPageSize - 1 |-> NoRow]]
    /\ kv_flat = [s \in KvSeqs |-> [o \in 0 .. KvPairs * KvMaxLen - 1 |-> NoRow]]
    /\ kv_pass = [s \in KvSeqs |-> KvNoPass]
    /\ kv_round = [s \in KvSeqs |-> 0]

-----------------------------------------------------------------------------
(* Helpers.                                                                 *)

\* kv_offset, in rows.
KvOffset(lh, pos) == lh * KvMaxLen + pos

\* The entries of the table of s for the given pairs that hold a page, from
\* page index from on, and their order in the table.
KvHeldAt(s, from, pairs) ==
    {e \in KvLh \X KvPageIdx : e[1] \in pairs /\ e[2] >= from /\ kv_table[s][e] # NoPage}
KvUpTo(e, f) == f[1] < e[1] \/ (f[1] = e[1] /\ f[2] <= e[2])
KvRank(at, e) == Cardinality({f \in at : KvUpTo(e, f)})

\* Their pages, in that order.
KvHeld(s, from, pairs) ==
    LET at == KvHeldAt(s, from, pairs)
    IN [i \in 1 .. Cardinality(at) |-> kv_table[s][CHOOSE e \in at : KvRank(at, e) = i]]

\* kv_free_page for each of them; a full stack takes no more.
KvPush(pages) ==
    LET all == kv_free \o pages
    IN SubSeq(all, 1, IF Len(all) < KvPool THEN Len(all) ELSE KvPool)

\* The table of s without the entries from page index from on.
KvCleared(s, from) ==
    [kv_table EXCEPT ![s] = [e \in KvLh \X KvPageIdx |-> IF e[2] >= from THEN NoPage ELSE @[e]]]

\* Mutation: the pages of the first pair only are given back.
KvReleaseFirst(s, from) == kv_free' = KvPush(KvHeld(s, from, {0})) /\ kv_table' = KvCleared(s, from)

\* The loop of free_seq and rollback over the pages from page index from on.
KvRelease(s, from) == kv_free' = KvPush(KvHeld(s, from, KvLh)) /\ kv_table' = KvCleared(s, from)

\* The caller drops what it was writing; the rows of the next pass differ.
KvRestart(s) ==
    /\ kv_round[s] < KvRounds
    /\ kv_round' = [kv_round EXCEPT ![s] = @ + 1]
    /\ kv_pass' = [kv_pass EXCEPT ![s] = KvNoPass]

-----------------------------------------------------------------------------
(* Operations.                                                              *)

\* cpx_kvcache_alloc_seq(cache, 0) takes the first slot that is not in use.
KvAllocSeq(s) ==
    /\ s \notin kv_active /\ \A t \in KvSeqs : t < s => t \in kv_active
    /\ kv_active' = kv_active \cup {s} /\ kv_num' = kv_num + 1
    /\ kv_len' = [kv_len EXCEPT ![s] = 0]
    /\ kv_spec' = [kv_spec EXCEPT ![s] = -1] /\ kv_spec_len' = [kv_spec_len EXCEPT ![s] = 0]
    /\ kv_table' = [kv_table EXCEPT ![s] = KvNoTable]
    /\ UNCHANGED <<kv_free, kv_page, kv_flat, kv_pass, kv_round>>

\* cpx_kvcache_free_seq, also in the middle of a token.
KvFreeSeq(s) ==
    /\ s \in kv_active
    /\ kv_active' = kv_active \ {s} /\ kv_num' = kv_num - 1
    /\ kv_len' = [kv_len EXCEPT ![s] = 0]
    /\ KvRelease(s, 0) /\ KvRestart(s)
    /\ UNCHANGED <<kvSpec, kv_page, kv_flat>>

\* The caller starts a pass: P tokens of a prefill, one of a write.
KvBegin(s, P) ==
    /\ s \in kv_active /\ kv_pass[s] = KvNoPass /\ kv_len[s] + P <= KvMaxLen
    /\ kv_pass' = [kv_pass EXCEPT ![s].P = P]
    /\ UNCHANGED <<kv_active, kv_num, kv_len, kvSpec, kvPool, kv_round>>

\* The page for entry e of the table: the one it holds, or one popped from
\* the stack by kv_alloc_page.
KvPageFor(s, e) == IF kv_table[s][e] # NoPage THEN kv_table[s][e] ELSE kv_free[Len(kv_free)]

\* The entry for the next row of the pass.
KvEntry(s) == <<kv_pass[s].lh, (kv_len[s] + kv_pass[s].t) \div KvPageSize>>

KvLastRow(pass) == pass.t = pass.P - 1

\* cpx_kvcache_write, and one round of the loop of cpx_kvcache_prefill: the
\* row of pair lh and position seq_len + t.  The last pair of the pass
\* advances seq_len.
KvPut(s) ==
    LET pass == kv_pass[s]
        pos == kv_len[s] + pass.t
        entry == KvEntry(s)
        row == <<s, pass.lh, pos, kv_round[s]>>
        lastRow == KvLastRow(pass)
        lastPair == pass.lh = KvPairs - 1
        fresh == kv_table[s][entry] = NoPage
    IN /\ s \in kv_active /\ pass.P > 0 /\ ~(fresh /\ kv_free = <<>>)
       /\ kv_free' = IF fresh THEN SubSeq(kv_free, 1, Len(kv_free) - 1) ELSE kv_free
       /\ kv_table' = [kv_table EXCEPT ![s][entry] = KvPageFor(s, entry)]
       /\ kv_page' = [kv_page EXCEPT ![KvPageFor(s, entry)][pos % KvPageSize] = row]
       /\ kv_flat' = [kv_flat EXCEPT ![s][KvOffset(pass.lh, pos)] = row]
       /\ kv_pass' = [kv_pass EXCEPT ![s] =
            IF ~lastRow THEN [pass EXCEPT !.t = @ + 1]
            ELSE IF ~lastPair THEN [pass EXCEPT !.t = 0, !.lh = @ + 1]
            ELSE KvNoPass]
       /\ kv_len' = IF lastRow /\ lastPair THEN [kv_len EXCEPT ![s] = @ + pass.P] ELSE kv_len
       /\ UNCHANGED <<kv_active, kv_num, kvSpec, kv_round>>

KvSpecBegin(s) ==
    /\ s \in kv_active
    /\ kv_spec' = [kv_spec EXCEPT ![s] = kv_len[s]]
    /\ kv_spec_len' = [kv_spec_len EXCEPT ![s] = 0]
    /\ UNCHANGED <<kv_active, kv_num, kv_len, kvPool, kv_pass, kv_round>>

\* cpx_kvcache_spec_commit after a spec_begin.  Nothing increments spec_len,
\* so the assertion accepted <= spec_len leaves accepted = 0; the pages
\* beyond the new length stay in the table.
KvSpecCommit(s, accepted) ==
    /\ s \in kv_active /\ kv_spec[s] >= 0 /\ accepted <= kv_spec_len[s]
    /\ kv_len' = [kv_len EXCEPT ![s] = kv_spec[s] + accepted]
    /\ kv_spec' = [kv_spec EXCEPT ![s] = -1] /\ kv_spec_len' = [kv_spec_len EXCEPT ![s] = 0]
    /\ KvRestart(s)
    /\ UNCHANGED <<kv_active, kv_num, kvPool>>

\* The first page that new_len tokens do not need.
KvFirstFree(n) == (n + KvPageSize - 1) \div KvPageSize

\* cpx_kvcache_rollback.
KvRollback(s, n) ==
    /\ s \in kv_active /\ n <= kv_len[s]
    /\ KvRelease(s, KvFirstFree(n))
    /\ kv_len' = [kv_len EXCEPT ![s] = n]
    /\ kv_spec' = [kv_spec EXCEPT ![s] = -1] /\ kv_spec_len' = [kv_spec_len EXCEPT ![s] = 0]
    /\ KvRestart(s)
    /\ UNCHANGED <<kv_active, kv_num, kv_page, kv_flat>>

KvNext ==
    \E s \in KvSeqs :
      \/ KvAllocSeq(s) \/ KvFreeSeq(s) \/ KvPut(s) \/ KvSpecBegin(s)
      \/ \E P \in 1 .. KvMaxLen : KvBegin(s, P)
      \/ KvSpecCommit(s, 0)
      \/ \E n \in 0 .. KvMaxLen : KvRollback(s, n)

KvSpec == KvInit /\ [][KvNext]_kvVars

-----------------------------------------------------------------------------
(* Properties.                                                              *)

\* cpx_kvcache_read_range for one position, in either layout.
KvReadPaged(s, lh, pos) ==
    kv_page[kv_table[s][<<lh, pos \div KvPageSize>>]][pos % KvPageSize]
KvReadFlat(s, lh, pos) == kv_flat[s][KvOffset(lh, pos)]

\* Every position below seq_len has a page, and both layouts return the same
\* row for it, whatever was rolled back, committed, freed and written again
\* by the sequences that share the pool.
KvLayoutsAgree ==
    \A s \in kv_active : \A lh \in KvLh : \A pos \in 0 .. kv_len[s] - 1 :
      /\ kv_table[s][<<lh, pos \div KvPageSize>>] # NoPage
      /\ KvReadPaged(s, lh, pos) = KvReadFlat(s, lh, pos)

\* That row is the one written for this sequence, pair and position.
KvReadsOwnRow ==
    \A s \in kv_active : \A lh \in KvLh : \A pos \in 0 .. kv_len[s] - 1 :
      LET row == KvReadFlat(s, lh, pos) IN row # NoRow /\ row[1] = s /\ row[2] = lh /\ row[3] = pos

\* Every page is once on the stack or once in a table: never shared, never
\* leaked (kv_free_page is called from three places for pages of several pairs).
KvPagesPartition ==
    \A p \in KvPages :
      Cardinality({i \in DOMAIN kv_free : kv_free[i] = p})
        + Cardinality({x \in KvSeqs \X KvLh \X KvPageIdx : kv_table[x[1]][<<x[2], x[3]>>] = p}) = 1

\* The assertion after kv_alloc_page holds: a pool sized for every sequence at
\* full length never runs out, although spec_commit keeps pages and rollback
\* counts in whole pages.
KvPoolSuffices ==
    \A s \in kv_active : kv_pass[s].P > 0 => kv_table[s][KvEntry(s)] # NoPage \/ kv_free # <<>>

\* Safety of the cache over any sequence of passes, rollbacks and releases:
\* every row is found where both layouts look for it, and pages never run out.
KvSafe == KvTypeOK /\ KvLayoutsAgree /\ KvReadsOwnRow /\ KvPagesPartition /\ KvPoolSuffices

-----------------------------------------------------------------------------
(* The inductive invariant.                                                 *)

KvEntries == KvSeqs \X KvLh \X KvPageIdx
KvAt(x) == kv_table[x[1]][<<x[2], x[3]>>]

\* A page is at one place of the stack or in one entry of one table.
KvPlaceInv ==
    /\ \A i, j \in DOMAIN kv_free : kv_free[i] = kv_free[j] => i = j
    /\ \A x, y \in KvEntries : KvAt(x) = KvAt(y) /\ KvAt(x) # NoPage => x = y
    /\ \A i \in DOMAIN kv_free : \A x \in KvEntries : KvAt(x) # kv_free[i]
    /\ \A p \in KvPages : (\E i \in DOMAIN kv_free : kv_free[i] = p) \/ \E x \in KvEntries : KvAt(x) = p

\* The caller's pass stays within max_seq_len; a slot that is not in use has
\* no pass and no pages; speculation began at or before the present length.
KvPassInv(s) ==
    /\ kv_pass[s].P = 0 => kv_pass[s] = KvNoPass
    /\ kv_pass[s].P > 0 => kv_pass[s].t < kv_pass[s].P /\ kv_len[s] + kv_pass[s].P <= KvMaxLen
    /\ s \notin kv_active => kv_pass[s] = KvNoPass /\ kv_table[s] = KvNoTable
    /\ s \in kv_active => kv_spec[s] <= kv_len[s]

\* How many rows of a pair are written: those of the pass are not counted by
\* seq_len before its last pair is done.
KvWritten(s, lh) ==
    kv_len[s] + (IF lh < kv_pass[s].lh THEN kv_pass[s].P
                 ELSE IF lh = kv_pass[s].lh THEN kv_pass[s].t ELSE 0)

\* Each of them is found in both layouts.
KvRowInv(s, lh, pos) ==
    /\ kv_table[s][<<lh, pos \div KvPageSize>>] # NoPage
    /\ KvReadPaged(s, lh, pos) = KvReadFlat(s, lh, pos)
    /\ LET row == KvReadFlat(s, lh, pos) IN row # NoRow /\ row[1] = s /\ row[2] = lh /\ row[3] = pos

KvPassesInv == \A s \in KvSeqs : KvPassInv(s)
KvRowsInv ==
    \A s \in kv_active : \A lh \in KvLh : \A pos \in 0 .. KvWritten(s, lh) - 1 : KvRowInv(s, lh, pos)

KvInv == KvTypeOK /\ KvPlaceInv /\ KvPassesInv /\ KvRowsInv
=============================================================================
