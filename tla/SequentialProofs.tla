-------------------------- MODULE SequentialProofs --------------------------
(***************************************************************************)
(* Algorithms that run in one thread, for every value of their constants.  *)
(* The register allocator of the JIT: values in one register never live at *)
(* the same time, and the code overwrites no value that is still read when *)
(* its blocks are listed in the order of execution.                        *)
(* The key/value cache: reads return the row that was written, from pages  *)
(* that nobody else has.  The containers: the open-addressing table, the   *)
(* ring and the heap are the map, the queue and the priority queue that    *)
(* they stand for.  The borrow checker: what an execution does wrong was   *)
(* reported, and what is reported has a way on which it happens.  The      *)
(* control-flow passes: the lists of every edge match the branches and the *)
(* paths of the function are kept.                                         *)
(***************************************************************************)
EXTENDS JitRegAlloc, KvCache, Collections, MirBorrow, MirCfg, SequenceTheorems, FiniteSetTheorems, WellFoundedInduction, TLAPS

-----------------------------------------------------------------------------
(* The constants as the steps below need them. *)

(* An instruction defines a value or nothing, and reads values. *)
LEMMA InstType ==
  ASSUME NEW code \in JaCodes
  PROVE  /\ Len(code) \in Nat
         /\ DOMAIN code = 1 .. Len(code)
         /\ \A i \in 1 .. Len(code) :
              /\ code[i].reads \subseteq JaValues
              /\ code[i].def \in JaValues \cup {JaNone}
              /\ code[i].def \notin JaParams
<1>1. JaWellFormed(code) BY JaAssumption
<1>2. code \in Seq([reads : SUBSET JaValues, def : JaValues \cup {JaNone}, next : SUBSET (Nat \ {0})])
  BY <1>1 DEF JaWellFormed
<1>3. /\ Len(code) \in Nat
      /\ DOMAIN code = 1 .. Len(code)
      /\ \A i \in 1 .. Len(code) :
           code[i] \in [reads : SUBSET JaValues, def : JaValues \cup {JaNone}, next : SUBSET (Nat \ {0})]
  BY <1>2, LenProperties, ElementOfSeq
<1>4. \A i \in DOMAIN code : code[i].def \notin JaParams
  BY <1>1 DEF JaWellFormed
<1> QED BY <1>3, <1>4

-----------------------------------------------------------------------------
(* The state in which jit_regalloc starts. *)
LEMMA JaInitInv == JaInit => JaInv
<1> SUFFICES ASSUME JaInit PROVE JaInv
  OBVIOUS
<1> USE JaAssumption DEF JaInit, NoReg, NoSlot, FirstUnset, JaRegs
<1>1. JaTypeOK
  <2>1. /\ ja_first \in [JaValues -> Int] /\ ja_last \in [JaValues -> Int]
        /\ ja_reg \in [JaValues -> JaRegs \cup {NoReg}] /\ ja_slot \in [JaValues -> Int]
    OBVIOUS
  <2> QED BY <2>1 DEF JaTypeOK
<1>2. JaDone = {} BY DEF JaDone
<1>3. JaCovers BY InstType DEF JaCovers
<1>4. JaScanned BY <1>2 DEF JaScanned
<1>5. JaDisjoint /\ JaPlaced BY <1>2 DEF JaDisjoint, JaPlaced
<1> QED BY <1>1, <1>3, <1>4, <1>5 DEF JaInv

-----------------------------------------------------------------------------
(* The pass over the instructions. *)

(* Walking one instruction keeps the invariant: the ranges still cover all *)
(* that was walked, the new instruction included.                          *)
LEMMA WalkInv == JaInv /\ JaWalk => JaInv'
<1> SUFFICES ASSUME JaInv, JaWalk PROVE JaInv'
  OBVIOUS
<1>1. JaTypeOK /\ JaCovers /\ JaScanned /\ JaDisjoint /\ JaPlaced BY DEF JaInv
<1>2. JaTypeOK' BY <1>1 DEF JaTypeOK, JaWalk
<1>3. JaDone = {} /\ JaDone' = {} BY DEF JaDone, JaWalk
<1>4. JaCovers'
  <2>1. /\ Len(ja_code) \in Nat
        /\ \A i \in 1 .. Len(ja_code) :
              /\ ja_code[i].reads \subseteq JaValues
              /\ ja_code[i].def \in JaValues \cup {JaNone}
              /\ ja_code[i].def \notin JaParams
    BY <1>1, InstType DEF JaTypeOK
  <2>2. /\ ja_idx \in Nat /\ ja_idx < Len(ja_code) /\ ja_idx' = ja_idx + 1
        /\ ja_code' = ja_code /\ ja_pc = "ranges" /\ ja_pc' = "ranges"
        /\ ja_first \in [JaValues -> Int] /\ ja_last \in [JaValues -> Int]
    BY <1>1 DEF JaTypeOK, JaWalk
  <2>3. \A v \in JaValues : /\ ja_last[v] <= ja_last'[v]
                            /\ ja_first[v] # FirstUnset => ja_first'[v] = ja_first[v]
                            /\ ja_first'[v] < ja_idx'
                            /\ v \in ja_used => v \in ja_used'
    BY <1>1, <2>2 DEF JaCovers, JaWalk
  <2>4. \A v \in JaParams : ja_first'[v] = -1
    BY <1>1, <2>2, <2>3, JaAssumption DEF JaCovers, FirstUnset
  <2>5. ASSUME NEW i \in 1 .. ja_idx'
        PROVE  /\ \A v \in ja_code[i].reads : v \in ja_used' /\ i - 1 <= ja_last'[v]
               /\ ja_code[i].def # JaNone =>
                    /\ ja_code[i].def \in ja_used'
                    /\ ja_first'[ja_code[i].def] <= i - 1 /\ i - 1 <= ja_last'[ja_code[i].def]
                    /\ ja_first'[ja_code[i].def] # FirstUnset
    <3>1. i \in 1 .. Len(ja_code) BY <2>1, <2>2
    <3>2. CASE i <= ja_idx
      <4>1. /\ \A v \in ja_code[i].reads : v \in ja_used /\ i - 1 <= ja_last[v]
            /\ ja_code[i].def # JaNone =>
                 /\ ja_code[i].def \in ja_used
                 /\ ja_first[ja_code[i].def] <= i - 1 /\ i - 1 <= ja_last[ja_code[i].def]
                 /\ ja_first[ja_code[i].def] # FirstUnset
        BY <1>1, <3>2, <2>2 DEF JaCovers
      <4>2. /\ \A v \in JaValues : ja_last[v] \in Int /\ ja_last'[v] \in Int
            /\ i \in Int
        BY <2>2, <1>2 DEF JaTypeOK
      <4> QED BY <4>1, <4>2, <3>1, <2>1, <2>3
    <3>3. CASE i = ja_idx + 1
      <4>1. JaInst = ja_code[i] BY <3>3 DEF JaInst
      <4>2. \A v \in JaValues : v \in ja_code[i].reads \/ v = ja_code[i].def =>
                                  v \in ja_used' /\ i - 1 <= ja_last'[v]
        BY <4>1, <3>3, <2>2 DEF JaTouched, JaWalk
      <4>3. ja_code[i].def \in JaValues =>
              ja_first'[ja_code[i].def] <= i - 1 /\ ja_first'[ja_code[i].def] # FirstUnset
        BY <1>1, <4>1, <3>3, <2>2 DEF JaCovers, JaWalk, FirstUnset
      <4> QED BY <4>2, <4>3, <3>1, <2>1
    <3> QED BY <3>1, <3>2, <3>3, <2>1, <2>2
  <2> QED BY <2>1, <2>2, <2>3, <2>4, <2>5 DEF JaCovers
<1>5. JaScanned' BY <1>1, <1>3 DEF JaScanned, JaWalk
<1>6. JaDisjoint' /\ JaPlaced' BY <1>3 DEF JaDisjoint, JaPlaced
<1> QED BY <1>2, <1>4, <1>5, <1>6 DEF JaInv

(* The list of ranges is complete when the scan begins, and nothing is     *)
(* placed yet.                                                             *)
LEMMA SortInv == JaInv /\ JaSort => JaInv'
<1> SUFFICES ASSUME JaInv, JaSort PROVE JaInv'
  OBVIOUS
<1> USE JaAssumption DEF JaInv, JaSort
<1>1. JaTypeOK' BY DEF JaTypeOK
<1>2. JaDone = {} /\ JaDone' = {} BY DEF JaDone
<1>3. JaCovers'
  <2>1. \A v \in JaValues : ja_first[v] # FirstUnset => ja_first'[v] = ja_first[v]
    BY DEF JaTypeOK
  <2>2. \A i \in 1 .. Len(ja_code) : ja_code[i].def # JaNone => ja_code[i].def \in JaValues
    BY InstType DEF JaTypeOK
  <2>3. \A v \in JaParams : ja_first'[v] = -1
    BY <2>1 DEF JaCovers, FirstUnset
  <2> QED BY <2>1, <2>2, <2>3 DEF JaCovers, JaTypeOK
<1>4. JaScanned' BY <1>2 DEF JaScanned, JaTypeOK
<1>5. JaDisjoint' /\ JaPlaced' BY <1>2 DEF JaDisjoint, JaPlaced
<1> QED BY <1>1, <1>3, <1>4, <1>5

-----------------------------------------------------------------------------
(* The scan. *)

(* What a scan step knows when it takes v: v is not placed, no later range *)
(* begins earlier, what holds a register is still active or over, and no   *)
(* register counted as free is held by an active value.                    *)
LEMMA NextRange ==
  ASSUME JaInv, ja_pc = "scan", NEW v \in JaValues, JaIsNext(v)
  PROVE  /\ v \in ja_todo /\ v \notin JaDone /\ ja_reg[v] = NoReg /\ ja_slot[v] = NoSlot
         /\ \A u \in ja_todo : ja_first[v] <= ja_first[u]
         /\ \A w \in JaDone : ja_first[w] <= ja_first[v]
         /\ StillActive(v) \subseteq ja_active
         /\ \A w \in JaDone \ StillActive(v) : ja_reg[w] # NoReg => ja_last[w] < ja_first[v]
         /\ \A w \in StillActive(v) : ja_reg[w] \in JaRegs /\ ja_reg[w] \notin FreeFor(v)
         /\ FreeFor(v) \subseteq JaRegs
<1> USE JaAssumption DEF JaInv
<1>1. v \in ja_todo /\ v \notin JaDone BY DEF JaIsNext, JaDone
<1>2. ja_reg[v] = NoReg /\ ja_slot[v] = NoSlot BY <1>1 DEF JaScanned
<1>3. \A u \in ja_todo : ja_first[v] <= ja_first[u]
  BY DEF JaIsNext, Before, JaTypeOK
<1>4. \A w \in JaDone : ja_first[w] <= ja_first[v]
  BY <1>1 DEF JaScanned
<1>5. \A w \in JaDone \ StillActive(v) : ja_reg[w] # NoReg => ja_last[w] < ja_first[v]
  BY <1>1 DEF JaScanned, StillActive, Expired
<1>6. \A w \in ja_active : ja_reg[w] \in JaRegs
  BY DEF JaScanned, JaTypeOK
<1>7. \A w \in StillActive(v) : ja_reg[w] \notin FreeFor(v)
  BY DEF JaScanned, StillActive, Expired, FreeFor
<1>8. FreeFor(v) \subseteq JaRegs
  BY <1>6 DEF FreeFor, Expired, JaTypeOK
<1> QED BY <1>1, <1>2, <1>3, <1>4, <1>5, <1>6, <1>7, <1>8 DEF StillActive

(* The ranges and the code do not change during the scan. *)
LEMMA SameCovers ==
  ASSUME JaCovers,
         UNCHANGED <<ja_code, ja_pc, ja_idx, ja_used, ja_first, ja_last>>
  PROVE  JaCovers'
BY DEF JaCovers

(* A free register goes to v: whoever had it before is over. *)
LEMMA TakeRegInv ==
  ASSUME JaInv, NEW v \in JaValues, JaTakeReg(v)
  PROVE  JaInv'
<1> USE JaAssumption DEF JaInv
<1>1. ja_pc = "scan" /\ JaIsNext(v) BY DEF JaTakeReg
<1>2. PICK r \in FreeFor(v) : /\ ja_reg' = [ja_reg EXCEPT ![v] = r]
                              /\ ja_free' = FreeFor(v) \ {r}
  BY DEF JaTakeReg
<1>3. /\ v \in ja_todo /\ v \notin JaDone /\ ja_reg[v] = NoReg /\ ja_slot[v] = NoSlot
      /\ \A u \in ja_todo : ja_first[v] <= ja_first[u]
      /\ \A w \in JaDone : ja_first[w] <= ja_first[v]
      /\ StillActive(v) \subseteq ja_active
      /\ \A w \in JaDone \ StillActive(v) : ja_reg[w] # NoReg => ja_last[w] < ja_first[v]
      /\ \A w \in StillActive(v) : ja_reg[w] \in JaRegs /\ ja_reg[w] \notin FreeFor(v)
      /\ FreeFor(v) \subseteq JaRegs
  BY <1>1, NextRange
<1>4. /\ ja_active' = StillActive(v) \cup {v} /\ ja_todo' = ja_todo \ {v}
      /\ UNCHANGED <<ja_code, ja_pc, ja_idx, ja_used, ja_first, ja_last, ja_slot, ja_slots, ja_ok>>
  BY DEF JaTakeReg
<1>5. JaDone' = JaDone \cup {v}
  BY <1>1, <1>3, <1>4 DEF JaDone, JaScanned, JaTypeOK
<1>6. r \in JaRegs /\ r # NoReg
  BY <1>2, <1>3 DEF JaRegs, NoReg
<1>7. /\ ja_reg'[v] = r
      /\ \A w \in JaValues : w # v => ja_reg'[w] = ja_reg[w]
  BY <1>2 DEF JaTypeOK
<1>8. JaTypeOK'
  BY <1>2, <1>3, <1>4, <1>6 DEF JaTypeOK
<1>9. JaScanned'
  <2>1. ja_todo' \subseteq ja_used' /\ ja_active' \subseteq JaDone'
    BY <1>3, <1>4, <1>5 DEF JaScanned
  <2>2. \A w \in JaValues \ JaDone' : ja_reg'[w] = NoReg /\ ja_slot'[w] = NoSlot
    BY <1>4, <1>5, <1>7 DEF JaScanned
  <2>3. \A w \in JaDone', u \in ja_todo' : ja_first'[w] <= ja_first'[u]
    BY <1>3, <1>4, <1>5 DEF JaScanned
  <2>4. \A w \in ja_active' : ja_reg'[w] # NoReg /\ ja_reg'[w] \notin ja_free'
    BY <1>2, <1>3, <1>4, <1>6, <1>7 DEF JaScanned, JaTypeOK
  <2>5. \A w, x \in ja_active' : w # x => ja_reg'[w] # ja_reg'[x]
    <3>1. \A w \in StillActive(v) : ja_reg'[w] = ja_reg[w] /\ ja_reg[w] # r
      BY <1>2, <1>3, <1>7 DEF JaScanned, JaTypeOK
    <3> QED BY <3>1, <1>3, <1>4, <1>7 DEF JaScanned
  <2>6. \A w \in JaDone' \ ja_active', u \in ja_todo' :
           ja_reg'[w] # NoReg => ja_last'[w] < ja_first'[u]
    <3>1. \A w \in JaDone' \ ja_active' :
            w \in JaDone \ StillActive(v) /\ ja_reg'[w] = ja_reg[w] /\ w \in JaValues
      BY <1>4, <1>5, <1>7 DEF JaDone, JaTypeOK
    <3>2. ja_first' = ja_first /\ ja_last' = ja_last /\ ja_todo' \subseteq ja_todo /\ ja_todo \subseteq JaValues
      BY <1>4 DEF JaTypeOK
    <3>3. \A w \in JaValues : ja_first[w] \in Int /\ ja_last[w] \in Int
      BY DEF JaTypeOK
    <3>4. ASSUME NEW w \in JaDone' \ ja_active', NEW u \in ja_todo', ja_reg'[w] # NoReg PROVE ja_last'[w] < ja_first'[u]
      <4>1. ja_last[w] < ja_first[v] /\ w \in JaValues
        BY <1>3, <3>1, <3>4
      <4>2. ja_first[v] <= ja_first[u] /\ u \in JaValues
        BY <1>3, <3>2, <3>4
      <4> QED BY <3>2, <3>3, <4>1, <4>2
    <3> QED BY <3>4
  <2>7. \A w \in JaValues : ja_slot'[w] < ja_slots'
    BY <1>4 DEF JaScanned
  <2> QED BY <2>1, <2>2, <2>3, <2>4, <2>5, <2>6, <2>7, <1>1, <1>4 DEF JaScanned
<1>10. JaDisjoint'
  <2>1. \A w \in JaDone : ja_reg[w] = r => ja_last[w] < ja_first[v]
    BY <1>3, <1>6
  <2>2. ASSUME NEW x \in JaDone', NEW w \in JaDone', x # w, ja_reg'[x] = ja_reg'[w], ja_reg'[x] # NoReg
        PROVE  ja_last[x] < ja_first[w] \/ ja_last[w] < ja_first[x]
    <3>1. /\ x = v \/ (x \in JaDone /\ ja_reg'[x] = ja_reg[x])
          /\ w = v \/ (w \in JaDone /\ ja_reg'[w] = ja_reg[w])
      BY <1>3, <1>5, <1>7 DEF JaDone, JaTypeOK
    <3>2. CASE x = v BY <1>7, <2>1, <2>2, <3>1, <3>2
    <3>3. CASE w = v BY <1>7, <2>1, <2>2, <3>1, <3>3
    <3>4. CASE x # v /\ w # v BY <2>2, <3>1, <3>4 DEF JaDisjoint
    <3> QED BY <3>2, <3>3, <3>4
  <2>3. ja_last' = ja_last /\ ja_first' = ja_first BY <1>4
  <2> QED BY <2>2, <2>3 DEF JaDisjoint
<1>11. JaPlaced'
  <2>1. \A w \in JaDone : w # v /\ w \in JaValues BY <1>3 DEF JaDone, JaTypeOK
  <2>2. \A w \in JaDone' : (ja_reg'[w] = NoReg) <=> (ja_slot'[w] # NoSlot)
    BY <2>1, <1>3, <1>4, <1>5, <1>6, <1>7 DEF JaPlaced
  <2>3. \A w, x \in JaDone' : w # x /\ ja_slot'[w] # NoSlot => ja_slot'[w] # ja_slot'[x]
    BY <2>1, <1>3, <1>4, <1>5 DEF JaPlaced
  <2> QED BY <2>2, <2>3 DEF JaPlaced
<1> QED BY <1>4, <1>8, <1>9, <1>10, <1>11, SameCovers

(* v takes the register of s: the others that had it are over, and s has   *)
(* the new slot for itself.                                                *)
LEMMA SpillActiveInv ==
  ASSUME JaInv, NEW v \in JaValues, JaSpillActive(v)
  PROVE  JaInv'
<1> USE JaAssumption DEF JaInv
<1>1. ja_pc = "scan" /\ JaIsNext(v) /\ FreeFor(v) = {} BY DEF JaSpillActive
<1>2. PICK s \in ja_active : /\ s \in StillActive(v)
                             /\ ja_reg' = [ja_reg EXCEPT ![v] = ja_reg[s], ![s] = NoReg]
                             /\ ja_slot' = [ja_slot EXCEPT ![s] = ja_slots]
                             /\ ja_active' = (StillActive(v) \ {s}) \cup {v}
  BY DEF JaSpillActive, JaSpillRegs, JaFurthest
<1>3. /\ v \in ja_todo /\ v \notin JaDone /\ ja_reg[v] = NoReg /\ ja_slot[v] = NoSlot
      /\ \A u \in ja_todo : ja_first[v] <= ja_first[u]
      /\ \A w \in JaDone : ja_first[w] <= ja_first[v]
      /\ StillActive(v) \subseteq ja_active
      /\ \A w \in JaDone \ StillActive(v) : ja_reg[w] # NoReg => ja_last[w] < ja_first[v]
      /\ \A w \in StillActive(v) : ja_reg[w] \in JaRegs
  BY <1>1, NextRange
<1>4. /\ ja_todo' = ja_todo \ {v} /\ ja_free' = {} /\ ja_slots' = ja_slots + 1
      /\ UNCHANGED <<ja_code, ja_pc, ja_idx, ja_used, ja_first, ja_last, ja_ok>>
  BY <1>1 DEF JaSpillActive
<1>5. JaDone' = JaDone \cup {v}
  BY <1>1, <1>3, <1>4 DEF JaDone, JaScanned, JaTypeOK
<1>6. s \in JaDone /\ s \in JaValues /\ s # v /\ ja_reg[s] \in JaRegs /\ ja_reg[s] # NoReg
  BY <1>2, <1>3 DEF JaScanned, JaRegs, NoReg, JaTypeOK
<1>7. /\ ja_reg'[v] = ja_reg[s] /\ ja_reg'[s] = NoReg /\ ja_slot'[s] = ja_slots
      /\ \A w \in JaValues : w # v /\ w # s => ja_reg'[w] = ja_reg[w]
      /\ \A w \in JaValues : w # s => ja_slot'[w] = ja_slot[w]
  BY <1>2, <1>6 DEF JaTypeOK
<1>8. JaTypeOK'
  <2>1. ja_reg' \in [JaValues -> JaRegs \cup {NoReg}] BY <1>2, <1>6 DEF JaTypeOK
  <2>2. ja_slot' \in [JaValues -> Int] /\ ja_slots' \in Nat BY <1>2, <1>4 DEF JaTypeOK
  <2>3. ja_todo' \subseteq JaValues /\ ja_active' \subseteq JaValues /\ ja_free' \subseteq JaRegs
    BY <1>2, <1>3, <1>4 DEF JaTypeOK
  <2> QED BY <2>1, <2>2, <2>3, <1>4 DEF JaTypeOK
<1>9. \A w \in JaDone : w # s /\ ja_reg[w] = ja_reg[s] => ja_last[w] < ja_first[v]
  BY <1>2, <1>3, <1>6 DEF JaScanned
<1>10. \A w \in JaDone : w # v /\ w \in JaValues BY <1>3 DEF JaDone, JaTypeOK
<1>11. JaScanned'
  <2>1. ja_todo' \subseteq ja_used' /\ ja_active' \subseteq JaDone'
    BY <1>2, <1>3, <1>4, <1>5 DEF JaScanned
  <2>2. \A w \in JaValues \ JaDone' : ja_reg'[w] = NoReg /\ ja_slot'[w] = NoSlot
    BY <1>5, <1>6, <1>7 DEF JaScanned
  <2>3. \A w \in JaDone', u \in ja_todo' : ja_first'[w] <= ja_first'[u]
    BY <1>3, <1>4, <1>5 DEF JaScanned
  <2>4. \A w \in StillActive(v) \ {s} :
          ja_reg'[w] = ja_reg[w] /\ ja_reg[w] # NoReg /\ ja_reg[w] # ja_reg[s]
    BY <1>2, <1>3, <1>7, <1>10 DEF JaScanned, JaTypeOK
  <2>5. /\ ja_active' = (StillActive(v) \ {s}) \cup {v} /\ ja_reg'[v] = ja_reg[s]
        /\ \A w, x \in StillActive(v) : w # x => ja_reg[w] # ja_reg[x]
    BY <1>2, <1>3, <1>7 DEF JaScanned
  <2>6. \A w \in ja_active' : ja_reg'[w] # NoReg /\ ja_reg'[w] \notin ja_free'
    BY ONLY <2>4, <2>5, <1>4, <1>6
  <2>7. \A w, x \in ja_active' : w # x => ja_reg'[w] # ja_reg'[x]
    BY ONLY <2>4, <2>5
  <2>8. \A w \in JaDone' \ ja_active', u \in ja_todo' :
           ja_reg'[w] # NoReg => ja_last'[w] < ja_first'[u]
    <3>1. \A w \in JaDone' \ ja_active' : ja_reg'[w] # NoReg =>
            w \in JaDone \ StillActive(v) /\ ja_reg'[w] = ja_reg[w] /\ w \in JaValues
      BY <1>2, <1>5, <1>7, <1>10
    <3>2. /\ \A w \in JaValues : ja_last[w] \in Int /\ ja_first[w] \in Int
          /\ \A u \in ja_todo' : u \in JaValues /\ ja_first[v] <= ja_first[u]
          /\ ja_last' = ja_last /\ ja_first' = ja_first
      BY <1>3, <1>4 DEF JaTypeOK
    <3> QED BY ONLY <3>1, <3>2, <1>3, v \in JaValues
  <2>9. \A w \in JaValues : ja_slot'[w] < ja_slots'
    BY <1>4, <1>7 DEF JaScanned, JaTypeOK
  <2> QED BY <2>1, <2>2, <2>3, <2>6, <2>7, <2>8, <2>9, <1>1, <1>4 DEF JaScanned
<1>12. JaDisjoint'
  BY <1>4, <1>5, <1>7, <1>9, <1>10 DEF JaDisjoint
<1>13. JaPlaced'
  <2>1. ja_slots # NoSlot BY DEF JaTypeOK, NoSlot
  <2>2. \A w \in JaDone' : (ja_reg'[w] = NoReg) <=> (ja_slot'[w] # NoSlot)
    BY <2>1, <1>3, <1>5, <1>6, <1>7, <1>10 DEF JaPlaced
  <2>3. \A w \in JaValues : ja_slot[w] # ja_slots
    BY DEF JaScanned, JaTypeOK
  <2>4. ASSUME NEW w \in JaDone', NEW x \in JaDone', w # x, ja_slot'[w] # NoSlot
        PROVE  ja_slot'[w] # ja_slot'[x]
    <3>1. \A y \in JaDone' : y \in JaValues /\ (y \in JaDone \/ y = v)
      BY <1>5, <1>10
    <3>2. ja_slot'[s] = ja_slots /\ (\A y \in JaValues : y # s => ja_slot'[y] = ja_slot[y] /\ ja_slot[y] # ja_slots)
      BY <1>7, <2>3
    <3>3. CASE w = s \/ x = s BY <2>4, <3>1, <3>2, <3>3
    <3>4. CASE w # s /\ x # s
      <4>1. ja_slot'[w] = ja_slot[w] /\ ja_slot'[x] = ja_slot[x] /\ w # v
        BY <1>3, <2>4, <3>1, <3>2, <3>4
      <4>2. CASE x = v BY <1>3, <2>4, <4>1, <4>2
      <4>3. CASE x # v
        <5>1. w \in JaDone /\ x \in JaDone BY <3>1, <4>1, <4>3
        <5> QED BY <2>4, <4>1, <5>1 DEF JaPlaced
      <4> QED BY <4>2, <4>3
    <3> QED BY <3>3, <3>4
  <2> QED BY <2>2, <2>4 DEF JaPlaced
<1> QED BY <1>4, <1>8, <1>11, <1>12, <1>13, SameCovers

(* v goes to a slot of its own and no register changes hands. *)
LEMMA SpillNewInv ==
  ASSUME JaInv, NEW v \in JaValues, JaSpillNew(v)
  PROVE  JaInv'
<1> USE JaAssumption DEF JaInv
<1>1. ja_pc = "scan" /\ JaIsNext(v) /\ FreeFor(v) = {} BY DEF JaSpillNew
<1>2. /\ v \in ja_todo /\ v \notin JaDone /\ ja_reg[v] = NoReg /\ ja_slot[v] = NoSlot
      /\ \A u \in ja_todo : ja_first[v] <= ja_first[u]
      /\ \A w \in JaDone : ja_first[w] <= ja_first[v]
      /\ StillActive(v) \subseteq ja_active
      /\ \A w \in JaDone \ StillActive(v) : ja_reg[w] # NoReg => ja_last[w] < ja_first[v]
  BY <1>1, NextRange
<1>3. /\ ja_todo' = ja_todo \ {v} /\ ja_free' = {} /\ ja_slots' = ja_slots + 1
      /\ ja_slot' = [ja_slot EXCEPT ![v] = ja_slots] /\ ja_active' = StillActive(v)
      /\ UNCHANGED <<ja_code, ja_pc, ja_idx, ja_used, ja_first, ja_last, ja_reg, ja_ok>>
  BY <1>1 DEF JaSpillNew
<1>4. JaDone' = JaDone \cup {v}
  BY <1>1, <1>2, <1>3 DEF JaDone, JaScanned, JaTypeOK
<1>5. /\ ja_slot'[v] = ja_slots
      /\ \A w \in JaValues : w # v => ja_slot'[w] = ja_slot[w]
  BY <1>3 DEF JaTypeOK
<1>6. JaTypeOK'
  <2>1. ja_slot' \in [JaValues -> Int] /\ ja_slots' \in Nat BY <1>3 DEF JaTypeOK
  <2>2. ja_todo' \subseteq JaValues /\ ja_active' \subseteq JaValues /\ ja_free' \subseteq JaRegs
    BY <1>2, <1>3 DEF JaTypeOK
  <2> QED BY <2>1, <2>2, <1>3 DEF JaTypeOK
<1>7. \A w \in JaDone : w # v /\ w \in JaValues BY <1>2 DEF JaDone, JaTypeOK
<1>8. JaScanned'
  <2>1. ja_todo' \subseteq ja_used' /\ ja_active' \subseteq JaDone'
    BY <1>2, <1>3, <1>4 DEF JaScanned
  <2>2. \A w \in JaValues \ JaDone' : ja_reg'[w] = NoReg /\ ja_slot'[w] = NoSlot
    BY <1>3, <1>4, <1>5 DEF JaScanned
  <2>3. \A w \in JaDone', u \in ja_todo' : ja_first'[w] <= ja_first'[u]
    BY <1>2, <1>3, <1>4 DEF JaScanned
  <2>4. \A w \in ja_active' : ja_reg'[w] # NoReg /\ ja_reg'[w] \notin ja_free'
    BY <1>2, <1>3 DEF JaScanned
  <2>5. \A w, x \in ja_active' : w # x => ja_reg'[w] # ja_reg'[x]
    BY <1>2, <1>3 DEF JaScanned
  <2>6. \A w \in JaDone' \ ja_active', u \in ja_todo' :
           ja_reg'[w] # NoReg => ja_last'[w] < ja_first'[u]
    <3>1. \A w \in JaDone' \ ja_active' : ja_reg'[w] # NoReg => w \in JaDone \ StillActive(v)
      BY <1>2, <1>3, <1>4
    <3>2. /\ \A w \in JaValues : ja_last[w] \in Int /\ ja_first[w] \in Int
          /\ \A u \in ja_todo' : u \in JaValues /\ ja_first[v] <= ja_first[u]
          /\ ja_last' = ja_last /\ ja_first' = ja_first /\ ja_reg' = ja_reg
      BY <1>2, <1>3 DEF JaTypeOK
    <3> QED BY ONLY <3>1, <3>2, <1>2, <1>7, v \in JaValues
  <2>7. \A w \in JaValues : ja_slot'[w] < ja_slots'
    BY <1>3, <1>5 DEF JaScanned, JaTypeOK
  <2> QED BY <2>1, <2>2, <2>3, <2>4, <2>5, <2>6, <2>7, <1>1, <1>3 DEF JaScanned
<1>9. JaDisjoint'
  BY <1>2, <1>3, <1>4 DEF JaDisjoint
<1>10. JaPlaced'
  <2>1. ja_slots # NoSlot BY DEF JaTypeOK, NoSlot
  <2>2. \A w \in JaDone' : (ja_reg'[w] = NoReg) <=> (ja_slot'[w] # NoSlot)
    BY <2>1, <1>2, <1>3, <1>4, <1>5, <1>7 DEF JaPlaced
  <2>3. \A w \in JaValues : ja_slot[w] # ja_slots
    BY DEF JaScanned, JaTypeOK
  <2>4. \A w, x \in JaDone' : w # x /\ ja_slot'[w] # NoSlot => ja_slot'[w] # ja_slot'[x]
    BY <2>3, <1>4, <1>5, <1>7 DEF JaPlaced
  <2> QED BY <2>2, <2>4 DEF JaPlaced
<1> QED BY <1>3, <1>6, <1>8, <1>9, <1>10, SameCovers

(* The end of the scan changes nothing that was placed. *)
LEMMA FinishInv == JaInv /\ JaFinish => JaInv'
<1> SUFFICES ASSUME JaInv, JaFinish PROVE JaInv'
  OBVIOUS
<1> USE DEF JaInv
<1>1. JaTypeOK' BY DEF JaFinish, JaTypeOK
<1>2. JaDone' = JaDone BY DEF JaFinish, JaDone
<1>3. JaCovers' BY DEF JaFinish, JaCovers
<1>4. JaScanned' BY <1>2 DEF JaFinish, JaScanned
<1>5. JaDisjoint' /\ JaPlaced' BY <1>2 DEF JaFinish, JaDisjoint, JaPlaced
<1> QED BY <1>1, <1>3, <1>4, <1>5

(* Every step of jit_regalloc keeps the invariant. *)
LEMMA StepInv == JaInv /\ [JaNext]_jaVars => JaInv'
<1> SUFFICES ASSUME JaInv, [JaNext]_jaVars PROVE JaInv'
  OBVIOUS
<1>1. CASE JaWalk BY <1>1, WalkInv
<1>2. CASE JaSort BY <1>2, SortInv
<1>3. CASE JaFinish BY <1>3, FinishInv
<1>4. ASSUME NEW v \in JaValues, JaTakeReg(v) PROVE JaInv' BY <1>4, TakeRegInv
<1>5. ASSUME NEW v \in JaValues, JaSpillActive(v) PROVE JaInv' BY <1>5, SpillActiveInv
<1>6. ASSUME NEW v \in JaValues, JaSpillNew(v) PROVE JaInv' BY <1>6, SpillNewInv
<1>7. CASE UNCHANGED jaVars
  BY <1>7 DEF jaVars, JaInv, JaTypeOK, JaCovers, JaScanned, JaDisjoint, JaPlaced, JaDone
<1> QED BY <1>1, <1>2, <1>3, <1>4, <1>5, <1>6, <1>7 DEF JaNext

-----------------------------------------------------------------------------
(* The inductive invariant holds in every state of the allocator. *)
THEOREM JaInvariant == JaSpec => []JaInv
BY JaInitInv, StepInv, PTL DEF JaSpec

(* At every moment of the scan, values that share a register have ranges   *)
(* that do not meet, also after one of them took the register of a value   *)
(* that was spilled.                                                       *)
THEOREM JaDisjointness == JaSpec => []JaDisjoint
<1>1. JaInv => JaDisjoint BY DEF JaInv
<1> QED BY JaInvariant, <1>1, PTL

(* Every value that was scanned is in a register or a slot and not in      *)
(* both, and no slot is given out twice.                                   *)
THEOREM JaPlacement == JaSpec => []JaPlaced
<1>1. JaInv => JaPlaced BY DEF JaInv
<1> QED BY JaInvariant, <1>1, PTL

(* Where every branch goes forward, what is executed after k is listed     *)
(* after k.                                                                *)
LEMMA ReachedLater ==
  ASSUME NEW code, NEW n \in Nat, DOMAIN code = 1 .. n, JaForward(code),
         \A i \in DOMAIN code : code[i].next \subseteq DOMAIN code,
         NEW k \in DOMAIN code, NEW stop, NEW j, JaReaches(code, {k}, stop, j)
  PROVE  k <= j
<1> DEFINE S == {i \in DOMAIN code : k <= i}
<1>1. \A i \in S : code[i].next \subseteq S
  <2>1. SUFFICES ASSUME NEW i \in S, NEW m \in code[i].next PROVE m \in S
    OBVIOUS
  <2>2. i < m /\ m \in DOMAIN code
    BY DEF JaForward
  <2> QED BY <2>2
<1>2. S \in SUBSET DOMAIN code /\ {k} \subseteq S
  OBVIOUS
<1>3. j \in S
  BY <1>1, <1>2 DEF JaReaches
<1> QED BY <1>3

(* Where every branch goes forward, a value that is read after k without   *)
(* being defined again in between is defined in the list before k.         *)
LEMMA DefinedBefore ==
  ASSUME NEW code \in JaCodes, JaForward(code), NEW v \in JaValues \ JaParams,
         NEW k \in DOMAIN code, NEW j \in DOMAIN code, v \in code[j].reads, code[k].def # v,
         JaReaches(code, {1}, {}, k), JaReaches(code, {k}, JaDefs(code, v), j)
  PROVE  \E d \in 1 .. k - 1 : code[d].def = v
<1>1. /\ Len(code) \in Nat /\ DOMAIN code = 1 .. Len(code)
      /\ \A i \in DOMAIN code : code[i].next \subseteq DOMAIN code
      /\ ~JaReaches(code, {1}, JaDefs(code, v), j)
  BY InstType, JaAssumption DEF JaWellFormed
<1>2. SUFFICES ASSUME \A d \in JaDefs(code, v) : d > k PROVE FALSE
  <2>1. \A d \in JaDefs(code, v) : d \in 1 .. Len(code) /\ code[d].def = v /\ d # k
    BY <1>1 DEF JaDefs
  <2> QED BY <1>1, <2>1
<1>3. PICK S \in SUBSET DOMAIN code :
        /\ {1} \subseteq S /\ j \notin S
        /\ \A i \in S \ JaDefs(code, v) : code[i].next \subseteq S
  BY <1>1 DEF JaReaches
<1> DEFINE T == S \cup {i \in DOMAIN code : i > k}
<1>4. \A i \in T : code[i].next \subseteq T
  <2>1. ASSUME NEW i \in DOMAIN code, i > k PROVE code[i].next \subseteq T
    <3>1. \A n \in code[i].next : n \in DOMAIN code /\ i < n
      BY <1>1 DEF JaForward
    <3> QED BY <1>1, <2>1, <3>1
  <2>2. \A i \in S \ JaDefs(code, v) : code[i].next \subseteq T
    BY <1>3
  <2>3. \A i \in S : i \in DOMAIN code
    BY <1>3
  <2>4. \A i \in JaDefs(code, v) : i \in DOMAIN code /\ i > k
    BY <1>2 DEF JaDefs
  <2> QED BY <2>1, <2>2, <2>3, <2>4
<1>5. k \in T
  <2>1. T \in SUBSET DOMAIN code /\ {1} \subseteq T
    BY <1>3
  <2> QED BY <1>4, <2>1 DEF JaReaches
<1>6. {k} \subseteq S
  BY <1>1, <1>5
<1>7. j \in S
  BY <1>3, <1>6 DEF JaReaches
<1> QED BY <1>3, <1>7

(* Disjoint ranges that cover the instructions suffice, where the blocks   *)
(* are listed in the order of execution: an instruction that writes a      *)
(* register lies in the range of the value it defines, and in that of a    *)
(* value that is read there or later.                                      *)
LEMMA InvNoClobber == JaInv => JaNoClobber
<1> SUFFICES ASSUME JaInv, ja_pc = "done", JaForward(ja_code),
                    NEW v \in JaValues, NEW w \in JaValues,
                    NEW k \in DOMAIN ja_code, NEW j \in DOMAIN ja_code,
                    v # w, ja_reg[v] = ja_reg[w], ja_reg[v] # NoReg,
                    ja_code[k].def = w, v \in ja_code[j].reads,
                    JaReaches(ja_code, {1}, {}, k), JaReaches(ja_code, {k}, JaDefs(ja_code, v), j)
             PROVE  FALSE
  BY DEF JaNoClobber
<1>1. JaTypeOK /\ JaCovers /\ JaScanned /\ JaDisjoint BY DEF JaInv
<1>2. /\ Len(ja_code) \in Nat /\ DOMAIN ja_code = 1 .. Len(ja_code)
      /\ ja_idx = Len(ja_code) /\ ja_code \in JaCodes
      /\ \A i \in DOMAIN ja_code : ja_code[i].next \subseteq DOMAIN ja_code
  BY <1>1, InstType, JaAssumption DEF JaTypeOK, JaCovers, JaWellFormed
<1>3. v \in ja_used /\ j - 1 <= ja_last[v]
  BY <1>1, <1>2 DEF JaCovers
<1>4. w \in ja_used /\ ja_first[w] <= k - 1 /\ k - 1 <= ja_last[w]
  BY <1>1, <1>2, JaAssumption DEF JaCovers
<1>5. v \in JaDone /\ w \in JaDone
  BY <1>1, <1>3, <1>4 DEF JaDone, JaScanned
<1>6. /\ ja_first[v] \in Int /\ ja_last[v] \in Int
      /\ ja_first[w] \in Int /\ ja_last[w] \in Int /\ k \in Nat /\ j \in Nat /\ k >= 1
  BY <1>1, <1>2 DEF JaTypeOK
<1>7. k <= j
  BY <1>2, ReachedLater
<1>8. ja_first[v] <= k - 1
  <2>1. CASE v \in JaParams
    BY <1>1, <1>6, <2>1 DEF JaCovers
  <2>2. CASE v \notin JaParams
    <3>1. PICK d \in 1 .. k - 1 : ja_code[d].def = v
      BY <1>2, <2>2, DefinedBefore
    <3>2. d \in 1 .. ja_idx
      BY <1>2, <3>1
    <3>3. ja_first[v] <= d - 1
      BY <1>1, <3>1, <3>2, JaAssumption DEF JaCovers
    <3> QED BY <1>6, <3>1, <3>3
  <2> QED BY <2>1, <2>2
<1>9. ja_last[v] < ja_first[w] \/ ja_last[w] < ja_first[v]
  BY <1>1, <1>5 DEF JaDisjoint
<1> QED BY <1>3, <1>4, <1>6, <1>7, <1>8, <1>9

(* Where the blocks are listed in the order of execution, the generated    *)
(* code writes no register whose value is read there or later on some way  *)
(* through the branches; jit_function_is_supported does not check the      *)
(* order, and the theorem does not cover other functions.                  *)
THEOREM JaNeverClobbers == JaSpec => []JaNoClobber
BY JaInvariant, InvNoClobber, PTL

(* Safety of the allocator for every set of registers and every limit on   *)
(* the stack slots: the ranges cover what the list mentions, values in one *)
(* register have disjoint ranges and every value has a place, for every    *)
(* function in SSA form; no value that is needed is overwritten, for those *)
(* whose blocks are listed in the order of execution.                      *)
THEOREM JaIsSafe == JaSpec => []JaSafe
<1>1. JaInv /\ JaNoClobber => JaSafe
  BY DEF JaSafe
<1> QED BY <1>1, JaInvariant, JaNeverClobbers, PTL

-----------------------------------------------------------------------------
(* A least element; division.                                               *)

LEMMA SmallestExists ==
  ASSUME NEW S, S \subseteq Nat, S # {}
  PROVE  \E x \in S : \A y \in S : x <= y
<1> DEFINE R == {ss \in Nat \X Nat : ss[1] < ss[2]}
<1>1. IsWellFoundedOn(R, Nat)
  BY NatLessThanWellFounded, Zenon DEF OpToRel
<1> HIDE DEF R
<1>2. PICK x \in S : \A y \in S : ~(<<y, x>> \in R)
  BY <1>1, WFMin
<1>3. ASSUME NEW y \in S PROVE x <= y
  <2>1. <<y, x>> \in Nat \X Nat /\ ~(<<y, x>> \in R)
    BY <1>2
  <2>2. ~(y < x)
    BY <2>1 DEF R
  <2> QED BY <2>1, <2>2
<1> QED BY <1>3

LEMMA DivMod ==
  ASSUME NEW n \in Nat \ {0}, NEW i \in Int
  PROVE  /\ i % n \in 0 .. n - 1
         /\ i \div n \in Int
         /\ i = n * (i \div n) + (i % n)
OBVIOUS

-----------------------------------------------------------------------------
(* The key/value cache: positions, pages and offsets.                       *)

(* Quotient and remainder by a positive number, and the order of quotients. *)
LEMMA KvDivOrder ==
  ASSUME NEW n \in Nat \ {0}, NEW a \in Int, NEW r \in 0 .. n - 1, NEW b \in Int, NEW k \in Int,
         n * a + r < n * b + k, k <= 0
  PROVE  a < b
<1>1. SUFFICES ASSUME b <= a PROVE FALSE
  OBVIOUS
<1> DEFINE d == a - b
<1>2. d \in Nat /\ a = b + d
  BY <1>1
<1> HIDE DEF d
<1>3. n * a = n * b + n * d
  BY <1>2
<1>4. n * d >= 0 /\ n * a \in Int /\ n * b \in Int /\ n * d \in Int
  BY <1>2
<1> QED BY <1>3, <1>4

(* A position below n lies on a page that n tokens need. *)
LEMMA KvPageOfPos ==
  ASSUME NEW n \in Nat, NEW pos \in Nat, pos < n
  PROVE  /\ pos \div KvPageSize \in Nat
         /\ pos \div KvPageSize < KvFirstFree(n)
         /\ pos % KvPageSize \in 0 .. KvPageSize - 1
<1> USE KvAssumption
<1> DEFINE a == pos \div KvPageSize
           r == pos % KvPageSize
           m == n + KvPageSize - 1
           b == m \div KvPageSize
           k == m % KvPageSize
<1>1. a \in Int /\ r \in 0 .. KvPageSize - 1 /\ pos = KvPageSize * a + r
  BY DivMod
<1>2. m \in Int
  OBVIOUS
<1>3. b \in Int /\ k \in 0 .. KvPageSize - 1 /\ m = KvPageSize * b + k
  BY <1>2, DivMod
<1>4. b = KvFirstFree(n) /\ m = n + KvPageSize - 1
  BY DEF KvFirstFree
<1> HIDE DEF a, r, m, b, k
<1> DEFINE j == k - KvPageSize + 1
<1>5. KvPageSize * a + r < KvPageSize * b + j
  <2>1. KvPageSize * a \in Int /\ KvPageSize * b \in Int
    BY <1>1, <1>3
  <2> QED BY <1>1, <1>2, <1>3, <1>4, <2>1
<1>6. j \in Int /\ j <= 0
  BY <1>3
<1> HIDE DEF j
<1>7. a < b
  BY <1>1, <1>3, <1>5, <1>6, KvDivOrder
<1>8. a >= 0
  <2>1. SUFFICES ASSUME a <= -1 PROVE FALSE
    BY <1>1
  <2> DEFINE d == -1 - a
  <2>2. d \in Nat /\ a = -1 - d
    BY <1>1, <2>1
  <2> HIDE DEF d
  <2>3. KvPageSize * a = -KvPageSize - KvPageSize * d
    BY <2>2
  <2>4. KvPageSize * d >= 0 /\ KvPageSize * d \in Int
    BY <2>2
  <2> QED BY <1>1, <2>3, <2>4
<1> QED BY <1>1, <1>4, <1>7, <1>8 DEF a, r

(* A position is given by its page and its place on the page. *)
LEMMA KvPosOfPage ==
  ASSUME NEW i \in Nat, NEW j \in Nat, i \div KvPageSize = j \div KvPageSize,
         i % KvPageSize = j % KvPageSize
  PROVE  i = j
<1>1. i = KvPageSize * (i \div KvPageSize) + (i % KvPageSize)
  BY KvAssumption, DivMod
<1>2. j = KvPageSize * (j \div KvPageSize) + (j % KvPageSize)
  BY KvAssumption, DivMod
<1> QED BY <1>1, <1>2

(* Every position of a pair lies in the block of a sequence, and pair and    *)
(* position are given by the offset.                                         *)
LEMMA KvOffsetRange ==
  ASSUME NEW lh \in KvLh, NEW pos \in KvPos
  PROVE  KvOffset(lh, pos) \in 0 .. KvPairs * KvMaxLen - 1
<1> USE KvAssumption DEF KvLh, KvPos
<1> DEFINE d == KvPairs - 1 - lh
<1>1. d \in Nat /\ lh \in Nat /\ KvPairs = lh + d + 1
  OBVIOUS
<1> HIDE DEF d
<1>2. KvPairs * KvMaxLen = lh * KvMaxLen + d * KvMaxLen + KvMaxLen
  BY <1>1
<1>3. lh * KvMaxLen \in Nat /\ d * KvMaxLen \in Nat
  BY <1>1
<1> QED BY <1>2, <1>3 DEF KvOffset

LEMMA KvOffsetUnique ==
  ASSUME NEW lh \in KvLh, NEW pos \in KvPos, NEW l \in KvLh, NEW i \in KvPos,
         KvOffset(lh, pos) = KvOffset(l, i)
  PROVE  lh = l /\ pos = i
<1> USE KvAssumption DEF KvLh, KvPos
<1>1. lh * KvMaxLen + pos = l * KvMaxLen + i
  BY DEF KvOffset
<1>2. KvMaxLen * lh = lh * KvMaxLen /\ KvMaxLen * l = l * KvMaxLen
      /\ KvMaxLen * lh \in Int /\ KvMaxLen * l \in Int
  OBVIOUS
<1>3. ~(lh < l)
  <2>1. SUFFICES ASSUME lh < l PROVE FALSE
    OBVIOUS
  <2> DEFINE d == l - lh - 1
  <2>2. d \in Nat /\ l = lh + d + 1
    BY <2>1
  <2> HIDE DEF d
  <2>3. KvMaxLen * l = KvMaxLen * lh + KvMaxLen * d + KvMaxLen /\ KvMaxLen * d \in Nat
    BY <2>2
  <2> QED BY <1>1, <1>2, <2>3
<1>4. ~(l < lh)
  <2>1. SUFFICES ASSUME l < lh PROVE FALSE
    OBVIOUS
  <2> DEFINE d == lh - l - 1
  <2>2. d \in Nat /\ lh = l + d + 1
    BY <2>1
  <2> HIDE DEF d
  <2>3. KvMaxLen * lh = KvMaxLen * l + KvMaxLen * d + KvMaxLen /\ KvMaxLen * d \in Nat
    BY <2>2
  <2> QED BY <1>1, <1>2, <2>3
<1>5. lh = l
  BY <1>3, <1>4
<1> QED BY <1>1, <1>2, <1>5

(* The tables have at least one page, and every position has an entry. *)
LEMMA KvMaxPagesNat == KvMaxPages \in Nat \ {0}
<1>1. KvMaxPages = KvFirstFree(KvMaxLen)
  BY DEF KvMaxPages, KvFirstFree
<1>2. 0 < KvMaxLen /\ KvMaxLen \in Nat
  BY KvAssumption
<1>3. 0 \div KvPageSize \in Nat /\ 0 \div KvPageSize < KvFirstFree(KvMaxLen)
  BY <1>2, KvPageOfPos
<1>4. KvMaxPages \in Int
  BY KvAssumption DEF KvMaxPages
<1> QED BY <1>1, <1>3, <1>4

LEMMA KvEntryOfPos ==
  ASSUME NEW lh \in KvLh, NEW pos \in KvPos
  PROVE  /\ <<lh, pos \div KvPageSize>> \in KvLh \X KvPageIdx
         /\ pos % KvPageSize \in 0 .. KvPageSize - 1
<1>1. KvMaxPages = KvFirstFree(KvMaxLen)
  BY DEF KvMaxPages, KvFirstFree
<1>2. pos \in Nat /\ pos < KvMaxLen /\ KvMaxLen \in Nat
  BY KvAssumption DEF KvPos
<1>3. /\ pos \div KvPageSize \in Nat /\ pos \div KvPageSize < KvMaxPages
      /\ pos % KvPageSize \in 0 .. KvPageSize - 1
  BY <1>1, <1>2, KvPageOfPos
<1>4. pos \div KvPageSize \in KvPageIdx
  BY <1>3, KvMaxPagesNat DEF KvPageIdx
<1> QED BY <1>3, <1>4

-----------------------------------------------------------------------------
(* The key/value cache: the pages of a table in order.                      *)

(* The entries of a table are finitely many. *)
LEMMA KvTableFinite ==
  /\ IsFiniteSet(KvLh \X KvPageIdx)
  /\ Cardinality(KvLh \X KvPageIdx) = KvPairs * KvMaxPages
<1>1. IsFiniteSet(KvLh) /\ Cardinality(KvLh) = KvPairs
  BY KvAssumption, FS_Interval DEF KvLh
<1>2. IsFiniteSet(KvPageIdx) /\ Cardinality(KvPageIdx) = KvMaxPages
  BY KvMaxPagesNat, FS_Interval DEF KvPageIdx
<1> QED BY <1>1, <1>2, FS_Product

(* Of two entries the later one has the higher rank. *)
LEMMA KvRankOrder ==
  ASSUME NEW at \in SUBSET (KvLh \X KvPageIdx), NEW e \in at, NEW f \in at, e # f, KvUpTo(e, f)
  PROVE  KvRank(at, f) < KvRank(at, e)
<1> DEFINE F == {g \in at : KvUpTo(f, g)}
           E == {g \in at : KvUpTo(e, g)}
<1>1. \A g \in at : g[1] \in Int /\ g[2] \in Int /\ g = <<g[1], g[2]>>
  BY DEF KvLh, KvPageIdx
<1>2. F \subseteq E
  BY <1>1 DEF KvUpTo
<1>3. e \in E /\ e \notin F
  <2>1. e[1] # f[1] \/ e[2] # f[2]
    BY <1>1
  <2> QED BY <1>1, <2>1 DEF KvUpTo
<1>4. IsFiniteSet(E)
  BY KvTableFinite, FS_Subset
<1>5. F \in SUBSET E /\ F # E
  BY <1>2, <1>3
<1> HIDE DEF E, F
<1>6. /\ Cardinality(F) <= Cardinality(E) /\ Cardinality(E) # Cardinality(F)
      /\ IsFiniteSet(F)
  BY <1>4, <1>5, FS_Subset
<1>7. Cardinality(F) \in Nat /\ Cardinality(E) \in Nat
  BY <1>4, <1>6, FS_CardinalityType
<1>8. Cardinality(F) < Cardinality(E)
  BY <1>6, <1>7
<1> QED BY <1>8 DEF E, F, KvRank

(* The ranks of a set of entries number them from one on. *)
LEMMA KvRankFacts ==
  ASSUME NEW at \in SUBSET (KvLh \X KvPageIdx)
  PROVE  /\ Cardinality(at) \in Nat
         /\ \A e \in at : KvRank(at, e) \in 1 .. Cardinality(at)
         /\ \A e, f \in at : KvRank(at, e) = KvRank(at, f) => e = f
         /\ \A i \in 1 .. Cardinality(at) : \E e \in at : KvRank(at, e) = i
<1>1. IsFiniteSet(at) /\ Cardinality(at) \in Nat
  BY KvTableFinite, FS_Subset, FS_CardinalityType
<1>2. ASSUME NEW e \in at
      PROVE  KvRank(at, e) \in 1 .. Cardinality(at)
  <2> DEFINE E == {g \in at : KvUpTo(e, g)}
  <2>1. e[1] \in Int /\ e[2] \in Int
    BY DEF KvLh, KvPageIdx
  <2>2. e \in E
    BY <2>1 DEF KvUpTo
  <2>3. E \in SUBSET at
    OBVIOUS
  <2> HIDE DEF E
  <2>4. IsFiniteSet(E) /\ Cardinality(E) <= Cardinality(at)
    BY <1>1, <2>3, FS_Subset
  <2>5. Cardinality(E) \in Nat /\ Cardinality(E) # 0
    BY <2>2, <2>4, FS_CardinalityType, FS_EmptySet
  <2>6. Cardinality(E) \in 1 .. Cardinality(at)
    BY <1>1, <2>4, <2>5
  <2> QED BY <2>6 DEF E, KvRank
<1>3. ASSUME NEW e \in at, NEW f \in at, KvRank(at, e) = KvRank(at, f)
      PROVE  e = f
  <2>1. SUFFICES ASSUME e # f PROVE FALSE
    OBVIOUS
  <2>2. KvUpTo(e, f) \/ KvUpTo(f, e)
    BY DEF KvUpTo, KvLh, KvPageIdx
  <2>3. KvRank(at, f) < KvRank(at, e) \/ KvRank(at, e) < KvRank(at, f)
    BY <2>1, <2>2, KvRankOrder
  <2>4. KvRank(at, e) \in Int /\ KvRank(at, f) \in Int
    BY <1>1, <1>2
  <2> QED BY <1>3, <2>3, <2>4
<1> DEFINE n == Cardinality(at)
           rank == [e \in at |-> KvRank(at, e)]
<1>4. rank \in Injection(at, 1 .. n)
  BY <1>2, <1>3 DEF Injection, IsInjective
<1>5. IsFiniteSet(1 .. n) /\ Cardinality(1 .. n) = n
  BY <1>1, FS_Interval
<1>6. rank \in Surjection(at, 1 .. n)
  <2> HIDE DEF rank
  <2>1. Cardinality(at) = Cardinality(1 .. n)
    BY <1>5
  <2> QED BY <1>4, <1>5, <2>1, FS_Injection
<1>7. \A i \in 1 .. n : \E e \in at : KvRank(at, e) = i
  BY <1>6 DEF Surjection
<1> QED BY <1>1, <1>2, <1>3, <1>7

(* The pages that a release gives back: those of the entries, once each. *)
LEMMA KvHeldFacts ==
  ASSUME KvTypeOK, KvPlaceInv, NEW s \in KvSeqs, NEW from
  PROVE  LET held == KvHeld(s, from, KvLh)
             at   == KvHeldAt(s, from, KvLh)
         IN /\ held \in Seq(KvPages)
            /\ \A i, j \in DOMAIN held : held[i] = held[j] => i = j
            /\ \A i \in DOMAIN held : \E e \in at : held[i] = kv_table[s][e]
            /\ \A e \in at : \E i \in DOMAIN held : held[i] = kv_table[s][e]
<1> DEFINE held == KvHeld(s, from, KvLh)
           at   == KvHeldAt(s, from, KvLh)
           n    == Cardinality(at)
           pick(i) == CHOOSE e \in at : KvRank(at, e) = i
<1>1. at \in SUBSET (KvLh \X KvPageIdx)
  BY DEF KvHeldAt
<1>2. \A e \in at : kv_table[s][e] \in KvPages
  BY DEF KvHeldAt, KvTypeOK
<1>3. ASSUME NEW e \in at, NEW f \in at, kv_table[s][e] = kv_table[s][f]
      PROVE  e = f
  <2> DEFINE x == <<s, e[1], e[2]>>
             y == <<s, f[1], f[2]>>
  <2>1. e = <<e[1], e[2]>> /\ f = <<f[1], f[2]>>
    BY <1>1
  <2>2. x \in KvEntries /\ y \in KvEntries
    BY <1>1 DEF KvEntries
  <2>3. KvAt(x) = kv_table[s][e] /\ KvAt(y) = kv_table[s][f]
    BY <2>1 DEF KvAt
  <2>4. KvAt(x) # NoPage
    BY <1>2, <2>3 DEF KvPages, NoPage
  <2>5. x = y
    BY <1>3, <2>2, <2>3, <2>4 DEF KvPlaceInv
  <2> QED BY <2>1, <2>5
<1>4. held = [i \in 1 .. n |-> kv_table[s][pick(i)]]
  BY DEF KvHeld
<1> HIDE DEF at
<1>5. /\ n \in Nat
      /\ \A e \in at : KvRank(at, e) \in 1 .. n
      /\ \A e, f \in at : KvRank(at, e) = KvRank(at, f) => e = f
      /\ \A i \in 1 .. n : \E e \in at : KvRank(at, e) = i
  BY <1>1, KvRankFacts
<1> HIDE DEF held, n
<1>6. \A i \in 1 .. n : pick(i) \in at /\ KvRank(at, pick(i)) = i
  BY <1>5
<1>7. \A e \in at : pick(KvRank(at, e)) = e
  BY <1>5, <1>6
<1> HIDE DEF pick
<1>8. held \in Seq(KvPages) /\ DOMAIN held = 1 .. n
  BY <1>2, <1>4, <1>5, <1>6
<1>9. \A i, j \in 1 .. n : held[i] = held[j] => i = j
  BY <1>3, <1>4, <1>6
<1>10. \A i \in 1 .. n : \E e \in at : held[i] = kv_table[s][e]
  BY <1>4, <1>6
<1>11. \A e \in at : \E i \in 1 .. n : held[i] = kv_table[s][e]
  BY <1>4, <1>5, <1>7
<1> QED BY <1>8, <1>9, <1>10, <1>11 DEF held, at

(* The stack has room for every page, so that a release drops none. *)
LEMMA KvPushFacts ==
  ASSUME KvTypeOK, KvPlaceInv, NEW pages \in Seq(KvPages),
         \A i, j \in DOMAIN pages : pages[i] = pages[j] => i = j,
         \A i \in DOMAIN kv_free : \A j \in DOMAIN pages : kv_free[i] # pages[j]
  PROVE  KvPush(pages) = kv_free \o pages /\ Len(kv_free \o pages) <= KvPool
<1> DEFINE all == kv_free \o pages
           n   == Len(all)
           m   == Len(kv_free)
<1>1. kv_free \in Seq(KvPages)
  BY DEF KvTypeOK
<1>2. /\ all \in Seq(KvPages) /\ n = m + Len(pages) /\ n \in Nat /\ m \in Nat
      /\ \A i \in 1 .. n : all[i] = IF i <= m THEN kv_free[i] ELSE pages[i - m]
  BY <1>1
<1>3. ASSUME NEW i \in 1 .. n, NEW j \in 1 .. n, all[i] = all[j]
      PROVE  i = j
  <2>1. DOMAIN kv_free = 1 .. m /\ DOMAIN pages = 1 .. n - m
    BY <1>1, <1>2
  <2> HIDE DEF all, n, m
  <2>2. CASE i <= m /\ j <= m
    BY <1>2, <1>3, <2>1, <2>2 DEF KvPlaceInv
  <2>3. CASE i > m /\ j > m
    <3>1. i - m \in DOMAIN pages /\ j - m \in DOMAIN pages /\ pages[i - m] = pages[j - m]
      BY <1>2, <1>3, <2>1, <2>3
    <3>2. i - m = j - m
      BY <3>1
    <3> QED BY <1>2, <3>2
  <2>4. CASE i <= m /\ j > m
    <3>1. i \in DOMAIN kv_free /\ j - m \in DOMAIN pages /\ kv_free[i] = pages[j - m]
      BY <1>2, <1>3, <2>1, <2>4
    <3> QED BY <3>1
  <2>5. CASE i > m /\ j <= m
    <3>1. j \in DOMAIN kv_free /\ i - m \in DOMAIN pages /\ kv_free[j] = pages[i - m]
      BY <1>2, <1>3, <2>1, <2>5
    <3> QED BY <3>1
  <2> QED BY <1>2, <2>2, <2>3, <2>4, <2>5
<1>4. IsFiniteSet(KvPages) /\ Cardinality(KvPages) = KvPool
  BY KvAssumption, FS_Interval DEF KvPages
<1>5. IsFiniteSet(1 .. n) /\ Cardinality(1 .. n) = n
  BY <1>2, FS_Interval
<1>6. n <= KvPool
  <2>1. all \in Injection(1 .. n, KvPages)
    <3>1. all \in [1 .. n -> KvPages]
      <4>1. all \in Seq(KvPages) /\ n = Len(all)
        BY <1>2
      <4> HIDE DEF all
      <4> QED BY <4>1
    <3> HIDE DEF all, n
    <3> QED BY <1>3, <3>1 DEF Injection, IsInjective
  <2> HIDE DEF all, n
  <2> QED BY <1>4, <1>5, <2>1, FS_Injection
<1>7. KvPush(pages) = SubSeq(all, 1, n)
  BY <1>2, <1>6, KvAssumption DEF KvPush
<1>8. SubSeq(all, 1, n) = all
  <2> HIDE DEF m
  <2>1. all \in Seq(KvPages) /\ n = Len(all)
    BY <1>2
  <2> HIDE DEF all
  <2> QED BY <2>1
<1> QED BY <1>6, <1>7, <1>8

(* free_seq and rollback move pages from a table to the stack. *)
LEMMA KvReleaseFacts ==
  ASSUME KvTypeOK, KvPlaceInv, NEW s \in KvSeqs, NEW from, KvRelease(s, from)
  PROVE  /\ kv_free' \in Seq(KvPages) /\ Len(kv_free') <= KvPool
         /\ kv_table' \in [KvSeqs -> [KvLh \X KvPageIdx -> KvPages \cup {NoPage}]]
         /\ \A q \in KvSeqs : q # s => kv_table'[q] = kv_table[q]
         /\ \A e \in KvLh \X KvPageIdx :
              kv_table'[s][e] = IF e[2] >= from THEN NoPage ELSE kv_table[s][e]
         /\ KvPlaceInv'
<1> DEFINE held == KvHeld(s, from, KvLh)
           at   == KvHeldAt(s, from, KvLh)
<1>1. /\ held \in Seq(KvPages)
      /\ \A i, j \in DOMAIN held : held[i] = held[j] => i = j
      /\ \A i \in DOMAIN held : \E e \in at : held[i] = kv_table[s][e]
      /\ \A e \in at : \E i \in DOMAIN held : held[i] = kv_table[s][e]
  BY KvHeldFacts
<1>2. kv_free \in Seq(KvPages) /\ kv_table \in [KvSeqs -> [KvLh \X KvPageIdx -> KvPages \cup {NoPage}]]
  BY DEF KvTypeOK
<1>3. \A e \in at : e \in KvLh \X KvPageIdx /\ kv_table[s][e] # NoPage /\ e[2] >= from
  BY DEF KvHeldAt
<1>4. \A e \in KvLh \X KvPageIdx : kv_table[s][e] # NoPage /\ e[2] >= from => e \in at
  BY DEF KvHeldAt
<1>5. \A e \in KvLh \X KvPageIdx :
        <<s, e[1], e[2]>> \in KvEntries /\ KvAt(<<s, e[1], e[2]>>) = kv_table[s][e]
  BY DEF KvEntries, KvAt
<1>6. kv_free' = KvPush(held) /\ kv_table' = KvCleared(s, from)
  BY DEF KvRelease
<1> HIDE DEF held, at
<1>7. \A i \in DOMAIN kv_free : \A j \in DOMAIN held : kv_free[i] # held[j]
  <2>1. SUFFICES ASSUME NEW i \in DOMAIN kv_free, NEW j \in DOMAIN held
                 PROVE  kv_free[i] # held[j]
    OBVIOUS
  <2>2. PICK e \in at : held[j] = kv_table[s][e]
    BY <1>1
  <2>3. <<s, e[1], e[2]>> \in KvEntries /\ KvAt(<<s, e[1], e[2]>>) = held[j]
    BY <1>3, <1>5, <2>2
  <2> QED BY <2>3 DEF KvPlaceInv
<1>8. kv_free' = kv_free \o held /\ Len(kv_free \o held) <= KvPool
  BY <1>1, <1>6, <1>7, KvPushFacts
<1> DEFINE m == Len(kv_free)
           n == Len(held)
<1>9. /\ kv_free' \in Seq(KvPages) /\ Len(kv_free') <= KvPool
      /\ DOMAIN kv_free' = 1 .. m + n /\ DOMAIN kv_free = 1 .. m /\ DOMAIN held = 1 .. n
      /\ m \in Nat /\ n \in Nat
      /\ \A i \in 1 .. m + n : kv_free'[i] = IF i <= m THEN kv_free[i] ELSE held[i - m]
  BY <1>1, <1>2, <1>8
<1> HIDE DEF m, n
<1>10. /\ kv_table' \in [KvSeqs -> [KvLh \X KvPageIdx -> KvPages \cup {NoPage}]]
       /\ \A q \in KvSeqs : q # s => kv_table'[q] = kv_table[q]
       /\ \A e \in KvLh \X KvPageIdx :
            kv_table'[s][e] = IF e[2] >= from THEN NoPage ELSE kv_table[s][e]
  BY <1>2, <1>6 DEF KvCleared
<1>11. ASSUME NEW x \in KvEntries
       PROVE  /\ KvAt(x)' = IF x[1] = s /\ x[3] >= from THEN NoPage ELSE KvAt(x)
              /\ x[1] = s /\ x[3] >= from /\ KvAt(x) # NoPage => \E j \in 1 .. n : held[j] = KvAt(x)
  <2> DEFINE e == <<x[2], x[3]>>
  <2>1. x[1] \in KvSeqs /\ e \in KvLh \X KvPageIdx /\ e[2] = x[3]
    BY DEF KvEntries
  <2>2. KvAt(x)' = kv_table'[x[1]][e] /\ KvAt(x) = kv_table[x[1]][e]
    BY DEF KvAt
  <2> HIDE DEF e
  <2>3. KvAt(x)' = IF x[1] = s /\ x[3] >= from THEN NoPage ELSE KvAt(x)
    BY <1>10, <2>1, <2>2
  <2>4. x[1] = s /\ x[3] >= from /\ KvAt(x) # NoPage => \E j \in 1 .. n : held[j] = KvAt(x)
    BY <1>1, <1>4, <1>9, <2>1, <2>2
  <2> QED BY <2>3, <2>4
<1>12. ASSUME NEW j \in 1 .. n
       PROVE  \E x \in KvEntries : x[1] = s /\ x[3] >= from /\ KvAt(x) = held[j] /\ held[j] # NoPage
  <2>1. PICK e \in at : held[j] = kv_table[s][e]
    BY <1>1, <1>9
  <2>2. e \in KvLh \X KvPageIdx /\ kv_table[s][e] # NoPage /\ e[2] >= from
    BY <1>3, <2>1
  <2> DEFINE x == <<s, e[1], e[2]>>
  <2>3. x \in KvEntries /\ KvAt(x) = kv_table[s][e] /\ x[1] = s /\ x[3] = e[2]
    BY <1>5, <2>2
  <2> HIDE DEF x
  <2> QED BY <2>1, <2>2, <2>3
<1>13. \A i, j \in DOMAIN kv_free' : kv_free'[i] = kv_free'[j] => i = j
  <2>1. SUFFICES ASSUME NEW i \in 1 .. m + n, NEW j \in 1 .. m + n, kv_free'[i] = kv_free'[j], i < j
                 PROVE  FALSE
    BY <1>9
  <2>2. CASE j <= m
    BY <1>9, <2>1, <2>2 DEF KvPlaceInv
  <2>3. CASE i <= m /\ j > m
    <3>1. i \in DOMAIN kv_free /\ j - m \in DOMAIN held /\ kv_free[i] = held[j - m]
      BY <1>9, <2>1, <2>3
    <3> QED BY <1>7, <3>1
  <2>4. CASE i > m
    <3>1. i - m \in DOMAIN held /\ j - m \in DOMAIN held /\ held[i - m] = held[j - m]
      BY <1>9, <2>1, <2>4
    <3>2. i - m = j - m
      BY <1>1, <3>1
    <3> QED BY <1>9, <2>1, <3>2
  <2> QED BY <1>9, <2>1, <2>2, <2>3, <2>4
<1>14. \A x, y \in KvEntries : KvAt(x)' = KvAt(y)' /\ KvAt(x)' # NoPage => x = y
  BY <1>11 DEF KvPlaceInv
<1>15. ASSUME NEW i \in DOMAIN kv_free', NEW x \in KvEntries, KvAt(x)' = kv_free'[i]
       PROVE  FALSE
  <2>1. kv_free'[i] # NoPage /\ i \in 1 .. m + n
    <3>1. i \in 1 .. m + n /\ kv_free'[i] \in KvPages
      BY <1>9
    <3> QED BY <3>1 DEF KvPages, NoPage
  <2>2. KvAt(x)' = KvAt(x) /\ ~(x[1] = s /\ x[3] >= from)
    BY <1>11, <1>15, <2>1
  <2>3. CASE i <= m
    <3>1. i \in DOMAIN kv_free /\ kv_free'[i] = kv_free[i]
      BY <1>9, <2>1, <2>3
    <3>2. KvAt(x) = kv_free[i]
      BY <1>15, <2>2, <3>1
    <3> QED BY <3>1, <3>2 DEF KvPlaceInv
  <2>4. CASE i > m
    <3>1. i - m \in 1 .. n /\ kv_free'[i] = held[i - m]
      BY <1>9, <2>1, <2>4
    <3>2. PICK y \in KvEntries : y[1] = s /\ y[3] >= from /\ KvAt(y) = held[i - m] /\ held[i - m] # NoPage
      BY <1>12, <3>1
    <3>3. x = y
      <4>1. KvAt(x) = KvAt(y) /\ KvAt(x) # NoPage
        BY <1>15, <2>2, <3>1, <3>2
      <4> QED BY <4>1 DEF KvPlaceInv
    <3> QED BY <2>2, <3>2, <3>3
  <2> QED BY <1>9, <2>1, <2>3, <2>4
<1>16. ASSUME NEW p \in KvPages
       PROVE  (\E i \in DOMAIN kv_free' : kv_free'[i] = p) \/ \E x \in KvEntries : KvAt(x)' = p
  <2>1. CASE \E i \in DOMAIN kv_free : kv_free[i] = p
    <3>1. PICK i \in 1 .. m : kv_free[i] = p
      BY <1>9, <2>1
    <3>2. i \in DOMAIN kv_free' /\ kv_free'[i] = p
      BY <1>9, <3>1
    <3> QED BY <3>2
  <2>2. CASE \E x \in KvEntries : KvAt(x) = p
    <3>1. PICK x \in KvEntries : KvAt(x) = p
      BY <2>2
    <3>2. p # NoPage
      BY DEF KvPages, NoPage
    <3>3. CASE x[1] = s /\ x[3] >= from
      <4>1. PICK j \in 1 .. n : held[j] = p
        BY <1>11, <3>1, <3>2, <3>3
      <4>2. m + j \in DOMAIN kv_free' /\ kv_free'[m + j] = held[(m + j) - m] /\ (m + j) - m = j
        BY <1>9
      <4> QED BY <4>1, <4>2
    <3>4. CASE ~(x[1] = s /\ x[3] >= from)
      BY <1>11, <3>1, <3>4
    <3> QED BY <3>3, <3>4
  <2> QED BY <2>1, <2>2 DEF KvPlaceInv
<1>17. KvEntries' = KvEntries
  BY DEF KvEntries
<1>18. KvPlaceInv'
  <2>1. /\ \A i, j \in DOMAIN kv_free' : kv_free'[i] = kv_free'[j] => i = j
        /\ \A x, y \in KvEntries : KvAt(x)' = KvAt(y)' /\ KvAt(x)' # NoPage => x = y
        /\ \A i \in DOMAIN kv_free' : \A x \in KvEntries : KvAt(x)' # kv_free'[i]
    BY <1>13, <1>14, <1>15
  <2>2. \A p \in KvPages : (\E i \in DOMAIN kv_free' : kv_free'[i] = p) \/ \E x \in KvEntries : KvAt(x)' = p
    BY <1>16
  <2> QED BY <1>17, <2>1, <2>2 DEF KvPlaceInv, KvAt
<1> QED BY <1>9, <1>10, <1>18

-----------------------------------------------------------------------------
(* The key/value cache: what its calls preserve.                            *)

LEMMA KvNoPassType ==
  /\ KvNoPass \in [P : 0 .. KvMaxLen, lh : KvLh, t : KvPos]
  /\ KvNoPass.P = 0 /\ KvNoPass.lh = 0 /\ KvNoPass.t = 0
BY KvAssumption DEF KvNoPass, KvLh, KvPos

(* A pair has at most max_seq_len rows; without a pass, seq_len of them. *)
LEMMA KvWrittenFacts ==
  ASSUME KvTypeOK, NEW s \in KvSeqs, KvPassInv(s), NEW lh \in KvLh
  PROVE  /\ KvWritten(s, lh) \in 0 .. KvMaxLen
         /\ kv_len[s] <= KvWritten(s, lh)
         /\ kv_pass[s] = KvNoPass => KvWritten(s, lh) = kv_len[s]
<1>1. kv_len[s] \in 0 .. KvMaxLen /\ kv_pass[s] \in [P : 0 .. KvMaxLen, lh : KvLh, t : KvPos]
  BY DEF KvTypeOK
<1>2. kv_pass[s].P \in 0 .. KvMaxLen /\ kv_pass[s].lh \in KvLh /\ kv_pass[s].t \in KvPos
  BY <1>1
<1>3. kv_pass[s] = KvNoPass => KvWritten(s, lh) = kv_len[s]
  BY <1>1, KvNoPassType DEF KvWritten, KvLh
<1>4. CASE kv_pass[s].P = 0
  <2>1. kv_pass[s] = KvNoPass
    BY <1>4 DEF KvPassInv
  <2> QED BY <1>1, <1>3, <2>1
<1>5. CASE kv_pass[s].P > 0
  <2>1. kv_pass[s].t < kv_pass[s].P /\ kv_len[s] + kv_pass[s].P <= KvMaxLen
    BY <1>5 DEF KvPassInv
  <2> QED BY <1>1, <1>2, <1>3, <2>1, KvAssumption DEF KvWritten, KvLh, KvPos
<1> QED BY <1>2, <1>4, <1>5

LEMMA KvWrittenNext ==
  ASSUME KvTypeOK', NEW s \in KvSeqs, KvPassInv(s)', NEW lh \in KvLh
  PROVE  KvWritten(s, lh)' \in 0 .. KvMaxLen
<1>1. /\ kv_len'[s] \in 0 .. KvMaxLen /\ kv_pass'[s] \in [P : 0 .. KvMaxLen, lh : KvLh, t : KvPos]
      /\ lh \in Nat
  BY DEF KvTypeOK, KvLh
<1>2. kv_pass'[s].P \in 0 .. KvMaxLen /\ kv_pass'[s].lh \in KvLh /\ kv_pass'[s].t \in KvPos
  BY <1>1
<1>3. CASE kv_pass'[s].P = 0
  <2>1. kv_pass'[s] = KvNoPass
    BY <1>3 DEF KvPassInv
  <2> QED BY <1>1, <2>1, KvNoPassType DEF KvWritten
<1>4. CASE kv_pass'[s].P > 0
  <2>1. kv_pass'[s].t < kv_pass'[s].P /\ kv_len'[s] + kv_pass'[s].P <= KvMaxLen
    BY <1>4 DEF KvPassInv
  <2> QED BY <1>1, <1>2, <2>1, KvAssumption DEF KvWritten, KvLh, KvPos
<1> QED BY <1>2, <1>3, <1>4

(* A call that writes no row keeps the rows of the sequences it shortens or  *)
(* leaves alone, when their pages stay where they are.                       *)
LEMMA KvRowsKept ==
  ASSUME KvInv, kv_page' = kv_page, kv_flat' = kv_flat,
         \A q \in kv_active' : \A lh \in KvLh :
           \/ KvWritten(q, lh)' = 0
           \/ /\ q \in kv_active /\ KvWritten(q, lh)' \in Int /\ KvWritten(q, lh)' <= KvWritten(q, lh)
              /\ \A pos \in 0 .. KvWritten(q, lh)' - 1 :
                   kv_table'[q][<<lh, pos \div KvPageSize>>] = kv_table[q][<<lh, pos \div KvPageSize>>]
  PROVE  KvRowsInv'
<1>1. SUFFICES ASSUME NEW q \in kv_active', NEW lh \in KvLh, NEW pos \in 0 .. KvWritten(q, lh)' - 1
               PROVE  KvRowInv(q, lh, pos)'
  BY DEF KvRowsInv, KvLh
<1>2. /\ q \in kv_active /\ KvWritten(q, lh)' \in Int /\ KvWritten(q, lh)' <= KvWritten(q, lh)
      /\ kv_table'[q][<<lh, pos \div KvPageSize>>] = kv_table[q][<<lh, pos \div KvPageSize>>]
  <2>1. KvWritten(q, lh)' # 0
    <3>1. 0 .. 0 - 1 = {}
      OBVIOUS
    <3> QED BY <1>1, <3>1
  <2> QED BY <2>1
<1>3. KvWritten(q, lh) \in Int
  <2>1. KvTypeOK /\ KvPassInv(q) /\ q \in KvSeqs
    BY <1>2 DEF KvInv, KvPassesInv, KvTypeOK
  <2> QED BY <2>1, KvWrittenFacts
<1>4. pos \in 0 .. KvWritten(q, lh) - 1
  BY <1>2, <1>3
<1>5. KvRowInv(q, lh, pos)
  BY <1>2, <1>4 DEF KvInv, KvRowsInv
<1> QED BY <1>2, <1>5 DEF KvRowInv, KvReadPaged, KvReadFlat, KvOffset

LEMMA KvPlaceSame ==
  ASSUME KvPlaceInv, kv_free' = kv_free, kv_table' = kv_table
  PROVE  KvPlaceInv'
<1>1. \A x : KvAt(x)' = KvAt(x)
  BY DEF KvAt
<1>2. KvEntries' = KvEntries
  BY DEF KvEntries
<1> QED BY <1>1, <1>2 DEF KvPlaceInv

LEMMA KvInitInv == KvInit => KvInv
<1>1. HAVE KvInit
<1> USE KvAssumption
<1>2. \A s \in KvSeqs : kv_pass[s] = KvNoPass /\ kv_table[s] = KvNoTable /\ kv_len[s] = 0 /\ kv_spec[s] = 0
  BY <1>1 DEF KvInit
<1>3. kv_free \in Seq(KvPages) /\ Len(kv_free) = KvPool /\ \A i \in KvPages : kv_free[i] = i
  BY <1>1 DEF KvInit, KvPages
<1>4. KvTypeOK
  <2>1. kv_table \in [KvSeqs -> [KvLh \X KvPageIdx -> KvPages \cup {NoPage}]]
    BY <1>1 DEF KvInit, KvNoTable
  <2>2. NoRow \in KvRows
    BY DEF KvRows
  <2>3. /\ kv_page \in [KvPages -> [0 .. KvPageSize - 1 -> KvRows]]
        /\ kv_flat \in [KvSeqs -> [0 .. KvPairs * KvMaxLen - 1 -> KvRows]]
    BY <1>1, <2>2 DEF KvInit
  <2>4. kv_pass \in [KvSeqs -> [P : 0 .. KvMaxLen, lh : KvLh, t : KvPos]]
    BY <1>1, KvNoPassType DEF KvInit
  <2>5. /\ kv_active \subseteq KvSeqs /\ kv_num \in Int
        /\ kv_len \in [KvSeqs -> 0 .. KvMaxLen]
        /\ kv_spec \in [KvSeqs -> -1 .. KvMaxLen] /\ kv_spec_len \in [KvSeqs -> {0}]
        /\ kv_round \in [KvSeqs -> 0 .. KvRounds]
    BY <1>1 DEF KvInit
  <2>6. kv_free \in Seq(KvPages) /\ Len(kv_free) <= KvPool
    BY <1>3
  <2> QED BY <2>1, <2>3, <2>4, <2>5, <2>6 DEF KvTypeOK
<1>5. KvPlaceInv
  <2>1. DOMAIN kv_free = KvPages
    BY <1>3 DEF KvPages
  <2>2. \A x \in KvEntries : KvAt(x) = NoPage
    BY <1>2 DEF KvEntries, KvAt, KvNoTable
  <2>3. \A i \in KvPages : i # NoPage
    BY DEF KvPages, NoPage
  <2> QED BY <1>3, <2>1, <2>2, <2>3 DEF KvPlaceInv
<1>6. KvPassesInv
  BY <1>1, <1>2, KvNoPassType DEF KvPassesInv, KvPassInv, KvInit
<1>7. KvRowsInv
  BY <1>1 DEF KvRowsInv, KvInit
<1> QED BY <1>4, <1>5, <1>6, <1>7 DEF KvInv

LEMMA KvAllocSeqStep ==
  ASSUME KvInv, NEW s \in KvSeqs, KvAllocSeq(s)
  PROVE  KvInv'
<1>1. KvTypeOK /\ KvPlaceInv /\ KvPassInv(s)
  BY DEF KvInv, KvPassesInv
<1>2. /\ s \notin kv_active /\ kv_active' = kv_active \cup {s} /\ kv_num' = kv_num + 1
      /\ kv_len' = [kv_len EXCEPT ![s] = 0]
      /\ kv_spec' = [kv_spec EXCEPT ![s] = -1] /\ kv_spec_len' = [kv_spec_len EXCEPT ![s] = 0]
      /\ kv_table' = [kv_table EXCEPT ![s] = KvNoTable]
      /\ UNCHANGED <<kv_free, kv_page, kv_flat, kv_pass, kv_round>>
  BY DEF KvAllocSeq
<1>3. kv_pass[s] = KvNoPass /\ kv_table[s] = KvNoTable
  BY <1>1, <1>2 DEF KvPassInv
<1>4. kv_table' = kv_table
  BY <1>1, <1>2, <1>3 DEF KvTypeOK
<1>5. KvTypeOK'
  <2>1. /\ kv_active' \subseteq KvSeqs /\ kv_num' \in Int
        /\ kv_len' \in [KvSeqs -> 0 .. KvMaxLen]
        /\ kv_spec' \in [KvSeqs -> -1 .. KvMaxLen] /\ kv_spec_len' \in [KvSeqs -> {0}]
    BY <1>1, <1>2, KvAssumption DEF KvTypeOK
  <2> QED BY <1>1, <1>2, <1>4, <2>1 DEF KvTypeOK
<1>6. KvPlaceInv'
  BY <1>1, <1>2, <1>4, KvPlaceSame
<1>7. \A q \in KvSeqs : q # s => kv_len'[q] = kv_len[q] /\ kv_spec'[q] = kv_spec[q] /\ (q \in kv_active' <=> q \in kv_active)
  BY <1>1, <1>2 DEF KvTypeOK
<1>8. kv_len'[s] = 0 /\ kv_spec'[s] = -1 /\ kv_pass'[s] = KvNoPass
  BY <1>1, <1>2, <1>3 DEF KvTypeOK
<1>9. KvPassesInv'
  <2>1. SUFFICES ASSUME NEW q \in KvSeqs PROVE KvPassInv(q)'
    BY DEF KvPassesInv
  <2>2. CASE q = s
    BY <1>2, <1>8, <2>2, KvNoPassType DEF KvPassInv
  <2>3. CASE q # s
    <3>1. KvPassInv(q)
      BY DEF KvInv, KvPassesInv
    <3> QED BY <1>2, <1>4, <1>7, <2>3, <3>1 DEF KvPassInv
  <2> QED BY <2>2, <2>3
<1>10. KvRowsInv'
  <2>1. ASSUME NEW q \in kv_active', NEW lh \in KvLh
        PROVE  \/ KvWritten(q, lh)' = 0
               \/ q \in kv_active /\ KvWritten(q, lh)' \in Int /\ KvWritten(q, lh)' <= KvWritten(q, lh)
    <3>1. q \in KvSeqs
      BY <1>1, <1>2, <2>1 DEF KvTypeOK
    <3>2. CASE q = s
      <4>1. KvWritten(s, lh)' = 0
        BY <1>8, KvNoPassType DEF KvWritten
      <4> QED BY <3>2, <4>1
    <3>3. CASE q # s
      <4>1. KvWritten(q, lh)' = KvWritten(q, lh)
        BY <1>2, <1>7, <3>1, <3>3 DEF KvWritten
      <4>2. KvWritten(q, lh) \in 0 .. KvMaxLen
        BY <1>1, <3>1, KvWrittenFacts DEF KvInv, KvPassesInv
      <4>3. KvWritten(q, lh)' \in Int /\ KvWritten(q, lh)' <= KvWritten(q, lh)
        BY <4>1, <4>2
      <4> QED BY <1>7, <3>1, <3>3, <4>3
    <3> QED BY <3>2, <3>3
  <2> QED BY <1>2, <1>4, <2>1, KvRowsKept
<1> QED BY <1>5, <1>6, <1>9, <1>10 DEF KvInv

(* The caller drops its pass and keeps the first n rows of each pair.  The   *)
(* pages of these rows must stay; the others may go.                         *)
LEMMA KvRestartKeeps ==
  ASSUME KvInv, NEW s \in kv_active, KvRestart(s), NEW n \in 0 .. KvMaxLen, n <= kv_len[s],
         kv_len' = [kv_len EXCEPT ![s] = n],
         kv_active' = kv_active \/ (kv_active' = kv_active \ {s} /\ kv_table'[s] = KvNoTable),
         kv_num' \in Int, kv_page' = kv_page, kv_flat' = kv_flat,
         kv_spec' \in [KvSeqs -> -1 .. KvMaxLen], kv_spec_len' \in [KvSeqs -> {0}],
         \A q \in KvSeqs : q # s => kv_spec'[q] = kv_spec[q],
         s \in kv_active' => kv_spec'[s] <= n,
         kv_free' \in Seq(KvPages), Len(kv_free') <= KvPool, KvPlaceInv',
         kv_table' \in [KvSeqs -> [KvLh \X KvPageIdx -> KvPages \cup {NoPage}]],
         \A q \in KvSeqs : q # s => kv_table'[q] = kv_table[q],
         \A e \in KvLh \X KvPageIdx : e[2] < KvFirstFree(n) => kv_table'[s][e] = kv_table[s][e]
  PROVE  KvInv'
<1>1. KvTypeOK /\ s \in KvSeqs
  BY DEF KvInv, KvTypeOK
<1>2. /\ kv_round[s] < KvRounds /\ kv_round' = [kv_round EXCEPT ![s] = @ + 1]
      /\ kv_pass' = [kv_pass EXCEPT ![s] = KvNoPass]
  BY DEF KvRestart
<1>3. KvTypeOK'
  <2>1. kv_round' \in [KvSeqs -> 0 .. KvRounds]
    BY <1>1, <1>2, KvAssumption DEF KvTypeOK
  <2>2. kv_pass' \in [KvSeqs -> [P : 0 .. KvMaxLen, lh : KvLh, t : KvPos]]
    BY <1>1, <1>2, KvNoPassType DEF KvTypeOK
  <2>3. kv_len' \in [KvSeqs -> 0 .. KvMaxLen] /\ kv_active' \subseteq KvSeqs
    BY <1>1 DEF KvTypeOK
  <2>4. /\ kv_page' \in [KvPages -> [0 .. KvPageSize - 1 -> KvRows]]
        /\ kv_flat' \in [KvSeqs -> [0 .. KvPairs * KvMaxLen - 1 -> KvRows]]
    BY <1>1 DEF KvTypeOK
  <2> QED BY <2>1, <2>2, <2>3, <2>4 DEF KvTypeOK
<1>4. /\ kv_len'[s] = n /\ kv_pass'[s] = KvNoPass
      /\ \A q \in KvSeqs : q # s => /\ kv_len'[q] = kv_len[q] /\ kv_pass'[q] = kv_pass[q]
                                    /\ q \in kv_active' <=> q \in kv_active
  BY <1>1, <1>2 DEF KvTypeOK
<1>5. KvPassesInv'
  <2>1. SUFFICES ASSUME NEW q \in KvSeqs PROVE KvPassInv(q)'
    BY DEF KvPassesInv
  <2>2. CASE q = s
    BY <1>4, <2>2, KvNoPassType DEF KvPassInv
  <2>3. CASE q # s
    <3>1. KvPassInv(q)
      BY DEF KvInv, KvPassesInv
    <3> QED BY <1>4, <2>3, <3>1 DEF KvPassInv
  <2> QED BY <2>2, <2>3
<1>6. KvRowsInv'
  <2>1. ASSUME NEW q \in kv_active', NEW lh \in KvLh
        PROVE  /\ q \in kv_active /\ KvWritten(q, lh)' \in Int /\ KvWritten(q, lh)' <= KvWritten(q, lh)
               /\ \A pos \in 0 .. KvWritten(q, lh)' - 1 :
                    kv_table'[q][<<lh, pos \div KvPageSize>>] = kv_table[q][<<lh, pos \div KvPageSize>>]
    <3>1. q \in kv_active /\ q \in KvSeqs
      BY <1>1, <2>1 DEF KvTypeOK
    <3>2. KvWritten(q, lh) \in 0 .. KvMaxLen /\ kv_len[q] <= KvWritten(q, lh)
      BY <1>1, <3>1, KvWrittenFacts DEF KvInv, KvPassesInv
    <3>3. CASE q = s
      <4>1. KvWritten(s, lh)' = n
        BY <1>4, KvNoPassType DEF KvWritten, KvLh
      <4>2. n <= KvWritten(s, lh)
        <5>1. kv_len[s] \in Int
          BY <1>1 DEF KvTypeOK
        <5> QED BY <3>2, <3>3, <5>1
      <4>3. ASSUME NEW pos \in 0 .. n - 1
            PROVE  kv_table'[s][<<lh, pos \div KvPageSize>>] = kv_table[s][<<lh, pos \div KvPageSize>>]
        <5>1. pos \div KvPageSize < KvFirstFree(n)
          BY KvPageOfPos
        <5>2. pos \in KvPos
          BY KvAssumption DEF KvPos
        <5>3. <<lh, pos \div KvPageSize>> \in KvLh \X KvPageIdx
          BY <5>2, KvEntryOfPos
        <5> DEFINE e == <<lh, pos \div KvPageSize>>
        <5>4. e[2] < KvFirstFree(n) /\ e \in KvLh \X KvPageIdx
          BY <5>1, <5>3
        <5> HIDE DEF e
        <5>5. kv_table'[s][e] = kv_table[s][e]
          BY <5>4
        <5> QED BY <5>5 DEF e
      <4> QED BY <3>1, <3>3, <4>1, <4>2, <4>3
    <3>4. CASE q # s
      <4>1. KvWritten(q, lh)' = KvWritten(q, lh)
        BY <1>4, <3>1, <3>4 DEF KvWritten
      <4>2. KvWritten(q, lh)' \in Int /\ KvWritten(q, lh)' <= KvWritten(q, lh)
        BY <3>2, <4>1
      <4>3. kv_table'[q] = kv_table[q]
        BY <3>1, <3>4
      <4> QED BY <3>1, <4>2, <4>3
    <3> QED BY <3>3, <3>4
  <2> QED BY <2>1, KvRowsKept
<1> QED BY <1>3, <1>5, <1>6 DEF KvInv

LEMMA KvFreeSeqStep ==
  ASSUME KvInv, NEW s \in KvSeqs, KvFreeSeq(s)
  PROVE  KvInv'
<1>1. KvTypeOK /\ KvPlaceInv
  BY DEF KvInv
<1>2. /\ s \in kv_active /\ kv_active' = kv_active \ {s} /\ kv_num' = kv_num - 1
      /\ kv_len' = [kv_len EXCEPT ![s] = 0]
      /\ KvRelease(s, 0) /\ KvRestart(s)
      /\ UNCHANGED <<kv_spec, kv_spec_len, kv_page, kv_flat>>
  BY DEF KvFreeSeq, kvSpec
<1>3. /\ kv_free' \in Seq(KvPages) /\ Len(kv_free') <= KvPool
      /\ kv_table' \in [KvSeqs -> [KvLh \X KvPageIdx -> KvPages \cup {NoPage}]]
      /\ \A q \in KvSeqs : q # s => kv_table'[q] = kv_table[q]
      /\ \A e \in KvLh \X KvPageIdx : kv_table'[s][e] = IF e[2] >= 0 THEN NoPage ELSE kv_table[s][e]
      /\ KvPlaceInv'
  BY <1>1, <1>2, KvReleaseFacts
<1>4. kv_table'[s] = KvNoTable
  <2>1. \A e \in KvLh \X KvPageIdx : e[2] >= 0
    BY DEF KvPageIdx
  <2> QED BY <1>3, <2>1 DEF KvNoTable
<1>5. KvFirstFree(0) = 0
  <2> DEFINE m == KvPageSize - 1
             b == m \div KvPageSize
             k == m % KvPageSize
  <2>1. m \in Int /\ b \in Int /\ k \in 0 .. KvPageSize - 1 /\ m = KvPageSize * b + k
    <3>1. m \in Int
      BY KvAssumption
    <3> QED BY <3>1, KvAssumption, DivMod
  <2>2. m = KvPageSize - 1 /\ KvFirstFree(0) = b
    BY KvAssumption DEF KvFirstFree
  <2> HIDE DEF m, b, k
  <2>3. ~(b < 0)
    <3>1. SUFFICES ASSUME b <= -1 PROVE FALSE
      BY <2>1
    <3> DEFINE d == -1 - b
    <3>2. d \in Nat /\ b = -1 - d
      BY <2>1, <3>1
    <3> HIDE DEF d
    <3>3. KvPageSize * b = -KvPageSize - KvPageSize * d /\ KvPageSize * d \in Nat
      BY <3>2, KvAssumption
    <3> QED BY <2>1, <2>2, <3>3, KvAssumption
  <2>4. ~(b > 0)
    <3>1. SUFFICES ASSUME b >= 1 PROVE FALSE
      BY <2>1
    <3> DEFINE d == b - 1
    <3>2. d \in Nat /\ b = 1 + d
      BY <2>1, <3>1
    <3> HIDE DEF d
    <3>3. KvPageSize * b = KvPageSize + KvPageSize * d /\ KvPageSize * d \in Nat
      BY <3>2, KvAssumption
    <3> QED BY <2>1, <2>2, <3>3, KvAssumption
  <2> QED BY <2>1, <2>2, <2>3, <2>4
<1>6. \A e \in KvLh \X KvPageIdx : e[2] < KvFirstFree(0) => kv_table'[s][e] = kv_table[s][e]
  BY <1>5 DEF KvPageIdx
<1>7. 0 \in 0 .. KvMaxLen /\ 0 <= kv_len[s] /\ kv_num' \in Int
  BY <1>1, <1>2, KvAssumption DEF KvTypeOK
<1>8. /\ kv_spec' \in [KvSeqs -> -1 .. KvMaxLen] /\ kv_spec_len' \in [KvSeqs -> {0}]
      /\ \A q \in KvSeqs : q # s => kv_spec'[q] = kv_spec[q]
      /\ s \notin kv_active'
  BY <1>1, <1>2 DEF KvTypeOK
<1> QED BY <1>2, <1>3, <1>4, <1>6, <1>7, <1>8, KvRestartKeeps

LEMMA KvSpecCommitStep ==
  ASSUME KvInv, NEW s \in KvSeqs, KvSpecCommit(s, 0)
  PROVE  KvInv'
<1>1. KvTypeOK /\ KvPlaceInv /\ KvPassInv(s)
  BY DEF KvInv, KvPassesInv
<1> DEFINE n == kv_spec[s]
<1>2. /\ s \in kv_active /\ n >= 0
      /\ kv_len' = [kv_len EXCEPT ![s] = n + 0]
      /\ kv_spec' = [kv_spec EXCEPT ![s] = -1] /\ kv_spec_len' = [kv_spec_len EXCEPT ![s] = 0]
      /\ KvRestart(s)
      /\ UNCHANGED <<kv_active, kv_num, kv_table, kv_free, kv_page, kv_flat>>
  BY DEF KvSpecCommit, kvPool
<1>3. n \in 0 .. KvMaxLen /\ n <= kv_len[s] /\ n + 0 = n
  BY <1>1, <1>2 DEF KvTypeOK, KvPassInv
<1>4. /\ kv_spec' \in [KvSeqs -> -1 .. KvMaxLen] /\ kv_spec_len' \in [KvSeqs -> {0}]
      /\ \A q \in KvSeqs : q # s => kv_spec'[q] = kv_spec[q]
      /\ kv_spec'[s] <= n
  <2>1. /\ kv_spec \in [KvSeqs -> -1 .. KvMaxLen] /\ kv_spec_len \in [KvSeqs -> {0}]
        /\ -1 \in -1 .. KvMaxLen
    BY <1>1, KvAssumption DEF KvTypeOK
  <2>2. kv_spec'[s] = -1
    BY <1>2, <2>1
  <2>3. kv_spec'[s] <= n
    BY <1>3, <2>2
  <2> QED BY <1>2, <2>1, <2>3
<1>5. /\ kv_free' \in Seq(KvPages) /\ Len(kv_free') <= KvPool
      /\ kv_table' \in [KvSeqs -> [KvLh \X KvPageIdx -> KvPages \cup {NoPage}]]
      /\ kv_num' \in Int
  BY <1>1, <1>2 DEF KvTypeOK
<1>6. KvPlaceInv'
  BY <1>1, <1>2, KvPlaceSame
<1> HIDE DEF n
<1> QED BY <1>2, <1>3, <1>4, <1>5, <1>6, KvRestartKeeps

LEMMA KvRollbackStep ==
  ASSUME KvInv, NEW s \in KvSeqs, NEW n \in 0 .. KvMaxLen, KvRollback(s, n)
  PROVE  KvInv'
<1>1. KvTypeOK /\ KvPlaceInv
  BY DEF KvInv
<1>2. /\ s \in kv_active /\ n <= kv_len[s]
      /\ KvRelease(s, KvFirstFree(n))
      /\ kv_len' = [kv_len EXCEPT ![s] = n]
      /\ kv_spec' = [kv_spec EXCEPT ![s] = -1] /\ kv_spec_len' = [kv_spec_len EXCEPT ![s] = 0]
      /\ KvRestart(s)
      /\ UNCHANGED <<kv_active, kv_num, kv_page, kv_flat>>
  BY DEF KvRollback
<1>3. /\ kv_free' \in Seq(KvPages) /\ Len(kv_free') <= KvPool
      /\ kv_table' \in [KvSeqs -> [KvLh \X KvPageIdx -> KvPages \cup {NoPage}]]
      /\ \A q \in KvSeqs : q # s => kv_table'[q] = kv_table[q]
      /\ \A e \in KvLh \X KvPageIdx :
           kv_table'[s][e] = IF e[2] >= KvFirstFree(n) THEN NoPage ELSE kv_table[s][e]
      /\ KvPlaceInv'
  BY <1>1, <1>2, KvReleaseFacts
<1>4. \A e \in KvLh \X KvPageIdx : e[2] < KvFirstFree(n) => kv_table'[s][e] = kv_table[s][e]
  <2>1. KvFirstFree(n) \in Int
    BY KvAssumption DEF KvFirstFree
  <2>2. \A e \in KvLh \X KvPageIdx : e[2] \in Int
    BY DEF KvPageIdx
  <2> QED BY <1>3, <2>1, <2>2
<1>5. /\ kv_spec' \in [KvSeqs -> -1 .. KvMaxLen] /\ kv_spec_len' \in [KvSeqs -> {0}]
      /\ \A q \in KvSeqs : q # s => kv_spec'[q] = kv_spec[q]
      /\ kv_spec'[s] <= n /\ kv_num' \in Int
  BY <1>1, <1>2, KvAssumption DEF KvTypeOK
<1> QED BY <1>2, <1>3, <1>4, <1>5, KvRestartKeeps

LEMMA KvBeginStep ==
  ASSUME KvInv, NEW s \in KvSeqs, NEW P \in 1 .. KvMaxLen, KvBegin(s, P)
  PROVE  KvInv'
<1>1. KvTypeOK /\ KvPlaceInv
  BY DEF KvInv
<1>2. /\ s \in kv_active /\ kv_pass[s] = KvNoPass /\ kv_len[s] + P <= KvMaxLen
      /\ kv_pass' = [kv_pass EXCEPT ![s].P = P]
      /\ UNCHANGED <<kv_active, kv_num, kv_len, kv_spec, kv_spec_len, kv_table, kv_free, kv_page, kv_flat, kv_round>>
  BY DEF KvBegin, kvSpec, kvPool
<1>3. kv_pass[s] \in [P : 0 .. KvMaxLen, lh : KvLh, t : KvPos]
  BY <1>1 DEF KvTypeOK
<1>4. /\ kv_pass' \in [KvSeqs -> [P : 0 .. KvMaxLen, lh : KvLh, t : KvPos]]
      /\ kv_pass'[s].P = P /\ kv_pass'[s].lh = 0 /\ kv_pass'[s].t = 0
      /\ \A q \in KvSeqs : q # s => kv_pass'[q] = kv_pass[q]
  <2>1. P \in 0 .. KvMaxLen /\ kv_pass \in [KvSeqs -> [P : 0 .. KvMaxLen, lh : KvLh, t : KvPos]]
    BY <1>1 DEF KvTypeOK
  <2> DEFINE pass == [kv_pass[s] EXCEPT !.P = P]
  <2>2. /\ pass \in [P : 0 .. KvMaxLen, lh : KvLh, t : KvPos]
        /\ pass.P = P /\ pass.lh = kv_pass[s].lh /\ pass.t = kv_pass[s].t
    BY <1>3, <2>1
  <2>3. kv_pass' = [kv_pass EXCEPT ![s] = pass]
    BY <1>2
  <2> HIDE DEF pass
  <2> QED BY <1>2, <2>1, <2>2, <2>3, KvNoPassType
<1>5. KvTypeOK'
  BY <1>1, <1>2, <1>4 DEF KvTypeOK
<1>6. KvPlaceInv'
  BY <1>1, <1>2, KvPlaceSame
<1>7. KvPassesInv'
  <2>1. SUFFICES ASSUME NEW q \in KvSeqs PROVE KvPassInv(q)'
    BY DEF KvPassesInv
  <2>2. KvPassInv(q)
    BY DEF KvInv, KvPassesInv
  <2>3. CASE q = s
    BY <1>2, <1>4, <2>2, <2>3 DEF KvPassInv
  <2>4. CASE q # s
    BY <1>2, <1>4, <2>2, <2>4 DEF KvPassInv
  <2> QED BY <2>3, <2>4
<1>8. KvRowsInv'
  <2>1. ASSUME NEW q \in kv_active', NEW lh \in KvLh
        PROVE  q \in kv_active /\ KvWritten(q, lh)' \in Int /\ KvWritten(q, lh)' <= KvWritten(q, lh)
    <3>1. q \in kv_active /\ q \in KvSeqs
      BY <1>1, <1>2, <2>1 DEF KvTypeOK
    <3>2. KvWritten(q, lh) \in 0 .. KvMaxLen
      BY <1>1, <3>1, KvWrittenFacts DEF KvInv, KvPassesInv
    <3>3. KvWritten(q, lh)' = KvWritten(q, lh)
      <4>1. CASE q = s
        <5>1. lh \in Nat
          BY DEF KvLh
        <5> QED BY <1>2, <1>4, <4>1, <5>1, KvNoPassType DEF KvWritten
      <4>2. CASE q # s
        BY <1>2, <1>4, <3>1, <4>2 DEF KvWritten
      <4> QED BY <4>1, <4>2
    <3> QED BY <3>1, <3>2, <3>3
  <2> QED BY <1>2, <2>1, KvRowsKept
<1> QED BY <1>5, <1>6, <1>7, <1>8 DEF KvInv

LEMMA KvSpecBeginStep ==
  ASSUME KvInv, NEW s \in KvSeqs, KvSpecBegin(s)
  PROVE  KvInv'
<1>1. KvTypeOK /\ KvPlaceInv
  BY DEF KvInv
<1>2. /\ s \in kv_active
      /\ kv_spec' = [kv_spec EXCEPT ![s] = kv_len[s]]
      /\ kv_spec_len' = [kv_spec_len EXCEPT ![s] = 0]
      /\ UNCHANGED <<kv_active, kv_num, kv_len, kv_table, kv_free, kv_page, kv_flat, kv_pass, kv_round>>
  BY DEF KvSpecBegin, kvPool
<1>3. kv_len[s] \in 0 .. KvMaxLen
  BY <1>1 DEF KvTypeOK
<1>4. /\ kv_spec' \in [KvSeqs -> -1 .. KvMaxLen] /\ kv_spec_len' \in [KvSeqs -> {0}]
      /\ kv_spec'[s] = kv_len[s] /\ \A q \in KvSeqs : q # s => kv_spec'[q] = kv_spec[q]
  BY <1>1, <1>2, <1>3 DEF KvTypeOK
<1>5. KvTypeOK'
  BY <1>1, <1>2, <1>4 DEF KvTypeOK
<1>6. KvPlaceInv'
  BY <1>1, <1>2, KvPlaceSame
<1>7. KvPassesInv'
  <2>1. SUFFICES ASSUME NEW q \in KvSeqs PROVE KvPassInv(q)'
    BY DEF KvPassesInv
  <2>2. KvPassInv(q)
    BY DEF KvInv, KvPassesInv
  <2> QED BY <1>2, <1>3, <1>4, <2>2 DEF KvPassInv
<1>8. KvRowsInv'
  <2>1. ASSUME NEW q \in kv_active', NEW lh \in KvLh
        PROVE  q \in kv_active /\ KvWritten(q, lh)' \in Int /\ KvWritten(q, lh)' <= KvWritten(q, lh)
    <3>1. q \in kv_active /\ q \in KvSeqs
      BY <1>1, <1>2, <2>1 DEF KvTypeOK
    <3>2. KvWritten(q, lh) \in 0 .. KvMaxLen
      BY <1>1, <3>1, KvWrittenFacts DEF KvInv, KvPassesInv
    <3>3. KvWritten(q, lh)' = KvWritten(q, lh)
      BY <1>2 DEF KvWritten
    <3> QED BY <3>1, <3>2, <3>3
  <2> QED BY <1>2, <2>1, KvRowsKept
<1> QED BY <1>5, <1>6, <1>7, <1>8 DEF KvInv

(* The page that the next row of a pass goes to is in the table of no other  *)
(* entry, whether it is the entry's own or comes from the stack.             *)
LEMMA KvPageForFacts ==
  ASSUME KvInv, NEW s \in kv_active, kv_pass[s].P > 0,
         kv_table[s][KvEntry(s)] # NoPage \/ kv_free # <<>>
  PROVE  LET pass == kv_pass[s]
             pos  == kv_len[s] + pass.t
             e    == KvEntry(s)
             p    == KvPageFor(s, e)
         IN /\ s \in KvSeqs /\ pass \in [P : 0 .. KvMaxLen, lh : KvLh, t : KvPos]
            /\ pos \in KvPos /\ e = <<pass.lh, pos \div KvPageSize>> /\ e \in KvLh \X KvPageIdx
            /\ pass.t < pass.P /\ kv_len[s] + pass.P <= KvMaxLen
            /\ p \in KvPages
            /\ \A x \in KvEntries : KvAt(x) = p => x = <<s, e[1], e[2]>>
<1> DEFINE pass == kv_pass[s]
           pos  == kv_len[s] + pass.t
           e    == KvEntry(s)
           p    == KvPageFor(s, e)
           x0   == <<s, e[1], e[2]>>
<1>1. KvTypeOK /\ KvPlaceInv /\ s \in KvSeqs /\ KvPassInv(s)
  BY DEF KvInv, KvPassesInv, KvTypeOK
<1>2. pass \in [P : 0 .. KvMaxLen, lh : KvLh, t : KvPos] /\ kv_len[s] \in 0 .. KvMaxLen
  BY <1>1 DEF KvTypeOK
<1>3. pass.t < pass.P /\ kv_len[s] + pass.P <= KvMaxLen
  BY <1>1 DEF KvPassInv
<1>4. pos \in KvPos
  BY <1>2, <1>3, KvAssumption DEF KvPos
<1>5. e = <<pass.lh, pos \div KvPageSize>>
  BY DEF KvEntry
<1>6. pass.lh \in KvLh
  BY <1>2
<1> HIDE DEF pass, pos, e
<1>7. e \in KvLh \X KvPageIdx
  BY <1>4, <1>5, <1>6, KvEntryOfPos
<1>8. x0 \in KvEntries /\ KvAt(x0) = kv_table[s][e]
  BY <1>1, <1>7 DEF KvEntries, KvAt
<1>9. p \in KvPages /\ \A x \in KvEntries : KvAt(x) = p => x = x0
  <2>1. CASE kv_table[s][e] # NoPage
    <3>1. p = kv_table[s][e] /\ p # NoPage
      BY <2>1 DEF KvPageFor
    <3>2. p \in KvPages
      BY <1>1, <1>7, <3>1 DEF KvTypeOK
    <3> QED BY <1>1, <1>8, <3>1, <3>2 DEF KvPlaceInv
  <2>2. CASE kv_table[s][e] = NoPage
    <3>1. kv_free \in Seq(KvPages) /\ kv_free # <<>>
      BY <1>1, <2>2 DEF KvTypeOK, e
    <3>2. Len(kv_free) \in DOMAIN kv_free /\ kv_free[Len(kv_free)] \in KvPages
      BY <3>1
    <3>3. p = kv_free[Len(kv_free)]
      BY <2>2 DEF KvPageFor
    <3> QED BY <1>1, <3>2, <3>3 DEF KvPlaceInv
  <2> QED BY <2>1, <2>2
<1> QED BY <1>1, <1>2, <1>3, <1>4, <1>5, <1>7, <1>9 DEF pass, pos, e

LEMMA KvPutStep ==
  ASSUME KvInv, NEW s \in KvSeqs, KvPut(s)
  PROVE  KvInv'
<1> DEFINE pass == kv_pass[s]
           pos  == kv_len[s] + pass.t
           e    == KvEntry(s)
           p    == KvPageFor(s, e)
           o    == pos % KvPageSize
           row  == <<s, pass.lh, pos, kv_round[s]>>
           x0   == <<s, e[1], e[2]>>
           fresh == kv_table[s][e] = NoPage
           lastRow == pass.t = pass.P - 1
           lastPair == pass.lh = KvPairs - 1
           nextPass == IF ~lastRow THEN [pass EXCEPT !.t = @ + 1]
                       ELSE IF ~lastPair THEN [pass EXCEPT !.t = 0, !.lh = @ + 1]
                       ELSE KvNoPass
<1>1. KvTypeOK /\ KvPlaceInv /\ KvPassesInv /\ KvRowsInv
  BY DEF KvInv
<1>2. /\ s \in kv_active /\ pass.P > 0 /\ ~(fresh /\ kv_free = <<>>)
      /\ kv_free' = IF fresh THEN SubSeq(kv_free, 1, Len(kv_free) - 1) ELSE kv_free
      /\ kv_table' = [kv_table EXCEPT ![s][e] = p]
      /\ kv_page' = [kv_page EXCEPT ![p][o] = row]
      /\ kv_flat' = [kv_flat EXCEPT ![s][KvOffset(pass.lh, pos)] = row]
      /\ kv_pass' = [kv_pass EXCEPT ![s] = nextPass]
      /\ kv_len' = IF lastRow /\ lastPair THEN [kv_len EXCEPT ![s] = @ + pass.P] ELSE kv_len
      /\ UNCHANGED <<kv_active, kv_num, kv_spec, kv_spec_len, kv_round>>
  BY DEF KvPut, KvLastRow, kvSpec
<1>3. /\ pass \in [P : 0 .. KvMaxLen, lh : KvLh, t : KvPos]
      /\ pos \in KvPos /\ e = <<pass.lh, pos \div KvPageSize>> /\ e \in KvLh \X KvPageIdx
      /\ pass.t < pass.P /\ kv_len[s] + pass.P <= KvMaxLen
      /\ p \in KvPages
      /\ \A x \in KvEntries : KvAt(x) = p => x = x0
  BY <1>2, KvPageForFacts
<1>4. /\ pass.P \in 1 .. KvMaxLen /\ pass.lh \in KvLh /\ pass.t \in KvPos
      /\ kv_len[s] \in 0 .. KvMaxLen /\ kv_round[s] \in 0 .. KvRounds /\ pos = kv_len[s] + pass.t
  BY <1>1, <1>2, <1>3 DEF KvTypeOK
<1>5. o \in 0 .. KvPageSize - 1 /\ KvOffset(pass.lh, pos) \in 0 .. KvPairs * KvMaxLen - 1
  BY <1>3, <1>4, KvEntryOfPos, KvOffsetRange
<1>6. /\ row \in KvRows /\ row # NoRow
      /\ row[1] = s /\ row[2] = pass.lh /\ row[3] = pos
  BY <1>3, <1>4 DEF KvRows, NoRow
<1>7. kv_len'[s] = (IF lastRow /\ lastPair THEN kv_len[s] + pass.P ELSE kv_len[s])
      /\ kv_len' \in [KvSeqs -> 0 .. KvMaxLen]
      /\ \A q \in KvSeqs : q # s => kv_len'[q] = kv_len[q]
  BY <1>1, <1>2, <1>3, <1>4 DEF KvTypeOK
<1>8. /\ nextPass \in [P : 0 .. KvMaxLen, lh : KvLh, t : KvPos]
      /\ ~lastRow => nextPass.P = pass.P /\ nextPass.lh = pass.lh /\ nextPass.t = pass.t + 1
      /\ lastRow /\ ~lastPair => nextPass.P = pass.P /\ nextPass.lh = pass.lh + 1 /\ nextPass.t = 0
      /\ lastRow /\ lastPair => nextPass = KvNoPass
  <2>1. CASE ~lastRow
    <3>1. pass.t + 1 \in KvPos
      BY <1>3, <1>4, <2>1, KvAssumption DEF KvPos
    <3>2. nextPass = [pass EXCEPT !.t = pass.t + 1]
      BY <2>1
    <3> HIDE DEF pass, lastRow, lastPair, nextPass
    <3> QED BY <1>3, <2>1, <3>1, <3>2
  <2>2. CASE lastRow /\ ~lastPair
    <3>1. pass.lh + 1 \in KvLh /\ 0 \in KvPos
      BY <1>4, <2>2, KvAssumption DEF KvLh, KvPos
    <3>2. nextPass = [pass EXCEPT !.t = 0, !.lh = pass.lh + 1]
      BY <2>2
    <3> HIDE DEF pass, lastRow, lastPair, nextPass
    <3> QED BY <1>3, <2>2, <3>1, <3>2
  <2>3. CASE lastRow /\ lastPair
    BY <2>3, KvNoPassType
  <2> QED BY <2>1, <2>2, <2>3
<1>9. /\ kv_pass' \in [KvSeqs -> [P : 0 .. KvMaxLen, lh : KvLh, t : KvPos]]
      /\ kv_pass'[s] = nextPass
      /\ \A q \in KvSeqs : q # s => kv_pass'[q] = kv_pass[q]
  <2> HIDE DEF nextPass
  <2> QED BY <1>1, <1>2, <1>8 DEF KvTypeOK
<1> HIDE DEF nextPass, fresh, row, o, p, e, pos, lastRow, lastPair, pass
<1>10. /\ kv_table' \in [KvSeqs -> [KvLh \X KvPageIdx -> KvPages \cup {NoPage}]]
       /\ \A q \in KvSeqs : \A f \in KvLh \X KvPageIdx :
            kv_table'[q][f] = IF q = s /\ f = e THEN p ELSE kv_table[q][f]
       /\ \A q \in KvSeqs : q # s => kv_table'[q] = kv_table[q]
  BY <1>1, <1>2, <1>3 DEF KvTypeOK
<1>11. /\ kv_page' \in [KvPages -> [0 .. KvPageSize - 1 -> KvRows]]
       /\ \A r \in KvPages : \A i \in 0 .. KvPageSize - 1 :
            kv_page'[r][i] = IF r = p /\ i = o THEN row ELSE kv_page[r][i]
  BY <1>1, <1>2, <1>3, <1>5, <1>6 DEF KvTypeOK
<1> DEFINE k == KvOffset(pass.lh, pos)
           size == KvPairs * KvMaxLen
<1>12. /\ kv_flat' \in [KvSeqs -> [0 .. size - 1 -> KvRows]]
       /\ \A q \in KvSeqs : \A i \in 0 .. size - 1 :
            kv_flat'[q][i] = IF q = s /\ i = k THEN row ELSE kv_flat[q][i]
  <2>1. /\ kv_flat \in [KvSeqs -> [0 .. size - 1 -> KvRows]] /\ k \in 0 .. size - 1
        /\ kv_flat' = [kv_flat EXCEPT ![s][k] = row]
    BY <1>1, <1>2, <1>5 DEF KvTypeOK
  <2> HIDE DEF k, size
  <2> QED BY <1>6, <2>1
<1> HIDE DEF k
<1>13. /\ kv_free' \in Seq(KvPages) /\ Len(kv_free') <= KvPool
       /\ ~fresh => kv_free' = kv_free
       /\ fresh => /\ Len(kv_free) \in Nat \ {0} /\ p = kv_free[Len(kv_free)]
                   /\ DOMAIN kv_free = 1 .. Len(kv_free) /\ DOMAIN kv_free' = 1 .. Len(kv_free) - 1
                   /\ \A i \in 1 .. Len(kv_free) - 1 : kv_free'[i] = kv_free[i]
  <2>1. kv_free \in Seq(KvPages) /\ Len(kv_free) <= KvPool /\ KvPool \in Nat
    BY <1>1, KvAssumption DEF KvTypeOK
  <2>2. CASE ~fresh
    BY <1>2, <2>1, <2>2
  <2>3. CASE fresh
    <3>1. kv_free # <<>> /\ kv_free' = SubSeq(kv_free, 1, Len(kv_free) - 1)
      BY <1>2, <2>3
    <3>2. p = kv_free[Len(kv_free)]
      BY <2>3 DEF p, fresh, KvPageFor
    <3>3. Len(kv_free) \in Nat \ {0}
      BY <2>1, <3>1
    <3> QED BY <2>1, <2>3, <3>1, <3>2, <3>3
  <2> QED BY <2>2, <2>3
<1>14. KvTypeOK'
  <2>1. /\ kv_active' \subseteq KvSeqs /\ kv_num' \in Int
        /\ kv_spec' \in [KvSeqs -> -1 .. KvMaxLen] /\ kv_spec_len' \in [KvSeqs -> {0}]
        /\ kv_round' \in [KvSeqs -> 0 .. KvRounds]
    BY <1>1, <1>2 DEF KvTypeOK
  <2> QED BY <1>7, <1>9, <1>10, <1>11, <1>12, <1>13, <2>1 DEF KvTypeOK
<1>15. x0 \in KvEntries /\ KvAt(x0) = kv_table[s][e] /\ p # NoPage
  BY <1>3 DEF KvEntries, KvAt, KvPages, NoPage
<1>16. /\ \A x \in KvEntries : KvAt(x)' = IF x = x0 THEN p ELSE KvAt(x)
       /\ ~fresh => KvAt(x0) = p
       /\ fresh => KvAt(x0) = NoPage
  <2>1. ASSUME NEW x \in KvEntries
        PROVE  KvAt(x)' = IF x = x0 THEN p ELSE KvAt(x)
    <3> DEFINE f == <<x[2], x[3]>>
    <3>1. x[1] \in KvSeqs /\ f \in KvLh \X KvPageIdx /\ (x = x0 <=> x[1] = s /\ f = e)
      BY <1>3 DEF KvEntries
    <3>2. KvAt(x)' = kv_table'[x[1]][f] /\ KvAt(x) = kv_table[x[1]][f]
      BY DEF KvAt
    <3> HIDE DEF f
    <3> QED BY <1>10, <3>1, <3>2
  <2>2. ~fresh => kv_table[s][e] = p
    BY DEF fresh, p, KvPageFor
  <2>3. fresh => kv_table[s][e] = NoPage
    BY DEF fresh
  <2> QED BY <1>15, <2>1, <2>2, <2>3
<1>17. KvPlaceInv'
  <2>1. \A i, j \in DOMAIN kv_free' : kv_free'[i] = kv_free'[j] => i = j
    <3>1. CASE ~fresh
      BY <1>1, <1>13, <3>1 DEF KvPlaceInv
    <3>2. CASE fresh
      <4>1. \A i \in DOMAIN kv_free' : i \in DOMAIN kv_free /\ kv_free'[i] = kv_free[i]
        BY <1>13, <3>2
      <4> QED BY <1>1, <4>1 DEF KvPlaceInv
    <3> QED BY <3>1, <3>2
  <2>2. \A x, y \in KvEntries : KvAt(x)' = KvAt(y)' /\ KvAt(x)' # NoPage => x = y
    <3>1. \A x, y \in KvEntries : KvAt(x) = KvAt(y) /\ KvAt(x) # NoPage => x = y
      BY <1>1 DEF KvPlaceInv
    <3> QED BY <1>3, <1>16, <3>1
  <2>3. ASSUME NEW i \in DOMAIN kv_free', NEW x \in KvEntries, KvAt(x)' = kv_free'[i]
        PROVE  FALSE
    <3>1. CASE ~fresh
      <4>1. KvAt(x)' = KvAt(x)
        BY <1>16, <3>1
      <4> QED BY <1>1, <1>13, <2>3, <3>1, <4>1 DEF KvPlaceInv
    <3>2. CASE fresh
      <4>1. i \in DOMAIN kv_free /\ kv_free'[i] = kv_free[i] /\ i # Len(kv_free) /\ Len(kv_free) \in DOMAIN kv_free
        BY <1>13, <3>2
      <4>2. kv_free[i] # p
        BY <1>1, <1>13, <3>2, <4>1 DEF KvPlaceInv
      <4>3. KvAt(x) = kv_free[i]
        BY <1>16, <2>3, <4>1, <4>2
      <4> QED BY <1>1, <4>1, <4>3 DEF KvPlaceInv
    <3> QED BY <3>1, <3>2
  <2>4. ASSUME NEW r \in KvPages
        PROVE  (\E i \in DOMAIN kv_free' : kv_free'[i] = r) \/ \E x \in KvEntries : KvAt(x)' = r
    <3>1. CASE r = p
      BY <1>15, <1>16, <3>1
    <3>2. CASE r # p /\ \E x \in KvEntries : KvAt(x) = r
      <4>1. PICK x \in KvEntries : KvAt(x) = r
        BY <3>2
      <4>2. r # NoPage
        BY DEF KvPages, NoPage
      <4>3. x # x0
        BY <1>16, <3>2, <4>1, <4>2
      <4> QED BY <1>16, <4>1, <4>3
    <3>3. CASE r # p /\ \E i \in DOMAIN kv_free : kv_free[i] = r
      <4>1. PICK i \in DOMAIN kv_free : kv_free[i] = r
        BY <3>3
      <4>2. i \in DOMAIN kv_free' /\ kv_free'[i] = r
        <5>1. CASE ~fresh
          BY <1>13, <4>1, <5>1
        <5>2. CASE fresh
          <6>1. i # Len(kv_free)
            BY <1>13, <3>3, <4>1, <5>2
          <6> QED BY <1>13, <4>1, <5>2, <6>1
        <5> QED BY <5>1, <5>2
      <4> QED BY <4>2
    <3> QED BY <1>1, <3>1, <3>2, <3>3 DEF KvPlaceInv
  <2>5. KvEntries' = KvEntries
    BY DEF KvEntries
  <2>6. \A i \in DOMAIN kv_free' : \A x \in KvEntries : KvAt(x)' # kv_free'[i]
    BY <2>3
  <2>7. \A r \in KvPages : (\E i \in DOMAIN kv_free' : kv_free'[i] = r) \/ \E x \in KvEntries : KvAt(x)' = r
    BY <2>4
  <2> QED BY <2>1, <2>2, <2>5, <2>6, <2>7 DEF KvPlaceInv, KvAt
<1>18. KvPassesInv'
  <2>1. SUFFICES ASSUME NEW q \in KvSeqs PROVE KvPassInv(q)'
    BY DEF KvPassesInv
  <2>2. KvPassInv(q)
    BY <1>1 DEF KvPassesInv
  <2>3. CASE q # s
    BY <1>2, <1>7, <1>9, <1>10, <2>2, <2>3 DEF KvPassInv
  <2>4. CASE q = s
    <3>1. kv_spec'[s] <= kv_len'[s]
      <4>1. kv_spec[s] \in Int /\ kv_spec[s] <= kv_len[s]
        BY <1>1, <1>2, <2>2, <2>4 DEF KvPassInv, KvTypeOK
      <4> QED BY <1>2, <1>4, <1>7, <4>1
    <3>2. /\ kv_pass'[s].P = 0 => kv_pass'[s] = KvNoPass
          /\ kv_pass'[s].P > 0 => kv_pass'[s].t < kv_pass'[s].P /\ kv_len'[s] + kv_pass'[s].P <= KvMaxLen
      <4>1. CASE ~lastRow
        <5>1. pass.t + 1 < pass.P
          BY <1>3, <1>4, <4>1 DEF lastRow, KvPos
        <5> QED BY <1>3, <1>4, <1>7, <1>8, <1>9, <4>1, <5>1
      <4>2. CASE lastRow /\ ~lastPair
        BY <1>3, <1>4, <1>7, <1>8, <1>9, <4>2
      <4>3. CASE lastRow /\ lastPair
        BY <1>8, <1>9, <4>3, KvNoPassType
      <4> QED BY <4>1, <4>2, <4>3
    <3> QED BY <1>2, <2>4, <3>1, <3>2 DEF KvPassInv
  <2> QED BY <2>3, <2>4
<1>19. ASSUME NEW l \in KvLh
       PROVE  KvWritten(s, l)' = IF l = pass.lh THEN KvWritten(s, l) + 1 ELSE KvWritten(s, l)
  <2>1. KvWritten(s, l) = kv_len[s] + (IF l < pass.lh THEN pass.P ELSE IF l = pass.lh THEN pass.t ELSE 0)
    BY DEF KvWritten, pass
  <2>2. KvWritten(s, l)' = kv_len'[s] + (IF l < nextPass.lh THEN nextPass.P ELSE IF l = nextPass.lh THEN nextPass.t ELSE 0)
    BY <1>9 DEF KvWritten
  <2>3. l \in Int /\ pass.lh \in Int /\ pass.t \in Int /\ pass.P \in Int /\ kv_len[s] \in Int
    BY <1>4 DEF KvLh, KvPos
  <2>4. CASE ~lastRow
    BY <1>7, <1>8, <2>1, <2>2, <2>3, <2>4
  <2>5. CASE lastRow /\ ~lastPair
    <3>1. pass.t = pass.P - 1
      BY <2>5 DEF lastRow
    <3> QED BY <1>7, <1>8, <2>1, <2>2, <2>3, <2>5, <3>1
  <2>6. CASE lastRow /\ lastPair
    <3>1. pass.t = pass.P - 1 /\ l <= pass.lh
      BY <2>6, KvAssumption DEF lastRow, lastPair, KvLh
    <3>2. KvWritten(s, l)' = kv_len[s] + pass.P
      BY <1>7, <1>8, <2>2, <2>3, <2>6, KvNoPassType DEF KvLh
    <3> QED BY <2>1, <2>3, <3>1, <3>2
  <2> QED BY <2>4, <2>5, <2>6
<1>20. KvWritten(s, pass.lh) = pos
  BY <1>4 DEF KvWritten, pass, KvLh
<1>21. KvRowsInv'
  <2>1. SUFFICES ASSUME NEW q \in kv_active', NEW l \in KvLh, NEW i \in 0 .. KvWritten(q, l)' - 1
                 PROVE  KvRowInv(q, l, i)'
    BY DEF KvRowsInv, KvLh
  <2>2. q \in kv_active /\ q \in KvSeqs
    BY <1>1, <1>2, <2>1 DEF KvTypeOK
  <2>3. KvWritten(q, l) \in 0 .. KvMaxLen
    BY <1>1, <2>2, KvWrittenFacts DEF KvPassesInv
  <2>4. KvWritten(q, l)' \in 0 .. KvMaxLen
    <3>1. KvPassInv(q)' /\ KvTypeOK'
      BY <1>14, <1>18, <2>2 DEF KvPassesInv
    <3> QED BY <2>2, <3>1, KvWrittenNext
  <2>5. i \in KvPos
    BY <2>1, <2>4, KvAssumption DEF KvPos
  <2> DEFINE f == <<l, i \div KvPageSize>>
             j == i % KvPageSize
             x == <<q, l, i \div KvPageSize>>
             d == KvOffset(l, i)
  <2>6. f \in KvLh \X KvPageIdx /\ j \in 0 .. KvPageSize - 1 /\ d \in 0 .. size - 1
    BY <2>5, KvEntryOfPos, KvOffsetRange
  <2>7. x \in KvEntries /\ KvAt(x) = kv_table[q][f] /\ KvAt(x)' = kv_table'[q][f]
    BY <2>2, <2>6 DEF KvEntries, KvAt
  <2>8. /\ KvReadPaged(q, l, i) = kv_page[KvAt(x)][j] /\ KvReadFlat(q, l, i) = kv_flat[q][d]
        /\ KvReadPaged(q, l, i)' = kv_page'[KvAt(x)'][j] /\ KvReadFlat(q, l, i)' = kv_flat'[q][d]
    BY <2>7 DEF KvReadPaged, KvReadFlat, KvOffset
  <2>9. CASE q = s /\ l = pass.lh /\ i = pos
    <3>1. x = x0 /\ j = o /\ d = k
      BY <1>3, <2>9 DEF o, k
    <3>2. KvAt(x)' = p
      BY <1>16, <2>7, <3>1
    <3>3. KvReadPaged(q, l, i)' = row /\ KvReadFlat(q, l, i)' = row
      BY <1>3, <1>11, <1>12, <2>2, <2>6, <2>8, <2>9, <3>1, <3>2
    <3> HIDE DEF x, f, j, d
    <3> QED BY <1>6, <1>15, <2>7, <2>9, <3>2, <3>3 DEF KvRowInv, f
  <2>10. CASE ~(q = s /\ l = pass.lh /\ i = pos)
    <3>1. i \in 0 .. KvWritten(q, l) - 1
      <4>1. CASE q = s
        BY <1>19, <1>20, <2>1, <2>3, <2>10, <4>1
      <4>2. CASE q # s
        <5>1. KvWritten(q, l)' = KvWritten(q, l)
          BY <1>7, <1>9, <2>2, <4>2 DEF KvWritten
        <5> QED BY <2>1, <5>1
      <4> QED BY <4>1, <4>2
    <3>2. KvRowInv(q, l, i)
      BY <1>1, <2>2, <3>1 DEF KvRowsInv
    <3>3. KvAt(x) # NoPage /\ KvAt(x) \in KvPages
      BY <1>1, <2>2, <2>6, <2>7, <3>2 DEF KvRowInv, KvTypeOK
    <3>4. KvAt(x)' = KvAt(x)
      BY <1>16, <2>7, <3>3
    <3>5. ~(KvAt(x) = p /\ j = o)
      <4>1. SUFFICES ASSUME KvAt(x) = p, j = o PROVE FALSE
        OBVIOUS
      <4>2. x = x0
        BY <1>3, <2>7, <4>1
      <4>3. q = s /\ l = pass.lh /\ i \div KvPageSize = pos \div KvPageSize
        BY <1>3, <4>2
      <4>4. i = pos
        BY <1>3, <2>5, <4>1, <4>3, KvPosOfPage DEF o, KvPos
      <4> QED BY <2>10, <4>3, <4>4
    <3>6. KvReadPaged(q, l, i)' = KvReadPaged(q, l, i)
      BY <1>11, <2>6, <2>8, <3>3, <3>4, <3>5
    <3>7. ~(q = s /\ d = k)
      <4>1. SUFFICES ASSUME q = s, d = k PROVE FALSE
        OBVIOUS
      <4>2. l = pass.lh /\ i = pos
        BY <1>3, <1>4, <2>5, <4>1, KvOffsetUnique DEF k
      <4> QED BY <2>10, <4>1, <4>2
    <3>8. KvReadFlat(q, l, i)' = KvReadFlat(q, l, i)
      BY <1>12, <2>2, <2>6, <2>8, <3>7
    <3> HIDE DEF x, f, j, d
    <3> QED BY <2>7, <3>2, <3>3, <3>4, <3>6, <3>8 DEF KvRowInv, f
  <2> QED BY <2>9, <2>10
<1> QED BY <1>14, <1>17, <1>18, <1>21 DEF KvInv

LEMMA KvStepInv == KvInv /\ [KvNext]_kvVars => KvInv'
<1>1. SUFFICES ASSUME KvInv, [KvNext]_kvVars PROVE KvInv'
  OBVIOUS
<1>2. CASE UNCHANGED kvVars
  <2>1. /\ UNCHANGED <<kv_active, kv_num, kv_len, kv_spec, kv_spec_len, kv_table, kv_free>>
        /\ UNCHANGED <<kv_page, kv_flat, kv_pass, kv_round>>
    BY <1>2 DEF kvVars, kvSpec, kvPool
  <2>2. KvTypeOK'
    BY <1>1, <2>1 DEF KvInv, KvTypeOK
  <2>3. KvPlaceInv'
    BY <1>1, <2>1, KvPlaceSame DEF KvInv
  <2>4. KvPassesInv'
    BY <1>1, <2>1 DEF KvInv, KvPassesInv, KvPassInv
  <2>5. KvRowsInv'
    <3>1. ASSUME NEW q \in kv_active', NEW lh \in KvLh
          PROVE  q \in kv_active /\ KvWritten(q, lh)' \in Int /\ KvWritten(q, lh)' <= KvWritten(q, lh)
      <4>1. q \in kv_active /\ q \in KvSeqs
        BY <1>1, <2>1, <3>1 DEF KvInv, KvTypeOK
      <4>2. KvWritten(q, lh) \in 0 .. KvMaxLen
        BY <1>1, <4>1, KvWrittenFacts DEF KvInv, KvPassesInv
      <4>3. KvWritten(q, lh)' = KvWritten(q, lh)
        BY <2>1 DEF KvWritten
      <4> QED BY <4>1, <4>2, <4>3
    <3> QED BY <1>1, <2>1, <3>1, KvRowsKept
  <2> QED BY <2>2, <2>3, <2>4, <2>5 DEF KvInv
<1>3. CASE KvNext
  <2>1. PICK s \in KvSeqs :
          \/ KvAllocSeq(s) \/ KvFreeSeq(s) \/ KvPut(s) \/ KvSpecBegin(s)
          \/ \E P \in 1 .. KvMaxLen : KvBegin(s, P)
          \/ KvSpecCommit(s, 0)
          \/ \E n \in 0 .. KvMaxLen : KvRollback(s, n)
    BY <1>3 DEF KvNext
  <2>2. CASE KvAllocSeq(s)
    BY <1>1, <2>2, KvAllocSeqStep
  <2>3. CASE KvFreeSeq(s)
    BY <1>1, <2>3, KvFreeSeqStep
  <2>4. CASE KvPut(s)
    BY <1>1, <2>4, KvPutStep
  <2>5. CASE KvSpecBegin(s)
    BY <1>1, <2>5, KvSpecBeginStep
  <2>6. CASE \E P \in 1 .. KvMaxLen : KvBegin(s, P)
    BY <1>1, <2>6, KvBeginStep
  <2>7. CASE KvSpecCommit(s, 0)
    BY <1>1, <2>7, KvSpecCommitStep
  <2>8. CASE \E n \in 0 .. KvMaxLen : KvRollback(s, n)
    BY <1>1, <2>8, KvRollbackStep
  <2> QED BY <2>1, <2>2, <2>3, <2>4, <2>5, <2>6, <2>7, <2>8
<1> QED BY <1>1, <1>2, <1>3

(* Every call of cpx_kvcache.c keeps the pages apart and leaves each written *)
(* row where both layouts look for it: the inductive invariant.              *)
THEOREM KvInvariant == KvSpec => []KvInv
<1>1. KvInit => KvInv
  BY KvInitInv
<1>2. KvInv /\ [KvNext]_kvVars => KvInv'
  BY KvStepInv
<1> QED BY <1>1, <1>2, PTL DEF KvSpec

-----------------------------------------------------------------------------
(* The key/value cache: what the invariant gives.                           *)

(* A page in one place is counted once. *)
LEMMA KvPartitionHolds == KvInv => KvPagesPartition
<1>1. SUFFICES ASSUME KvInv, NEW p \in KvPages
               PROVE  Cardinality({i \in DOMAIN kv_free : kv_free[i] = p})
                        + Cardinality({x \in KvSeqs \X KvLh \X KvPageIdx : kv_table[x[1]][<<x[2], x[3]>>] = p}) = 1
  BY DEF KvPagesPartition
<1> DEFINE I == {i \in DOMAIN kv_free : kv_free[i] = p}
           X == {x \in KvSeqs \X KvLh \X KvPageIdx : kv_table[x[1]][<<x[2], x[3]>>] = p}
<1>2. X = {x \in KvEntries : KvAt(x) = p}
  BY DEF KvEntries, KvAt
<1>3. p # NoPage /\ KvPlaceInv
  BY <1>1 DEF KvPages, NoPage, KvInv
<1>4. CASE \E i \in DOMAIN kv_free : kv_free[i] = p
  <2>1. PICK i \in DOMAIN kv_free : kv_free[i] = p
    BY <1>4
  <2>2. I = {i}
    BY <1>3, <2>1 DEF KvPlaceInv
  <2>3. X = {}
    BY <1>2, <1>3, <2>1 DEF KvPlaceInv
  <2>4. Cardinality(I) = 1 /\ Cardinality(X) = 0
    BY <2>2, <2>3, FS_Singleton, FS_EmptySet
  <2> QED BY <2>4
<1>5. CASE ~\E i \in DOMAIN kv_free : kv_free[i] = p
  <2>1. I = {}
    BY <1>5
  <2>2. PICK x \in KvEntries : KvAt(x) = p
    BY <1>3, <1>5 DEF KvPlaceInv
  <2>3. X = {x}
    BY <1>2, <1>3, <2>2 DEF KvPlaceInv
  <2>4. Cardinality(I) = 0 /\ Cardinality(X) = 1
    BY <2>1, <2>3, FS_Singleton, FS_EmptySet
  <2> QED BY <2>4
<1> QED BY <1>4, <1>5

(* Entries of all tables: no more than the pool has pages. *)
LEMMA KvEntriesFinite ==
  IsFiniteSet(KvEntries) /\ Cardinality(KvEntries) <= KvPool
<1> DEFINE T == KvLh \X KvPageIdx
           f == [x \in KvEntries |-> <<x[1], <<x[2], x[3]>>>>]
<1>1. IsFiniteSet(T) /\ Cardinality(T) = KvPairs * KvMaxPages
  BY KvTableFinite
<1>2. f \in Injection(KvEntries, KvSeqs \X T)
  <2>1. f \in [KvEntries -> KvSeqs \X T]
    BY DEF KvEntries
  <2>2. \A x, y \in KvEntries : f[x] = f[y] => x = y
    BY DEF KvEntries
  <2> HIDE DEF f
  <2> QED BY <2>1, <2>2 DEF Injection, IsInjective
<1> HIDE DEF T, f
<1>3. IsFiniteSet(KvSeqs \X T) /\ Cardinality(KvSeqs \X T) = Cardinality(KvSeqs) * Cardinality(T)
  BY <1>1, KvAssumption, FS_Product
<1>4. IsFiniteSet(KvEntries) /\ Cardinality(KvEntries) <= Cardinality(KvSeqs) * Cardinality(T)
  BY <1>2, <1>3, FS_Injection
<1>5. Cardinality(KvSeqs) * Cardinality(T) = Cardinality(KvSeqs) * KvPairs * KvMaxPages
  <2>1. Cardinality(KvSeqs) \in Nat /\ KvPairs \in Nat /\ KvMaxPages \in Nat
    BY KvAssumption, KvMaxPagesNat, FS_CardinalityType
  <2> QED BY <1>1, <2>1
<1>6. Cardinality(KvEntries) \in Nat /\ Cardinality(KvSeqs) * KvPairs * KvMaxPages \in Int /\ KvPool \in Nat
  <2>1. Cardinality(KvSeqs) \in Nat /\ KvPairs \in Nat /\ KvMaxPages \in Nat
    BY KvAssumption, KvMaxPagesNat, FS_CardinalityType
  <2> QED BY <1>4, <2>1, FS_CardinalityType, KvAssumption
<1> QED BY <1>4, <1>5, <1>6, KvPoolAssumption

(* An empty stack means that all pages are in tables, and then no entry is  *)
(* without one.                                                             *)
LEMMA KvPoolHolds == KvInv => KvPoolSuffices
<1>1. SUFFICES ASSUME KvInv, NEW s \in kv_active, kv_pass[s].P > 0,
                      kv_table[s][KvEntry(s)] = NoPage, kv_free = <<>>
               PROVE  FALSE
  BY DEF KvPoolSuffices
<1>2. KvTypeOK /\ KvPlaceInv /\ s \in KvSeqs /\ KvPassInv(s)
  BY <1>1 DEF KvInv, KvPassesInv, KvTypeOK
<1> DEFINE e == KvEntry(s)
           x0 == <<s, e[1], e[2]>>
           Rest == KvEntries \ {x0}
           home == [p \in KvPages |-> CHOOSE x \in KvEntries : KvAt(x) = p]
<1>3. e \in KvLh \X KvPageIdx
  <2>1. kv_pass[s] \in [P : 0 .. KvMaxLen, lh : KvLh, t : KvPos] /\ kv_len[s] \in 0 .. KvMaxLen
    BY <1>2 DEF KvTypeOK
  <2>2. kv_pass[s].t < kv_pass[s].P /\ kv_len[s] + kv_pass[s].P <= KvMaxLen
    BY <1>1, <1>2 DEF KvPassInv
  <2>3. kv_len[s] + kv_pass[s].t \in KvPos /\ kv_pass[s].lh \in KvLh
    BY <2>1, <2>2, KvAssumption DEF KvPos
  <2> QED BY <2>3, KvEntryOfPos DEF KvEntry
<1>4. x0 \in KvEntries /\ KvAt(x0) = NoPage
  <2>1. e = <<e[1], e[2]>>
    BY <1>3
  <2> HIDE DEF e
  <2>2. x0 \in KvEntries /\ KvAt(x0) = kv_table[s][e]
    BY <1>2, <1>3, <2>1 DEF KvEntries, KvAt
  <2> QED BY <1>1, <2>2 DEF e
<1> HIDE DEF e, x0
<1>5. \A p \in KvPages : \E x \in KvEntries : KvAt(x) = p
  <2>1. DOMAIN kv_free = {}
    BY <1>1
  <2> QED BY <1>2, <2>1 DEF KvPlaceInv
<1>6. \A p \in KvPages : home[p] \in KvEntries /\ KvAt(home[p]) = p
  BY <1>5
<1> HIDE DEF home
<1>7. \A p \in KvPages : p # NoPage
  BY DEF KvPages, NoPage
<1>8. home \in [KvPages -> Rest]
  <2>1. \A p \in KvPages : home[p] \in Rest
    BY <1>4, <1>6, <1>7
  <2>2. home = [p \in KvPages |-> home[p]]
    BY DEF home
  <2> QED BY <2>1, <2>2
<1>9. IsFiniteSet(Rest) /\ Cardinality(Rest) = Cardinality(KvEntries) - 1
  BY <1>4, KvEntriesFinite, FS_RemoveElement
<1>10. IsFiniteSet(KvPages) /\ Cardinality(KvPages) = KvPool
  BY KvAssumption, FS_Interval DEF KvPages
<1>11. Cardinality(Rest) < Cardinality(KvPages)
  <2>1. Cardinality(KvEntries) \in Nat
    BY KvEntriesFinite, FS_CardinalityType
  <2> HIDE DEF Rest
  <2> QED BY <1>9, <1>10, <2>1, KvEntriesFinite, KvAssumption
<1> HIDE DEF Rest
<1>12. PICK p, r \in KvPages : p # r /\ home[p] = home[r]
  BY <1>8, <1>9, <1>10, <1>11, FS_PigeonHole
<1> QED BY <1>6, <1>12

LEMMA KvRowsHold == KvInv => KvLayoutsAgree /\ KvReadsOwnRow
<1>1. SUFFICES ASSUME KvInv PROVE KvLayoutsAgree /\ KvReadsOwnRow
  OBVIOUS
<1>2. ASSUME NEW s \in kv_active, NEW lh \in KvLh, NEW pos \in 0 .. kv_len[s] - 1
      PROVE  KvRowInv(s, lh, pos)
  <2>1. s \in KvSeqs /\ KvTypeOK /\ KvPassInv(s)
    BY <1>1 DEF KvInv, KvTypeOK, KvPassesInv
  <2>2. KvWritten(s, lh) \in 0 .. KvMaxLen /\ kv_len[s] <= KvWritten(s, lh)
    BY <2>1, KvWrittenFacts
  <2>3. kv_len[s] \in Int
    BY <2>1 DEF KvTypeOK
  <2>4. pos \in 0 .. KvWritten(s, lh) - 1
    BY <2>2, <2>3
  <2> QED BY <1>1, <2>4 DEF KvInv, KvRowsInv
<1>3. KvLayoutsAgree
  BY <1>2 DEF KvLayoutsAgree, KvRowInv
<1>4. KvReadsOwnRow
  <2>1. SUFFICES ASSUME NEW s \in kv_active, NEW lh \in KvLh, NEW pos \in 0 .. kv_len[s] - 1
                 PROVE  LET row == KvReadFlat(s, lh, pos)
                        IN row # NoRow /\ row[1] = s /\ row[2] = lh /\ row[3] = pos
    BY Zenon DEF KvReadsOwnRow
  <2>2. KvRowInv(s, lh, pos)
    BY <1>2
  <2> QED BY <2>2 DEF KvRowInv
<1> QED BY <1>3, <1>4

(* Whatever is freed, rolled back, committed and written again, a read below *)
(* seq_len returns the row of its sequence, pair and position in either      *)
(* layout, every page is on the stack or in one table, and the pool of       *)
(* cpx_kvcache_create never runs out.                                        *)
THEOREM KvIsSafe == KvSpec => []KvSafe
<1>1. KvInv => KvSafe
  BY KvPartitionHolds, KvPoolHolds, KvRowsHold DEF KvSafe, KvInv
<1> QED BY <1>1, KvInvariant, PTL

-----------------------------------------------------------------------------
(* Containers: places in a table and in a ring.                             *)

(* Quotient and remainder are unique. *)
LEMMA ClModUnique ==
  ASSUME NEW n \in Nat \ {0}, NEW i \in Int, NEW q \in Int, NEW m \in 0 .. n - 1, i = n * q + m
  PROVE  i % n = m
<1> DEFINE r == i \div n
           s == i % n
<1>1. r \in Int /\ s \in 0 .. n - 1 /\ i = n * r + s
  BY DivMod
<1> HIDE DEF r, s
<1>2. n * q - n * r = s - m
  BY <1>1
<1>3. n * q - n * r = n * (q - r)
  BY <1>1
<1>4. CASE q - r <= -1
  <2>1. n * (q - r) <= -n
    BY <1>1, <1>4
  <2> QED BY <1>1, <1>2, <1>3, <2>1
<1>5. CASE q - r >= 1
  <2>1. n * (q - r) >= n
    BY <1>1, <1>5
  <2> QED BY <1>1, <1>2, <1>3, <2>1
<1>6. CASE q - r = 0
  <2>1. s = m
    BY <1>1, <1>2, <1>3, <1>6
  <2> QED BY <2>1 DEF s
<1> QED BY <1>1, <1>4, <1>5, <1>6

LEMMA ClModSmall ==
  ASSUME NEW n \in Nat \ {0}, NEW m \in 0 .. n - 1
  PROVE  m % n = m
<1>1. m = n * 0 + m
  OBVIOUS
<1> QED BY <1>1, ClModUnique

(* A remainder may be taken before an addition. *)
LEMMA ClModAdd ==
  ASSUME NEW n \in Nat \ {0}, NEW a \in Int, NEW b \in Int
  PROVE  ((a % n) + b) % n = (a + b) % n
<1> DEFINE q == a \div n
           m == a % n
           r == (m + b) \div n
           s == (m + b) % n
<1>1. q \in Int /\ m \in 0 .. n - 1 /\ a = n * q + m
  BY DivMod
<1>2. r \in Int /\ s \in 0 .. n - 1 /\ m + b = n * r + s
  <2>1. m + b \in Int
    BY <1>1
  <2> QED BY <2>1, DivMod
<1> HIDE DEF q, m, r, s
<1> DEFINE t == q + r
<1>3. t \in Int /\ a + b = n * t + s
  BY <1>1, <1>2
<1> HIDE DEF t
<1>4. (a + b) % n = s
  <2>1. a + b \in Int
    OBVIOUS
  <2> QED BY <1>2, <1>3, <2>1, ClModUnique
<1> QED BY <1>4 DEF s, m

(* Places less than a round apart differ. *)
LEMMA ClModDistinct ==
  ASSUME NEW n \in Nat \ {0}, NEW i \in Int, NEW j \in Int, i < j, j - i < n
  PROVE  i % n # j % n
<1>1. SUFFICES ASSUME i % n = j % n PROVE FALSE
  OBVIOUS
<1> DEFINE q == i \div n
           r == j \div n
           m == i % n
<1>2. q \in Int /\ r \in Int /\ m \in Int /\ i = n * q + m /\ j = n * r + m
  BY <1>1, DivMod
<1> HIDE DEF q, r, m
<1>3. j - i = n * (r - q)
  BY <1>2
<1>4. CASE r - q <= 0
  <2>1. n * (r - q) <= 0
    BY <1>2, <1>4
  <2> QED BY <2>1, <1>3
<1>5. CASE r - q >= 1
  <2>1. n * (r - q) >= n
    BY <1>2, <1>5
  <2> QED BY <2>1, <1>3
<1> QED BY <1>2, <1>4, <1>5

(* A round from anywhere meets every place. *)
LEMMA ClModReach ==
  ASSUME NEW n \in Nat \ {0}, NEW h \in Int, NEW x \in 0 .. n - 1
  PROVE  \E j \in 0 .. n - 1 : (h + j) % n = x
<1> DEFINE j == (x - h) % n
<1>1. j \in 0 .. n - 1
  BY DivMod
<1>2. (j + h) % n = ((x - h) + h) % n
  <2>1. x - h \in Int
    OBVIOUS
  <2> QED BY <2>1, ClModAdd
<1>3. (x - h) + h = x /\ j + h = h + j
  BY <1>1
<1>4. x % n = x
  BY ClModSmall
<1> HIDE DEF j
<1>5. (h + j) % n = x
  BY <1>2, <1>3, <1>4
<1> QED BY <1>1, <1>5

LEMMA MapCapFacts ==
  ASSUME MapType
  PROVE  /\ map_cap \in Nat \ {0} /\ map_cap >= 2
         /\ DOMAIN map_slots = 0 .. map_cap - 1
BY ClAssumption DEF MapType

LEMMA MapNextFacts ==
  ASSUME MapType, NEW x \in 0 .. map_cap - 1
  PROVE  /\ MapNext(x) \in 0 .. map_cap - 1
         /\ MapNext(x) = IF x = map_cap - 1 THEN 0 ELSE x + 1
<1>1. map_cap \in Nat \ {0}
  BY MapCapFacts
<1>2. CASE x = map_cap - 1
  <2>1. x + 1 \in Int /\ x + 1 = map_cap * 1 + 0 /\ 0 \in 0 .. map_cap - 1
    BY <1>1, <1>2
  <2>2. (x + 1) % map_cap = 0
    BY <1>1, <2>1, ClModUnique
  <2> QED BY <1>1, <1>2, <2>2 DEF MapNext
<1>3. CASE x # map_cap - 1
  <2>1. x + 1 \in 0 .. map_cap - 1
    BY <1>1, <1>3
  <2>2. (x + 1) % map_cap = x + 1
    BY <1>1, <2>1, ClModSmall
  <2> QED BY <1>1, <1>3, <2>1, <2>2 DEF MapNext
<1> QED BY <1>2, <1>3

(* Two slots do not have the same successor, and none is its own. *)
LEMMA MapNextDistinct ==
  ASSUME MapType, NEW x \in 0 .. map_cap - 1, NEW y \in 0 .. map_cap - 1
  PROVE  /\ MapNext(x) # x
         /\ MapNext(x) = MapNext(y) => x = y
<1>1. map_cap \in Nat /\ map_cap >= 2
  BY MapCapFacts
<1>2. MapNext(x) = IF x = map_cap - 1 THEN 0 ELSE x + 1
  BY MapNextFacts
<1>3. MapNext(y) = IF y = map_cap - 1 THEN 0 ELSE y + 1
  BY MapNextFacts
<1> QED BY <1>1, <1>2, <1>3

LEMMA ProbeFacts ==
  ASSUME MapType, NEW k \in ClKeys, NEW j \in Nat
  PROVE  /\ Probe(k, j) \in 0 .. map_cap - 1
         /\ Probe(k, j + 1) = MapNext(Probe(k, j))
         /\ Probe(k, 0) = map_hash[k] % map_cap
<1>1. map_cap \in Nat \ {0} /\ map_hash[k] \in Nat
  BY MapCapFacts DEF MapType
<1> DEFINE a == map_hash[k] + j
<1>2. a \in Int /\ a + 1 = map_hash[k] + (j + 1) /\ map_hash[k] + 0 = map_hash[k]
  BY <1>1
<1>3. Probe(k, j) = a % map_cap
  BY DEF Probe
<1> HIDE DEF a
<1>4. a % map_cap \in 0 .. map_cap - 1
  BY <1>1, <1>2, DivMod
<1>5. ((a % map_cap) + 1) % map_cap = (a + 1) % map_cap
  <2>1. \A b \in Int : ((a % map_cap) + b) % map_cap = (a + b) % map_cap
    BY <1>1, <1>2, ClModAdd
  <2> QED BY <2>1
<1>6. Probe(k, j + 1) = (a + 1) % map_cap /\ Probe(k, 0) = map_hash[k] % map_cap
  BY <1>2 DEF Probe
<1> QED BY <1>3, <1>4, <1>5, <1>6 DEF MapNext

LEMMA MapSlotFacts ==
  ASSUME MapType, NEW x \in 0 .. map_cap - 1
  PROVE  /\ map_slots[x] \in MapSlot /\ map_slots[x].dib \in Nat
         /\ x \in MapTaken <=> map_slots[x] # MapEmpty
         /\ map_slots[x] # MapEmpty => /\ map_slots[x] \in MapEntries /\ map_slots[x].key \in ClKeys
                                       /\ map_slots[x].val \in ClVals /\ map_slots[x].key # NoKey
         /\ map_slots[x] = MapEmpty => map_slots[x].key = NoKey /\ map_slots[x].dib = 0
<1>1. map_slots[x] \in MapSlot
  BY DEF MapType
<1>2. x \in DOMAIN map_slots
  BY MapCapFacts
<1> QED BY <1>1, <1>2, ClAssumption DEF MapSlot, MapEntries, MapEmpty, MapTaken

LEMMA MapTakenIn ==
  ASSUME MapType, NEW x \in MapTaken
  PROVE  x \in 0 .. map_cap - 1 /\ map_slots[x] # MapEmpty
BY MapCapFacts DEF MapTaken

(* The slots from the ideal slot of a key to the one it is in are taken, by *)
(* entries that are at least as far from theirs.                            *)
LEMMA MapChain ==
  ASSUME MapType, MapTable, NEW x \in MapTaken, NEW j \in 0 .. map_slots[x].dib
  PROVE  LET p == Probe(map_slots[x].key, j) IN map_slots[p] # MapEmpty /\ map_slots[p].dib >= j
<1> DEFINE k == map_slots[x].key
           d == map_slots[x].dib
           Good(i) == map_slots[Probe(k, i)] # MapEmpty /\ map_slots[Probe(k, i)].dib >= i
           S == {m \in 0 .. d : ~Good(d - m)}
<1>1. x \in 0 .. map_cap - 1 /\ map_slots[x] # MapEmpty
  BY MapTakenIn
<1>2. k \in ClKeys /\ d \in Nat
  BY <1>1, MapSlotFacts
<1>3. Probe(k, d) = x
  BY DEF MapTable
<1> HIDE DEF k
<1>4. Good(d)
  BY <1>1, <1>2, <1>3
<1>5. ASSUME NEW i \in Nat, Good(i + 1) PROVE Good(i)
  <2> DEFINE p == Probe(k, i)
  <2>1. p \in 0 .. map_cap - 1 /\ Probe(k, i + 1) = MapNext(p)
    BY <1>2, ProbeFacts
  <2>2. map_slots[MapNext(p)].dib \in Nat
    BY <2>1, MapNextFacts, MapSlotFacts
  <2>3. map_slots[MapNext(p)].dib >= i + 1
    BY <1>5, <2>1
  <2> HIDE DEF p
  <2>4. map_slots[MapNext(p)].dib > 0
    BY <2>2, <2>3
  <2>5. p \in MapTaken /\ map_slots[MapNext(p)].dib <= map_slots[p].dib + 1
    BY <2>1, <2>4, MapCapFacts DEF MapTable
  <2>6. map_slots[p].dib \in Nat /\ map_slots[p] # MapEmpty
    BY <2>1, <2>5, MapSlotFacts
  <2>7. map_slots[p].dib >= i
    BY <2>2, <2>3, <2>5, <2>6
  <2> QED BY <2>6, <2>7 DEF p
<1> HIDE DEF Good, d
<1>6. S = {}
  <2>1. SUFFICES ASSUME S # {} PROVE FALSE
    OBVIOUS
  <2>2. PICK m \in S : \A y \in S : m <= y
    <3>1. S \subseteq Nat
      BY <1>2
    <3> QED BY <2>1, <3>1, SmallestExists
  <2>3. m \in 0 .. d /\ ~Good(d - m)
    OBVIOUS
  <2>4. m # 0
    BY <1>2, <1>4, <2>3
  <2>5. m - 1 \in 0 .. d /\ ~(m <= m - 1) /\ d - (m - 1) = (d - m) + 1 /\ d - m \in Nat
    BY <1>2, <2>3, <2>4
  <2>6. Good((d - m) + 1)
    BY <2>2, <2>5
  <2> QED BY <1>5, <2>3, <2>5, <2>6
<1>7. j \in 0 .. d
  BY DEF d
<1>8. d - j \in 0 .. d /\ d - (d - j) = j
  BY <1>2, <1>7
<1>9. Good(j)
  BY <1>6, <1>8
<1> QED BY <1>9 DEF Good, k

(* There is room, so a slot is empty. *)
LEMMA MapRoomLeft ==
  ASSUME MapType, MapCount
  PROVE  MapProbesEnd
<1>1. map_cap \in Nat /\ DOMAIN map_slots = 0 .. map_cap - 1
  BY MapCapFacts
<1>2. Cardinality(0 .. map_cap - 1) = map_cap /\ IsFiniteSet(0 .. map_cap - 1)
  <2>1. 0 \in Int /\ map_cap - 1 \in Int
    BY <1>1
  <2>2. Cardinality(0 .. map_cap - 1) = IF 0 > map_cap - 1 THEN 0 ELSE (map_cap - 1) - 0 + 1
    BY <2>1, FS_Interval
  <2>3. IsFiniteSet(0 .. map_cap - 1)
    BY <2>1, FS_Interval
  <2> QED BY <1>1, <2>2, <2>3
<1>3. SUFFICES ASSUME MapTaken = 0 .. map_cap - 1 PROVE FALSE
  BY <1>1 DEF MapProbesEnd, MapTaken
<1>4. MapPending \subseteq DOMAIN map_old /\ IsFiniteSet(DOMAIN map_old)
  <2>1. PICK n \in 0 .. map_cap : map_old \in [0 .. n - 1 -> MapSlot]
    BY DEF MapType
  <2>2. DOMAIN map_old = 0 .. n - 1 /\ n - 1 \in Int
    BY <1>1, <2>1
  <2>3. IsFiniteSet(0 .. n - 1)
    BY <2>2, FS_Interval
  <2> QED BY <2>2, <2>3 DEF MapPending
<1>5. Cardinality(MapPending) \in Nat
  BY <1>4, FS_Subset, FS_CardinalityType
<1>6. Cardinality(MapTaken) <= map_size
  <2> DEFINE p == Cardinality(MapPending)
             t == Cardinality(MapTaken)
             r == IF cl_at = "reinsert" THEN 1 ELSE 0
  <2>1. t + p + r <= map_size
    BY DEF MapCount
  <2>2. p \in Nat /\ t \in Nat /\ map_size \in Nat /\ r \in Nat
    BY <1>1, <1>2, <1>3, <1>5 DEF MapType
  <2> HIDE DEF p, t, r
  <2>3. t <= map_size
    BY <2>1, <2>2
  <2> QED BY <2>3 DEF t
<1>7. map_size < map_cap /\ map_size \in Nat
  BY DEF MapCount, MapType
<1> QED BY <1>1, <1>2, <1>3, <1>6, <1>7

(* The probe for a key stops. *)
LEMMA MapStops ==
  ASSUME MapType, MapProbesEnd, NEW k \in ClKeys
  PROVE  \E a \in Stops(k) : Stop(k) = Probe(k, a) /\ \A i \in Stops(k) : a <= i
<1>1. map_cap \in Nat \ {0} /\ DOMAIN map_slots = 0 .. map_cap - 1 /\ map_hash[k] \in Int
  BY MapCapFacts DEF MapType
<1>2. PICK x \in 0 .. map_cap - 1 : map_slots[x] = MapEmpty
  BY <1>1 DEF MapProbesEnd
<1>3. PICK j \in 0 .. map_cap - 1 : (map_hash[k] + j) % map_cap = x
  BY <1>1, ClModReach
<1>4. j \in Stops(k)
  BY <1>2, <1>3 DEF Stops, Probe
<1>5. Stops(k) \subseteq Nat
  BY <1>1 DEF Stops
<1>6. \E a \in Stops(k) : \A i \in Stops(k) : a <= i
  BY <1>4, <1>5, SmallestExists
<1> DEFINE c == CHOOSE a \in Stops(k) : \A i \in Stops(k) : a <= i
<1>7. c \in Stops(k) /\ \A i \in Stops(k) : c <= i
  BY <1>6
<1>8. Stop(k) = Probe(k, c)
  BY DEF Stop
<1> QED BY <1>7, <1>8

LEMMA MapStopIn ==
  ASSUME MapType, MapProbesEnd, NEW k \in ClKeys
  PROVE  /\ Stop(k) \in 0 .. map_cap - 1
         /\ MapHas(k) => Stop(k) \in MapTaken /\ map_slots[Stop(k)].key = k
<1>1. PICK a \in Stops(k) : Stop(k) = Probe(k, a)
  BY MapStops
<1>2. a \in Nat /\ (map_slots[Probe(k, a)] = MapEmpty \/ map_slots[Probe(k, a)].key = k)
  BY <1>1, MapCapFacts DEF Stops
<1>3. Stop(k) \in 0 .. map_cap - 1
  BY <1>1, <1>2, ProbeFacts
<1> QED BY <1>1, <1>2, <1>3, MapSlotFacts DEF MapHas

(* A key that is in the table is found, and one that is not is not. *)
LEMMA MapFound ==
  ASSUME MapType, MapTable, MapProbesEnd, NEW x \in MapTaken
  PROVE  Stop(map_slots[x].key) = x /\ MapHas(map_slots[x].key)
<1> DEFINE k == map_slots[x].key
           d == map_slots[x].dib
<1>1. x \in 0 .. map_cap - 1 /\ map_slots[x] # MapEmpty
  BY MapTakenIn
<1>2. k \in ClKeys /\ d \in Nat /\ map_cap \in Nat \ {0} /\ map_hash[k] \in Int
  <2>1. k \in ClKeys /\ d \in Nat
    BY <1>1, MapSlotFacts
  <2>2. map_cap \in Nat \ {0} /\ map_hash \in [ClKeys -> Nat]
    BY MapCapFacts DEF MapType
  <2> HIDE DEF k
  <2>3. map_hash[k] \in Nat
    BY <2>1, <2>2
  <2> QED BY <2>1, <2>2, <2>3
<1>3. PICK a \in Stops(k) : Stop(k) = Probe(k, a) /\ \A i \in Stops(k) : a <= i
  BY <1>2, MapStops
<1>4. Probe(k, d) = x
  BY DEF MapTable
<1>5. a <= d
  <2>1. CASE d >= map_cap
    BY <1>2, <2>1 DEF Stops
  <2>2. CASE d < map_cap
    <3>1. d \in Stops(k)
      BY <1>2, <1>4, <2>2 DEF Stops
    <3> QED BY <1>3, <3>1
  <2> QED BY <1>2, <2>1, <2>2
<1>6. a \in 0 .. d
  BY <1>2, <1>5 DEF Stops
<1>7. map_slots[Probe(k, a)] # MapEmpty
  BY <1>6, MapChain
<1>8. map_slots[Probe(k, a)].key = k
  BY <1>7 DEF Stops
<1>9. Probe(k, a) \in 0 .. map_cap - 1
  BY <1>2, <1>6, ProbeFacts
<1>10. Probe(k, a) \in MapTaken
  BY <1>7, <1>9, MapSlotFacts
<1>11. Probe(k, a) = x
  BY <1>8, <1>10 DEF MapTable
<1> QED BY <1>1, <1>3, <1>11 DEF MapHas

LEMMA MapAbsent ==
  ASSUME MapType, MapProbesEnd, NEW k \in ClKeys, \A x \in MapTaken : map_slots[x].key # k
  PROVE  ~MapHas(k)
BY MapStopIn

(* Between two calls the table holds what was put. *)
LEMMA MapHoldsSpec ==
  ASSUME MapInv, cl_at = "idle", ~map_broken
  PROVE  /\ \A x \in MapTaken : map_spec[map_slots[x].key] = map_slots[x].val
         /\ \A k \in ClKeys : map_spec[k] # 0 => \E x \in MapTaken : map_slots[x].key = k
<1>1. MapType /\ MapControl /\ MapContent
  BY DEF MapInv
<1>2. map_e = MapEmpty /\ map_e.key = NoKey /\ map_old = MapSlots(0)
  BY <1>1 DEF MapControl, Inserting, MapEmpty
<1>3. MapPending = {}
  <2>1. DOMAIN MapSlots(0) = {}
    BY DEF MapSlots
  <2> QED BY <1>2, <2>1 DEF MapPending
<1>4. \A x \in MapTaken : map_slots[x].key # NoKey
  BY <1>1, MapTakenIn, MapSlotFacts
<1>5. NoKey \notin ClKeys
  BY ClAssumption
<1> QED BY <1>1, <1>2, <1>3, <1>4, <1>5 DEF MapContent

LEMMA MapAgreesNow ==
  ASSUME MapInv, cl_at = "idle"
  PROVE  MapProbesEnd /\ MapAgrees
<1>1. MapType /\ MapCount /\ MapProbesEnd
  BY MapRoomLeft DEF MapInv
<1>2. SUFFICES ASSUME ~map_broken
               PROVE  /\ \A k \in ClKeys : MapGet(k) = map_spec[k]
                      /\ map_size = Cardinality({k \in ClKeys : map_spec[k] # 0})
  BY <1>1 DEF MapAgrees
<1>3. MapTable /\ MapControl
  BY <1>2 DEF MapInv
<1>4. ASSUME NEW k \in ClKeys PROVE MapGet(k) = map_spec[k]
  <2>1. CASE \E x \in MapTaken : map_slots[x].key = k
    <3>1. PICK x \in MapTaken : map_slots[x].key = k
      BY <2>1
    <3>2. Stop(k) = x /\ MapHas(k)
      BY <1>1, <1>3, <3>1, MapFound
    <3> QED BY <1>2, <3>1, <3>2, MapHoldsSpec DEF MapGet
  <2>2. CASE \A x \in MapTaken : map_slots[x].key # k
    <3>1. ~MapHas(k)
      BY <1>1, <2>2, MapAbsent
    <3>2. map_spec[k] = 0
      BY <1>2, <2>2, MapHoldsSpec
    <3> QED BY <3>1, <3>2 DEF MapGet
  <2> QED BY <2>1, <2>2
<1>5. map_size = Cardinality({k \in ClKeys : map_spec[k] # 0})
  <2> DEFINE Keys == {k \in ClKeys : map_spec[k] # 0}
             f == [x \in MapTaken |-> map_slots[x].key]
  <2>1. \A x \in MapTaken : map_slots[x].key \in Keys
    <3>1. \A x \in MapTaken : map_slots[x].key \in ClKeys /\ map_slots[x].val \in ClVals
      BY <1>1, MapTakenIn, MapSlotFacts
    <3> QED BY <1>2, <3>1, MapHoldsSpec, ClAssumption
  <2>2. \A x, y \in MapTaken : map_slots[x].key = map_slots[y].key => x = y
    BY <1>3 DEF MapTable
  <2>3. \A k \in Keys : \E x \in MapTaken : map_slots[x].key = k
    BY <1>2, MapHoldsSpec
  <2> HIDE DEF Keys
  <2>4. f \in Bijection(MapTaken, Keys)
    <3>1. f \in [MapTaken -> Keys] /\ \A x \in MapTaken : f[x] = map_slots[x].key
      BY <2>1
    <3> HIDE DEF f
    <3>2. f \in Injection(MapTaken, Keys)
      BY <2>2, <3>1 DEF Injection, IsInjective
    <3>3. f \in Surjection(MapTaken, Keys)
      BY <2>3, <3>1, Zenon DEF Surjection
    <3> QED BY <3>2, <3>3 DEF Bijection
  <2>5. IsFiniteSet(MapTaken)
    <3>1. MapTaken \subseteq 0 .. map_cap - 1 /\ map_cap - 1 \in Int
      BY <1>1, MapCapFacts DEF MapTaken
    <3>2. IsFiniteSet(0 .. map_cap - 1)
      BY <3>1, FS_Interval
    <3> QED BY <3>1, <3>2, FS_Subset
  <2>6. Cardinality(MapTaken) = Cardinality(Keys)
    <3>1. ExistsBijection(MapTaken, Keys)
      BY <2>4 DEF ExistsBijection
    <3> QED BY <2>5, <3>1, FS_Bijection
  <2>7. Cardinality(MapTaken) = map_size
    <3>1. map_old = MapSlots(0)
      BY <1>3 DEF MapControl
    <3>2. MapPending = {}
      <4>1. DOMAIN MapSlots(0) = {}
        BY DEF MapSlots
      <4> QED BY <3>1, <4>1 DEF MapPending
    <3>3. Cardinality(MapPending) = 0
      BY <3>2, FS_EmptySet
    <3>4. Cardinality(MapTaken) + Cardinality(MapPending) + 0 = map_size
      BY <1>1, <1>2 DEF MapCount
    <3>5. Cardinality(MapTaken) \in Nat
      BY <2>5, FS_CardinalityType
    <3> QED BY <3>3, <3>4, <3>5
  <2> QED BY <2>6, <2>7 DEF Keys
<1> QED BY <1>4, <1>5

-----------------------------------------------------------------------------
(* Containers: the steps of map_insert_raw.                                 *)

LEMMA MapFinite ==
  ASSUME MapType
  PROVE  /\ IsFiniteSet(MapTaken) /\ Cardinality(MapTaken) \in Nat
         /\ IsFiniteSet(MapPending) /\ Cardinality(MapPending) \in Nat
<1>1. map_cap \in Nat /\ MapTaken \subseteq 0 .. map_cap - 1
  BY MapCapFacts DEF MapTaken
<1>2. IsFiniteSet(0 .. map_cap - 1)
  BY <1>1, FS_Interval
<1>3. PICK n \in 0 .. map_cap : map_old \in [0 .. n - 1 -> MapSlot]
  BY DEF MapType
<1>4. n - 1 \in Int /\ MapPending \subseteq 0 .. n - 1
  BY <1>1, <1>3 DEF MapPending
<1>5. IsFiniteSet(0 .. n - 1)
  BY <1>4, FS_Interval
<1>6. IsFiniteSet(MapTaken) /\ IsFiniteSet(MapPending)
  BY <1>1, <1>2, <1>4, <1>5, FS_Subset
<1> QED BY <1>6, FS_CardinalityType

(* The table of the next state, while hash and capacity stay. *)
LEMMA MapTableNext ==
  ASSUME map_hash' = map_hash, map_cap' = map_cap
  PROVE  MapTable' <=>
           /\ \A x \in MapTaken' : x = Probe(map_slots'[x].key, map_slots'[x].dib)
           /\ \A x \in DOMAIN map_slots' :
                map_slots'[MapNext(x)].dib > 0 => x \in MapTaken' /\ map_slots'[MapNext(x)].dib <= map_slots'[x].dib + 1
           /\ \A x, y \in MapTaken' : map_slots'[x].key = map_slots'[y].key => x = y
BY DEF MapTable, Probe, MapNext

LEMMA MapHandNext ==
  ASSUME map_hash' = map_hash, map_cap' = map_cap
  PROVE  MapHand' <=>
           (map_e' # MapEmpty =>
             /\ map_idx' = Probe(map_e'.key, map_e'.dib)
             /\ \A x \in DOMAIN map_slots' :
                  MapNext(x) = map_idx' /\ map_e'.dib > 0 => x \in MapTaken' /\ map_e'.dib <= map_slots'[x].dib + 1
             /\ \A x \in MapTaken' : map_slots'[x].key = map_e'.key => cl_at' = "insert" /\ map_e'.dib <= map_slots'[x].dib)
BY DEF MapHand, Probe, MapNext

LEMMA MapHandFacts ==
  ASSUME MapType, MapControl, Inserting
  PROVE  /\ map_e # MapEmpty /\ map_e \in MapEntries
         /\ map_e.key \in ClKeys /\ map_e.val \in ClVals /\ map_e.dib \in Nat /\ map_e.key # NoKey
         /\ map_idx \in 0 .. map_cap - 1
BY ClAssumption DEF MapType, MapControl, MapSlot, MapEntries

(* Where the entry in hand may be put down, its key is not in the table. *)
LEMMA MapHandNew ==
  ASSUME MapType, MapControl, Inserting, MapTable, MapHand,
         map_slots[map_idx] = MapEmpty \/ map_slots[map_idx].dib < map_e.dib,
         NEW x \in MapTaken
  PROVE  map_slots[x].key # map_e.key
<1>1. SUFFICES ASSUME map_slots[x].key = map_e.key PROVE FALSE
  OBVIOUS
<1>2. map_e # MapEmpty /\ map_e.dib \in Nat /\ map_idx \in 0 .. map_cap - 1
  BY MapHandFacts
<1>3. map_idx = Probe(map_slots[x].key, map_e.dib) /\ map_e.dib <= map_slots[x].dib
  BY <1>1, <1>2 DEF MapHand
<1>4. map_slots[x].dib \in Nat
  BY MapTakenIn, MapSlotFacts
<1>5. map_e.dib \in 0 .. map_slots[x].dib
  BY <1>2, <1>3, <1>4
<1>6. map_slots[map_idx] # MapEmpty /\ map_slots[map_idx].dib >= map_e.dib
  BY <1>3, <1>5, MapChain
<1>7. map_slots[map_idx].dib \in Nat
  BY <1>2, MapSlotFacts
<1> QED BY <1>2, <1>6, <1>7

LEMMA InsertFreeTable ==
  ASSUME MapInv, InsertFree, ~map_broken
  PROVE  MapTable' /\ MapHand' /\ MapContent'
<1>1. MapType /\ MapControl /\ MapTable /\ MapHand /\ MapContent /\ Inserting
  BY DEF MapInv, InsertFree
<1>2. /\ map_hash' = map_hash /\ map_cap' = map_cap /\ map_spec' = map_spec
      /\ map_old' = map_old /\ map_i' = map_i /\ map_e' = MapEmpty /\ map_idx' = 0
      /\ map_slots' = [map_slots EXCEPT ![map_idx] = map_e] /\ map_slots[map_idx] = MapEmpty
  BY DEF InsertFree, InsertReturns, growVars
<1>3. /\ map_e # MapEmpty /\ map_e.key \in ClKeys /\ map_e.val \in ClVals /\ map_e.dib \in Nat
      /\ map_idx \in 0 .. map_cap - 1
  BY <1>1, MapHandFacts
<1>4. /\ DOMAIN map_slots' = 0 .. map_cap - 1 /\ DOMAIN map_slots = 0 .. map_cap - 1
      /\ map_slots'[map_idx] = map_e
      /\ \A x \in 0 .. map_cap - 1 : x # map_idx => map_slots'[x] = map_slots[x]
  BY <1>1, <1>2, <1>3, MapCapFacts
<1>5. MapTaken' = MapTaken \cup {map_idx} /\ MapPending' = MapPending /\ map_idx \notin MapTaken
  <2>1. MapTaken' = MapTaken \cup {map_idx}
    BY <1>2, <1>3, <1>4 DEF MapTaken
  <2> QED BY <1>2, <2>1 DEF MapTaken, MapPending
<1>6. \A x \in MapTaken : x \in 0 .. map_cap - 1 /\ x # map_idx /\ map_slots'[x] = map_slots[x] /\ map_slots[x].key # map_e.key
  BY <1>1, <1>2, <1>4, <1>5, MapTakenIn, MapHandNew
<1>7. \A x \in MapTaken' : x = Probe(map_slots'[x].key, map_slots'[x].dib)
  BY <1>1, <1>3, <1>4, <1>5, <1>6 DEF MapTable, MapHand
<1>8. ASSUME NEW x \in 0 .. map_cap - 1, map_slots'[MapNext(x)].dib > 0
      PROVE  x \in MapTaken' /\ map_slots'[MapNext(x)].dib <= map_slots'[x].dib + 1
  <2>1. MapNext(x) \in 0 .. map_cap - 1 /\ MapNext(x) # x
    BY <1>1, MapNextFacts, MapNextDistinct
  <2>2. CASE MapNext(x) = map_idx
    <3>1. x \in MapTaken /\ map_e.dib <= map_slots[x].dib + 1
      BY <1>1, <1>3, <1>4, <1>8, <2>2 DEF MapHand
    <3> QED BY <1>4, <1>5, <1>6, <2>2, <3>1
  <2>3. CASE MapNext(x) # map_idx
    <3>1. map_slots'[MapNext(x)] = map_slots[MapNext(x)]
      BY <1>4, <2>1, <2>3
    <3>2. x \in MapTaken /\ map_slots[MapNext(x)].dib <= map_slots[x].dib + 1
      BY <1>1, <1>4, <1>8, <3>1 DEF MapTable
    <3> QED BY <1>5, <1>6, <3>1, <3>2
  <2> QED BY <2>2, <2>3
<1>9. \A x, y \in MapTaken' : map_slots'[x].key = map_slots'[y].key => x = y
  BY <1>1, <1>4, <1>5, <1>6 DEF MapTable
<1>10. MapTable'
  BY <1>2, <1>4, <1>7, <1>8, <1>9, MapTableNext
<1>11. MapHand'
  BY <1>2, MapHandNext
<1>12. MapContent'
  <2>1. map_e'.key = NoKey /\ NoKey \notin ClKeys
    BY <1>2, ClAssumption DEF MapEmpty
  <2>2. \A x \in MapTaken' : map_spec'[map_slots'[x].key] = map_slots'[x].val
    BY <1>1, <1>2, <1>3, <1>4, <1>5, <1>6 DEF MapContent
  <2>3. ASSUME NEW j \in MapPending
        PROVE  /\ map_spec[map_old[j].key] = map_old[j].val /\ map_old[j].key # NoKey
               /\ \A x \in MapTaken' : map_slots'[x].key # map_old[j].key
    <3>1. map_old[j].key # NoKey
      <4>1. map_old[j] \in MapSlot /\ map_old[j] # MapEmpty
        BY <1>1 DEF MapPending, MapType
      <4> QED BY <4>1, ClAssumption DEF MapSlot, MapEntries
    <3> QED BY <1>1, <1>4, <1>5, <1>6, <3>1 DEF MapContent
  <2>4. \A j, l \in MapPending : map_old[j].key = map_old[l].key => j = l
    BY <1>1 DEF MapContent
  <2>5. ASSUME NEW k \in ClKeys, map_spec[k] # 0
        PROVE  (\E x \in MapTaken' : map_slots'[x].key = k) \/ (\E j \in MapPending : map_old[j].key = k)
    <3>1. \/ \E x \in MapTaken : map_slots[x].key = k
          \/ map_e.key = k
          \/ \E j \in MapPending : map_old[j].key = k
      BY <1>1, <2>5 DEF MapContent
    <3> QED BY <1>4, <1>5, <1>6, <3>1
  <2> QED BY <1>2, <1>5, <2>1, <2>2, <2>3, <2>4, <2>5 DEF MapContent
<1> QED BY <1>10, <1>11, <1>12

LEMMA InsertSameTable ==
  ASSUME MapInv, InsertSame, ~map_broken
  PROVE  MapTable' /\ MapHand' /\ MapContent' /\ cl_at = "insert"
<1>1. MapType /\ MapControl /\ MapTable /\ MapHand /\ MapContent /\ Inserting
  BY DEF MapInv, InsertSame
<1>2. /\ map_hash' = map_hash /\ map_cap' = map_cap /\ map_spec' = map_spec
      /\ map_old' = map_old /\ map_i' = map_i /\ map_e' = MapEmpty /\ map_idx' = 0
      /\ map_slots' = [map_slots EXCEPT ![map_idx] = [@ EXCEPT !.val = map_e.val]]
      /\ map_slots[map_idx] # MapEmpty /\ map_slots[map_idx].key = map_e.key
  BY DEF InsertSame, InsertReturns, growVars
<1>3. /\ map_e # MapEmpty /\ map_e.key \in ClKeys /\ map_e.val \in ClVals
      /\ map_idx \in 0 .. map_cap - 1 /\ map_idx \in MapTaken /\ map_slots[map_idx] \in MapEntries
  BY <1>1, <1>2, MapHandFacts, MapSlotFacts
<1>4. /\ DOMAIN map_slots' = 0 .. map_cap - 1 /\ DOMAIN map_slots = 0 .. map_cap - 1
      /\ \A x \in 0 .. map_cap - 1 : x # map_idx => map_slots'[x] = map_slots[x]
  BY <1>1, <1>2, <1>3, MapCapFacts
<1>5. map_slots'[map_idx] = [map_slots[map_idx] EXCEPT !.val = map_e.val]
  BY <1>2, <1>3, <1>4
<1>6. /\ map_slots'[map_idx].key = map_slots[map_idx].key /\ map_slots'[map_idx].dib = map_slots[map_idx].dib
      /\ map_slots'[map_idx].val = map_e.val
  BY <1>3, <1>5 DEF MapEntries
<1>7. map_slots'[map_idx] # MapEmpty
  <2>1. map_slots'[map_idx].key # NoKey
    BY <1>2, <1>3, <1>6, ClAssumption
  <2> QED BY <2>1 DEF MapEmpty
<1>8. \A x \in 0 .. map_cap - 1 : map_slots'[x].key = map_slots[x].key /\ map_slots'[x].dib = map_slots[x].dib
  BY <1>4, <1>6
<1>9. MapTaken' = MapTaken /\ MapPending' = MapPending
  <2>1. \A x \in 0 .. map_cap - 1 : map_slots'[x] # MapEmpty <=> map_slots[x] # MapEmpty
    BY <1>2, <1>4, <1>7
  <2>2. MapTaken' = MapTaken
    BY <1>4, <2>1 DEF MapTaken
  <2> QED BY <1>2, <2>2 DEF MapPending
<1>10. \A x \in MapTaken : x \in 0 .. map_cap - 1 /\ (map_slots[x].key = map_e.key => x = map_idx)
  BY <1>1, <1>2, <1>3, MapTakenIn DEF MapTable
<1>11. MapTable'
  <2>1. \A x \in DOMAIN map_slots' : MapNext(x) \in 0 .. map_cap - 1
    BY <1>1, <1>4, MapNextFacts
  <2>2. \A x \in MapTaken' : x = Probe(map_slots'[x].key, map_slots'[x].dib)
    BY <1>1, <1>8, <1>9, <1>10 DEF MapTable
  <2>3. \A x \in DOMAIN map_slots' :
          map_slots'[MapNext(x)].dib > 0 => x \in MapTaken' /\ map_slots'[MapNext(x)].dib <= map_slots'[x].dib + 1
    BY <1>1, <1>4, <1>8, <1>9, <2>1 DEF MapTable
  <2>4. \A x, y \in MapTaken' : map_slots'[x].key = map_slots'[y].key => x = y
    BY <1>1, <1>8, <1>9, <1>10 DEF MapTable
  <2> QED BY <1>2, <2>2, <2>3, <2>4, MapTableNext
<1>12. MapHand'
  BY <1>2, MapHandNext
<1>13. MapContent'
  <2>1. map_e'.key = NoKey /\ NoKey \notin ClKeys
    BY <1>2, ClAssumption DEF MapEmpty
  <2>2. \A x \in MapTaken' : map_spec'[map_slots'[x].key] = map_slots'[x].val
    BY <1>1, <1>2, <1>3, <1>4, <1>6, <1>8, <1>9, <1>10 DEF MapContent
  <2>3. ASSUME NEW j \in MapPending
        PROVE  /\ map_spec[map_old[j].key] = map_old[j].val /\ map_old[j].key # NoKey
               /\ \A x \in MapTaken' : map_slots'[x].key # map_old[j].key
    <3>1. map_old[j].key # NoKey
      <4>1. map_old[j] \in MapSlot /\ map_old[j] # MapEmpty
        BY <1>1 DEF MapPending, MapType
      <4> QED BY <4>1, ClAssumption DEF MapSlot, MapEntries
    <3> QED BY <1>1, <1>8, <1>9, <1>10, <3>1 DEF MapContent
  <2>4. \A j, l \in MapPending : map_old[j].key = map_old[l].key => j = l
    BY <1>1 DEF MapContent
  <2>5. ASSUME NEW k \in ClKeys, map_spec[k] # 0
        PROVE  (\E x \in MapTaken' : map_slots'[x].key = k) \/ (\E j \in MapPending : map_old[j].key = k)
    <3>1. \/ \E x \in MapTaken : map_slots[x].key = k
          \/ map_e.key = k
          \/ \E j \in MapPending : map_old[j].key = k
      BY <1>1, <2>5 DEF MapContent
    <3> QED BY <1>2, <1>3, <1>8, <1>9, <1>10, <3>1
  <2> QED BY <1>2, <1>9, <2>1, <2>2, <2>3, <2>4, <2>5 DEF MapContent
<1>14. cl_at = "insert"
  BY <1>1, <1>2, <1>3 DEF MapHand
<1> QED BY <1>11, <1>12, <1>13, <1>14

(* What an iteration that goes on does, in both of its cases. *)
LEMMA InsertCarryFacts ==
  ASSUME MapInv, InsertCarry
  PROVE  /\ MapType /\ MapControl /\ Inserting
         /\ map_hash' = map_hash /\ map_cap' = map_cap /\ map_spec' = map_spec /\ map_old' = map_old /\ map_i' = map_i
         /\ cl_at' = cl_at /\ map_size' = map_size /\ map_broken' = map_broken /\ map_put' = map_put
         /\ map_want' = map_want /\ map_target' = map_target
         /\ map_e \in MapEntries /\ map_idx \in MapTaken /\ map_idx \in 0 .. map_cap - 1
         /\ map_slots[map_idx] \in MapEntries /\ map_slots[map_idx].key # map_e.key
         /\ map_idx' = MapNext(map_idx)
         /\ map_e' \in MapEntries /\ map_e' # MapEmpty
         /\ \/ /\ map_slots[map_idx].dib < map_e.dib
               /\ map_slots' = [map_slots EXCEPT ![map_idx] = map_e]
               /\ map_e'.key = map_slots[map_idx].key /\ map_e'.val = map_slots[map_idx].val
               /\ map_e'.dib = map_slots[map_idx].dib + 1
            \/ /\ map_slots[map_idx].dib >= map_e.dib
               /\ map_slots' = map_slots
               /\ map_e'.key = map_e.key /\ map_e'.val = map_e.val /\ map_e'.dib = map_e.dib + 1
         /\ MapTaken' = MapTaken /\ MapPending' = MapPending
<1>1. MapType /\ MapControl /\ Inserting
  BY DEF MapInv, InsertCarry
<1>2. /\ map_hash' = map_hash /\ map_cap' = map_cap /\ map_spec' = map_spec /\ map_old' = map_old /\ map_i' = map_i
      /\ cl_at' = cl_at /\ map_size' = map_size /\ map_broken' = map_broken /\ map_put' = map_put
      /\ map_want' = map_want /\ map_target' = map_target
      /\ map_idx' = MapNext(map_idx) /\ map_slots[map_idx] # MapEmpty /\ map_slots[map_idx].key # map_e.key
  BY DEF InsertCarry, MapNext, growVars, reserveVars
<1>3. /\ map_e # MapEmpty /\ map_e \in MapEntries /\ map_idx \in 0 .. map_cap - 1
      /\ map_idx \in MapTaken /\ map_slots[map_idx] \in MapEntries
  BY <1>1, <1>2, MapHandFacts, MapSlotFacts
<1>4. ASSUME NEW e \in MapEntries
      PROVE  LET f == [e EXCEPT !.dib = @ + 1]
             IN f \in MapEntries /\ f # MapEmpty /\ f.key = e.key /\ f.val = e.val /\ f.dib = e.dib + 1
  <2> DEFINE f == [e EXCEPT !.dib = @ + 1]
  <2>1. f \in MapEntries /\ f.key = e.key /\ f.val = e.val /\ f.dib = e.dib + 1 /\ e.key \in ClKeys
    BY DEF MapEntries
  <2> HIDE DEF f
  <2>2. f # MapEmpty
    BY <2>1, ClAssumption DEF MapEmpty
  <2> QED BY <2>1, <2>2 DEF f
<1>5. map_e.dib \in Nat /\ map_slots[map_idx].dib \in Nat
  BY <1>3 DEF MapEntries
<1>6. CASE map_slots[map_idx].dib < map_e.dib
  <2>1. /\ map_slots' = [map_slots EXCEPT ![map_idx] = map_e]
        /\ map_e' = [map_slots[map_idx] EXCEPT !.dib = @ + 1]
    BY <1>6 DEF InsertCarry
  <2>2. DOMAIN map_slots' = DOMAIN map_slots /\ map_slots'[map_idx] = map_e
        /\ \A x \in DOMAIN map_slots : x # map_idx => map_slots'[x] = map_slots[x]
    BY <1>1, <1>3, <2>1, MapCapFacts
  <2>3. MapTaken' = MapTaken
    BY <1>2, <1>3, <2>2 DEF MapTaken
  <2> QED BY <1>1, <1>2, <1>3, <1>4, <1>6, <2>1, <2>3 DEF MapPending
<1>7. CASE ~(map_slots[map_idx].dib < map_e.dib)
  <2>1. map_slots' = map_slots /\ map_e' = [map_e EXCEPT !.dib = @ + 1]
    BY <1>7 DEF InsertCarry
  <2> QED BY <1>1, <1>2, <1>3, <1>4, <1>5, <1>7, <2>1 DEF MapPending, MapTaken
<1> QED BY <1>6, <1>7

LEMMA InsertCarryTable ==
  ASSUME MapInv, InsertCarry, ~map_broken
  PROVE  MapTable' /\ MapHand' /\ MapContent'
<1>1. MapTable /\ MapHand /\ MapContent
  BY DEF MapInv
<1>2. MapType /\ MapControl /\ Inserting /\ map_e # MapEmpty /\ DOMAIN map_slots = 0 .. map_cap - 1
  BY InsertCarryFacts, MapHandFacts, MapCapFacts
<1>3. /\ map_hash' = map_hash /\ map_cap' = map_cap /\ map_spec' = map_spec /\ map_old' = map_old /\ map_i' = map_i
      /\ cl_at' = cl_at /\ map_idx \in MapTaken /\ map_idx \in 0 .. map_cap - 1
      /\ map_slots[map_idx].key # map_e.key /\ map_idx' = MapNext(map_idx)
      /\ map_e' # MapEmpty /\ MapTaken' = MapTaken /\ MapPending' = MapPending
  BY InsertCarryFacts
<1>4. /\ map_e.key \in ClKeys /\ map_e.dib \in Nat /\ map_e'.dib \in Nat
      /\ map_slots[map_idx].key \in ClKeys /\ map_slots[map_idx].dib \in Nat
  BY InsertCarryFacts DEF MapEntries
<1>5. map_idx = Probe(map_e.key, map_e.dib) /\ map_idx = Probe(map_slots[map_idx].key, map_slots[map_idx].dib)
  BY <1>1, <1>2, <1>3 DEF MapHand, MapTable
<1>6. \A x \in 0 .. map_cap - 1 : MapNext(x) = map_idx' => x = map_idx
  BY <1>2, <1>3, MapNextDistinct
<1>7. \A x \in MapTaken : x \in 0 .. map_cap - 1
  BY <1>2, MapTakenIn
<1>8. CASE /\ map_slots[map_idx].dib < map_e.dib
           /\ map_slots' = [map_slots EXCEPT ![map_idx] = map_e]
           /\ map_e'.key = map_slots[map_idx].key /\ map_e'.val = map_slots[map_idx].val
           /\ map_e'.dib = map_slots[map_idx].dib + 1
  <2>1. /\ DOMAIN map_slots' = 0 .. map_cap - 1 /\ map_slots'[map_idx] = map_e
        /\ \A x \in 0 .. map_cap - 1 : x # map_idx => map_slots'[x] = map_slots[x]
    BY <1>2, <1>3, <1>8
  <2>2. \A x \in MapTaken : map_slots[x].key # map_e.key
    BY <1>1, <1>2, <1>8, MapHandNew
  <2>3. \A x \in MapTaken' : x = Probe(map_slots'[x].key, map_slots'[x].dib)
    BY <1>1, <1>3, <1>5, <1>7, <2>1 DEF MapTable
  <2>4. ASSUME NEW x \in 0 .. map_cap - 1, map_slots'[MapNext(x)].dib > 0
        PROVE  x \in MapTaken' /\ map_slots'[MapNext(x)].dib <= map_slots'[x].dib + 1
    <3>1. MapNext(x) \in 0 .. map_cap - 1 /\ MapNext(x) # x
      BY <1>2, MapNextFacts, MapNextDistinct
    <3>2. CASE MapNext(x) = map_idx
      <4>1. x \in MapTaken /\ map_e.dib <= map_slots[x].dib + 1
        BY <1>1, <1>2, <2>1, <2>4, <3>2 DEF MapHand
      <4> QED BY <1>3, <2>1, <3>1, <3>2, <4>1
    <3>3. CASE MapNext(x) # map_idx
      <4>1. map_slots'[MapNext(x)] = map_slots[MapNext(x)]
        BY <2>1, <3>1, <3>3
      <4>2. x \in MapTaken /\ map_slots[MapNext(x)].dib <= map_slots[x].dib + 1
        BY <1>1, <1>2, <2>4, <4>1 DEF MapTable
      <4>3. map_slots[MapNext(x)].dib \in Nat
        BY <1>2, <3>1, MapSlotFacts
      <4>4. CASE x = map_idx
        BY <1>3, <1>4, <1>8, <2>1, <4>1, <4>2, <4>3, <4>4
      <4>5. CASE x # map_idx
        BY <1>3, <2>1, <4>1, <4>2, <4>5
      <4> QED BY <4>4, <4>5
    <3> QED BY <3>2, <3>3
  <2>5. \A x, y \in MapTaken' : map_slots'[x].key = map_slots'[y].key => x = y
    BY <1>1, <1>3, <1>7, <2>1, <2>2 DEF MapTable
  <2>6. MapTable'
    BY <1>3, <2>1, <2>3, <2>4, <2>5, MapTableNext
  <2>7. MapHand'
    <3>1. map_idx' = Probe(map_e'.key, map_e'.dib)
      BY <1>2, <1>3, <1>4, <1>5, <1>8, ProbeFacts
    <3>2. map_e'.dib <= map_e.dib + 1
      BY <1>4, <1>8
    <3>3. \A x \in MapTaken : map_slots'[x].key # map_e'.key
      BY <1>1, <1>3, <1>7, <1>8, <2>1 DEF MapTable
    <3> QED BY <1>3, <1>6, <2>1, <3>1, <3>2, <3>3, MapHandNext
  <2>8. MapContent'
    <3>1. ASSUME NEW x \in MapTaken PROVE map_spec[map_slots'[x].key] = map_slots'[x].val
      BY <1>1, <1>2, <1>7, <2>1, <2>2, <3>1 DEF MapContent
    <3>2. map_spec[map_e'.key] = map_e'.val
      BY <1>1, <1>3, <1>8 DEF MapContent
    <3>3. ASSUME NEW j \in MapPending
          PROVE  /\ map_spec[map_old[j].key] = map_old[j].val /\ map_old[j].key # map_e'.key
                 /\ \A x \in MapTaken : map_slots'[x].key # map_old[j].key
      BY <1>1, <1>3, <1>7, <1>8, <2>1 DEF MapContent
    <3>4. \A j, l \in MapPending : map_old[j].key = map_old[l].key => j = l
      BY <1>1 DEF MapContent
    <3>5. ASSUME NEW k \in ClKeys, map_spec[k] # 0
          PROVE  \/ \E x \in MapTaken : map_slots'[x].key = k
                 \/ map_e'.key = k
                 \/ \E j \in MapPending : map_old[j].key = k
      <4>1. \/ \E x \in MapTaken : map_slots[x].key = k
            \/ map_e.key = k
            \/ \E j \in MapPending : map_old[j].key = k
        BY <1>1, <3>5 DEF MapContent
      <4> QED BY <1>3, <1>7, <1>8, <2>1, <4>1
    <3> QED BY <1>3, <3>1, <3>2, <3>3, <3>4, <3>5 DEF MapContent
  <2> QED BY <2>6, <2>7, <2>8
<1>9. CASE /\ map_slots[map_idx].dib >= map_e.dib
           /\ map_slots' = map_slots
           /\ map_e'.key = map_e.key /\ map_e'.val = map_e.val /\ map_e'.dib = map_e.dib + 1
  <2>1. MapTable'
    BY <1>1, <1>3, <1>9, MapTableNext DEF MapTable
  <2>2. MapHand'
    <3>1. map_idx' = Probe(map_e'.key, map_e'.dib)
      BY <1>2, <1>3, <1>4, <1>5, <1>9, ProbeFacts
    <3>2. map_e'.dib <= map_slots[map_idx].dib + 1
      BY <1>4, <1>9
    <3>3. ASSUME NEW x \in MapTaken, map_slots[x].key = map_e.key
          PROVE  cl_at = "insert" /\ map_e'.dib <= map_slots[x].dib
      <4>1. cl_at = "insert" /\ map_e.dib <= map_slots[x].dib
        BY <1>1, <1>2, <3>3 DEF MapHand
      <4>2. map_slots[x].dib \in Nat /\ x = Probe(map_slots[x].key, map_slots[x].dib)
        BY <1>1, <1>2, <1>7, MapSlotFacts DEF MapTable
      <4>3. map_e.dib # map_slots[x].dib
        BY <1>3, <1>5, <3>3, <4>2
      <4> QED BY <1>4, <1>9, <4>1, <4>2, <4>3
    <3> QED BY <1>2, <1>3, <1>6, <1>9, <3>1, <3>2, <3>3, MapHandNext
  <2>3. MapContent'
    BY <1>1, <1>2, <1>3, <1>9 DEF MapContent
  <2> QED BY <2>1, <2>2, <2>3
<1> QED BY <1>8, <1>9, InsertCarryFacts

LEMMA InsertFreeStep ==
  ASSUME MapInv, InsertFree
  PROVE  MapInv'
<1>1. MapType /\ MapControl /\ MapCount /\ Inserting
  BY DEF MapInv, InsertFree
<1>2. /\ map_hash' = map_hash /\ map_cap' = map_cap /\ map_spec' = map_spec /\ map_broken' = map_broken
      /\ map_old' = map_old /\ map_i' = map_i /\ map_put' = map_put /\ map_want' = map_want /\ map_target' = map_target
      /\ map_e' = MapEmpty /\ map_idx' = 0
      /\ map_slots' = [map_slots EXCEPT ![map_idx] = map_e] /\ map_slots[map_idx] = MapEmpty
      /\ cl_at' = IF cl_at = "insert" THEN "idle" ELSE "rehash"
      /\ map_size' = IF cl_at = "insert" THEN map_size + 1 ELSE map_size
  BY DEF InsertFree, InsertReturns, growVars, reserveVars
<1>3. map_e # MapEmpty /\ map_e \in MapSlot /\ map_idx \in 0 .. map_cap - 1
  BY <1>1, MapHandFacts DEF MapSlot
<1>4. MapType'
  <2>1. map_slots' \in [0 .. map_cap - 1 -> MapSlot]
    BY <1>1, <1>2, <1>3 DEF MapType
  <2>2. map_size' \in Nat /\ map_idx' \in 0 .. map_cap - 1 /\ map_e' \in MapSlot
    BY <1>1, <1>2, MapCapFacts DEF MapType, MapSlot
  <2> QED BY <1>1, <1>2, <2>1, <2>2 DEF MapType
<1>5. MapControl'
  BY <1>1, <1>2 DEF MapControl, Inserting
<1>6. MapCount'
  <2>1. MapTaken' = MapTaken \cup {map_idx} /\ map_idx \notin MapTaken /\ MapPending' = MapPending
    BY <1>1, <1>2, <1>3, MapCapFacts DEF MapTaken, MapPending
  <2> DEFINE t == Cardinality(MapTaken)
             p == Cardinality(MapPending)
  <2>2. IsFiniteSet(MapTaken) /\ t \in Nat /\ p \in Nat
    BY <1>1, MapFinite
  <2>3. Cardinality(MapTaken') = t + 1 /\ Cardinality(MapPending') = p
    BY <2>1, <2>2, FS_AddElement
  <2>4. map_size \in Nat /\ map_cap \in Nat
    BY <1>1 DEF MapType
  <2>5. CASE cl_at = "insert"
    <3>1. t + p + 0 <= map_size /\ (~map_broken => t + p + 0 = map_size) /\ map_size + 1 < map_cap
      BY <1>1, <2>5 DEF MapCount
    <3>2. map_put = NoPut
      BY <1>1, <2>5 DEF MapControl
    <3> HIDE DEF t, p
    <3>3. (t + 1) + p + 0 <= map_size + 1 /\ (~map_broken => (t + 1) + p + 0 = map_size + 1)
      BY <2>2, <2>4, <3>1
    <3> QED BY <1>2, <2>3, <2>5, <3>1, <3>2, <3>3 DEF MapCount
  <2>6. CASE cl_at = "reinsert"
    <3>1. t + p + 1 <= map_size /\ (~map_broken => t + p + 1 = map_size) /\ map_size < map_cap
      BY <1>1, <2>6 DEF MapCount
    <3>2. map_put # NoPut => map_size + 1 < map_cap
      BY <1>1 DEF MapCount
    <3> HIDE DEF t, p
    <3>3. (t + 1) + p + 0 <= map_size /\ (~map_broken => (t + 1) + p + 0 = map_size)
      BY <2>2, <2>4, <3>1
    <3> QED BY <1>2, <2>3, <2>6, <3>1, <3>2, <3>3 DEF MapCount
  <2> QED BY <1>1, <2>5, <2>6 DEF Inserting
<1>7. ~map_broken' => MapTable' /\ MapHand' /\ MapContent'
  BY <1>2, InsertFreeTable
<1> QED BY <1>4, <1>5, <1>6, <1>7 DEF MapInv

LEMMA InsertSameStep ==
  ASSUME MapInv, InsertSame
  PROVE  MapInv'
<1>1. MapType /\ MapControl /\ MapCount /\ Inserting
  BY DEF MapInv, InsertSame
<1>2. /\ map_hash' = map_hash /\ map_cap' = map_cap /\ map_spec' = map_spec /\ map_broken' = map_broken
      /\ map_old' = map_old /\ map_i' = map_i /\ map_put' = map_put /\ map_want' = map_want /\ map_target' = map_target
      /\ map_e' = MapEmpty /\ map_idx' = 0
      /\ map_slots' = [map_slots EXCEPT ![map_idx] = [@ EXCEPT !.val = map_e.val]]
      /\ map_slots[map_idx] # MapEmpty
      /\ cl_at' = IF cl_at = "insert" THEN "idle" ELSE "rehash"
      /\ map_size' = IF cl_at = "insert" THEN map_size + 0 ELSE map_size
  BY DEF InsertSame, InsertReturns, growVars, reserveVars
<1>3. map_size' = map_size /\ map_size \in Nat /\ map_cap \in Nat
  BY <1>1, <1>2 DEF MapType
<1>4. map_e.val \in ClVals /\ map_idx \in 0 .. map_cap - 1 /\ map_slots[map_idx] \in MapEntries
  BY <1>1, <1>2, MapHandFacts, MapSlotFacts
<1> DEFINE s == [map_slots[map_idx] EXCEPT !.val = map_e.val]
<1>5. s \in MapEntries /\ s # MapEmpty
  <2>1. s \in MapEntries /\ s.key \in ClKeys
    BY <1>4 DEF MapEntries
  <2> HIDE DEF s
  <2> QED BY <2>1, ClAssumption DEF MapEmpty
<1>6. map_slots' = [map_slots EXCEPT ![map_idx] = s]
  BY <1>1, <1>2, <1>4, MapCapFacts
<1> HIDE DEF s
<1>7. MapType'
  <2>1. map_slots' \in [0 .. map_cap - 1 -> MapSlot]
    BY <1>1, <1>4, <1>5, <1>6 DEF MapType, MapSlot
  <2>2. map_idx' \in 0 .. map_cap - 1 /\ map_e' \in MapSlot
    BY <1>1, <1>2, MapCapFacts DEF MapSlot
  <2> QED BY <1>1, <1>2, <1>3, <2>1, <2>2 DEF MapType
<1>8. MapControl'
  BY <1>1, <1>2 DEF MapControl, Inserting
<1>9. MapCount'
  <2>1. MapTaken' = MapTaken /\ MapPending' = MapPending
    BY <1>1, <1>2, <1>4, <1>5, <1>6, MapCapFacts DEF MapTaken, MapPending
  <2> DEFINE n == Cardinality(MapTaken) + Cardinality(MapPending)
  <2>2. n \in Nat
    BY <1>1, MapFinite
  <2>3. CASE cl_at = "insert"
    <3>1. n + 0 <= map_size /\ (~map_broken => n + 0 = map_size) /\ map_size < map_cap
      BY <1>1, <2>3 DEF MapCount
    <3>2. map_put = NoPut
      BY <1>1, <2>3 DEF MapControl
    <3> QED BY <1>2, <1>3, <2>1, <2>3, <3>1, <3>2 DEF MapCount
  <2>4. CASE cl_at = "reinsert"
    <3>1. n + 1 <= map_size /\ map_size < map_cap /\ (map_put # NoPut => map_size + 1 < map_cap)
      BY <1>1, <2>4 DEF MapCount
    <3>2. map_broken
      BY <2>4, InsertSameTable
    <3>3. n + 0 <= map_size
      BY <1>3, <2>2, <3>1
    <3> QED BY <1>2, <1>3, <2>1, <2>4, <3>1, <3>2, <3>3 DEF MapCount
  <2> QED BY <1>1, <2>3, <2>4 DEF Inserting
<1>10. ~map_broken' => MapTable' /\ MapHand' /\ MapContent'
  BY <1>2, InsertSameTable
<1> QED BY <1>7, <1>8, <1>9, <1>10 DEF MapInv

LEMMA InsertCarryStep ==
  ASSUME MapInv, InsertCarry
  PROVE  MapInv'
<1>1. MapType /\ MapControl /\ MapCount /\ Inserting
  BY InsertCarryFacts DEF MapInv
<1>2. /\ map_hash' = map_hash /\ map_cap' = map_cap /\ map_spec' = map_spec /\ map_old' = map_old /\ map_i' = map_i
      /\ cl_at' = cl_at /\ map_size' = map_size /\ map_broken' = map_broken /\ map_put' = map_put
      /\ map_want' = map_want /\ map_target' = map_target
      /\ map_idx \in 0 .. map_cap - 1 /\ map_idx' = MapNext(map_idx) /\ map_e \in MapEntries
      /\ map_e' \in MapEntries /\ map_e' # MapEmpty /\ MapTaken' = MapTaken /\ MapPending' = MapPending
  BY InsertCarryFacts
<1>3. map_slots' = map_slots \/ map_slots' = [map_slots EXCEPT ![map_idx] = map_e]
  BY InsertCarryFacts
<1>4. map_slots' \in [0 .. map_cap - 1 -> MapSlot]
  BY <1>1, <1>2, <1>3 DEF MapType, MapSlot
<1>5. map_idx' \in 0 .. map_cap - 1
  BY <1>1, <1>2, MapNextFacts
<1>6. MapType'
  BY <1>1, <1>2, <1>4, <1>5 DEF MapType, MapSlot
<1>7. MapControl'
  BY <1>1, <1>2 DEF MapControl, Inserting
<1>8. MapCount'
  BY <1>1, <1>2 DEF MapCount
<1>9. ~map_broken' => MapTable' /\ MapHand' /\ MapContent'
  BY <1>2, InsertCarryTable
<1> QED BY <1>6, <1>7, <1>8, <1>9 DEF MapInv

-----------------------------------------------------------------------------
(* Containers: the other steps of the map.                                  *)

LEMMA MapQuiet ==
  ASSUME MapType, MapControl, ~Inserting, cl_at \notin {"rehash", "reinsert"}
  PROVE  map_e = MapEmpty /\ map_e.key = NoKey /\ MapPending = {} /\ Cardinality(MapPending) = 0 /\ map_put = NoPut
<1>1. map_e = MapEmpty /\ map_old = MapSlots(0) /\ map_put = NoPut
  BY DEF MapControl
<1>2. DOMAIN MapSlots(0) = {}
  BY DEF MapSlots
<1>3. MapPending = {}
  BY <1>1, <1>2 DEF MapPending
<1> QED BY <1>1, <1>3, FS_EmptySet DEF MapEmpty

(* Nothing happens to the map outside of its loops. *)
LEMMA MapFrame ==
  ASSUME MapInv, map_hash' = map_hash, map_slots' = map_slots, map_cap' = map_cap, map_size' = map_size,
         UNCHANGED growVars, UNCHANGED insertVars, map_spec' = map_spec, map_broken' = map_broken,
         map_want' \in Nat, map_target' \in Nat, cl_at' = "target" => map_target' >= ClMapCap,
         {cl_at, cl_at'} \subseteq {"idle", "target", "up", "down"}
  PROVE  MapInv'
<1>1. /\ map_old' = map_old /\ map_i' = map_i /\ map_put' = map_put /\ map_e' = map_e /\ map_idx' = map_idx
      /\ MapTaken' = MapTaken /\ MapPending' = MapPending
  BY DEF growVars, insertVars, MapTaken, MapPending
<1>2. MapType'
  BY <1>1 DEF MapInv, MapType
<1>3. MapControl'
  BY <1>1 DEF MapInv, MapControl, Inserting
<1>4. MapCount'
  BY <1>1 DEF MapInv, MapCount
<1>5. ASSUME ~map_broken' PROVE MapTable' /\ MapHand' /\ MapContent'
  <2>1. MapTable'
    BY <1>1, <1>5, MapTableNext DEF MapInv, MapTable
  <2>2. map_e' = MapEmpty
    BY <1>1 DEF MapInv, MapControl, Inserting
  <2>3. MapHand'
    BY <2>2, MapHandNext
  <2>4. MapContent'
    BY <1>1, <1>5 DEF MapInv, MapContent
  <2> QED BY <2>1, <2>3, <2>4
<1> QED BY <1>2, <1>3, <1>4, <1>5 DEF MapInv

(* An empty table. *)
LEMMA MapEmptyTable ==
  ASSUME map_cap' \in Nat \ {0}, map_slots' = MapSlots(map_cap'), map_e' = MapEmpty
  PROVE  /\ map_slots' \in [0 .. map_cap' - 1 -> MapSlot] /\ MapTaken' = {} /\ Cardinality(MapTaken') = 0
         /\ MapTable' /\ MapHand'
<1>1. map_slots' = [x \in 0 .. map_cap' - 1 |-> MapEmpty]
  BY DEF MapSlots
<1>2. map_slots' \in [0 .. map_cap' - 1 -> MapSlot] /\ MapTaken' = {}
  BY <1>1 DEF MapSlot, MapTaken
<1>3. Cardinality(MapTaken') = 0
  BY <1>2, FS_EmptySet
<1>4. ASSUME NEW x \in 0 .. map_cap' - 1 PROVE (x + 1) % map_cap' \in 0 .. map_cap' - 1
  <2>1. x + 1 \in Int
    OBVIOUS
  <2> QED BY <2>1, DivMod
<1>5. DOMAIN map_slots' = 0 .. map_cap' - 1 /\ \A x \in 0 .. map_cap' - 1 : map_slots'[x].dib = 0
  <2>1. MapEmpty.dib = 0
    BY DEF MapEmpty
  <2> QED BY <1>1, <2>1
<1>6. ASSUME NEW x \in DOMAIN map_slots' PROVE ~(map_slots'[(x + 1) % map_cap'].dib > 0)
  <2>1. (x + 1) % map_cap' \in 0 .. map_cap' - 1
    BY <1>4, <1>5
  <2>2. map_slots'[(x + 1) % map_cap'].dib = 0
    BY <1>5, <2>1
  <2> QED BY <2>2
<1>7. MapTable'
  BY <1>2, <1>6 DEF MapTable, MapNext
<1>8. MapHand'
  BY DEF MapHand
<1> QED BY <1>2, <1>3, <1>7, <1>8

LEMMA BeginRehashStep ==
  ASSUME MapInv, NEW cap \in Nat, cap > map_cap, NEW put \in {NoPut} \cup (ClKeys \X ClVals),
         put # NoPut => map_size + 1 < cap,
         BeginRehash(cap, put), cl_at \in {"idle", "target"},
         map_hash' = map_hash, map_size' = map_size, UNCHANGED insertVars, map_spec' = map_spec, map_broken' = map_broken,
         map_want' \in Nat, map_target' \in Nat
  PROVE  MapInv'
<1>1. MapType /\ MapControl /\ MapCount
  BY DEF MapInv
<1>2. /\ map_slots' = MapSlots(cap) /\ map_cap' = cap /\ map_old' = map_slots /\ map_i' = 0 /\ map_put' = put
      /\ cl_at' = "rehash" /\ map_e' = map_e /\ map_idx' = map_idx
  BY DEF BeginRehash, insertVars
<1>3. map_e = MapEmpty /\ map_e.key = NoKey /\ MapPending = {} /\ Cardinality(MapPending) = 0
  BY <1>1, MapQuiet DEF Inserting
<1>4. /\ map_cap \in Nat \ {0} /\ cap \in Nat \ {0} /\ map_size \in Nat
      /\ DOMAIN map_slots = 0 .. map_cap - 1 /\ map_cap >= ClMapCap /\ ClMapCap \in Nat
  BY <1>1, MapCapFacts, ClAssumption DEF MapType
<1>5. /\ map_slots' \in [0 .. cap - 1 -> MapSlot] /\ MapTaken' = {} /\ Cardinality(MapTaken') = 0
      /\ MapTable' /\ MapHand'
  BY <1>2, <1>3, <1>4, MapEmptyTable
<1>6. MapPending' = MapTaken
  BY <1>2, <1>4 DEF MapPending, MapTaken
<1>7. MapType'
  <2>1. map_cap \in 0 .. map_cap' /\ map_old' \in [0 .. map_cap - 1 -> MapSlot]
    BY <1>1, <1>2, <1>4 DEF MapType
  <2>2. map_cap' >= ClMapCap /\ map_idx' \in 0 .. map_cap' - 1
    BY <1>1, <1>2, <1>4 DEF MapType
  <2>3. \E n \in 0 .. map_cap' : map_old' \in [0 .. n - 1 -> MapSlot]
    BY <2>1
  <2> QED BY <1>1, <1>2, <1>5, <2>2, <2>3 DEF MapType
<1>8. MapControl'
  BY <1>2, <1>3 DEF MapControl, Inserting
<1>9. MapCount'
  <2> DEFINE t == Cardinality(MapTaken)
  <2>1. t \in Nat
    BY <1>1, MapFinite
  <2>2. t + 0 + 0 <= map_size /\ (~map_broken => t + 0 + 0 = map_size) /\ map_size < map_cap
    BY <1>1, <1>3 DEF MapCount
  <2>3. 0 + t + 0 = t + 0 + 0 /\ map_size < cap
    BY <1>4, <2>1, <2>2
  <2> QED BY <1>2, <1>5, <1>6, <2>2, <2>3 DEF MapCount
<1>10. ASSUME ~map_broken PROVE MapContent'
  <2>1. MapTable /\ MapContent
    BY <1>10 DEF MapInv
  <2>2. \A x \in MapTaken : map_slots[x].key \in ClKeys /\ map_slots[x].key # NoKey
    BY <1>1, MapTakenIn, MapSlotFacts
  <2>3. \A x \in MapTaken : map_spec[map_slots[x].key] = map_slots[x].val
    BY <1>3, <2>1, <2>2 DEF MapContent
  <2>4. \A k \in ClKeys : map_spec[k] # 0 => \E x \in MapTaken : map_slots[x].key = k
    BY <1>3, <2>1, ClAssumption DEF MapContent
  <2> QED BY <1>2, <1>3, <1>5, <1>6, <2>1, <2>2, <2>3, <2>4 DEF MapContent, MapTable
<1> QED BY <1>5, <1>7, <1>8, <1>9, <1>10 DEF MapInv

LEMMA PutEntryStep ==
  ASSUME MapInv, NEW k \in ClKeys, NEW v \in ClVals, PutEntry(k, v),
         map_e = MapEmpty, MapPending = {}, MapPending' = {}, cl_at # "reinsert", map_size + 1 < map_cap,
         map_hash' = map_hash, map_slots' = map_slots, map_cap' = map_cap, map_size' = map_size,
         map_broken' = map_broken, map_old' = MapSlots(0), map_put' = NoPut, map_i' \in Nat,
         map_want' = map_want, map_target' = map_target
  PROVE  MapInv'
<1>1. MapType /\ MapControl /\ MapCount
  BY DEF MapInv
<1>2. /\ map_e' = [key |-> k, val |-> v, dib |-> 0] /\ map_idx' = map_hash[k] % map_cap
      /\ cl_at' = "insert" /\ map_spec' = [map_spec EXCEPT ![k] = v] /\ MapTaken' = MapTaken
  BY DEF PutEntry, BeginInsert, MapTaken
<1>3. map_e' \in MapEntries /\ map_e'.key = k /\ map_e'.val = v /\ map_e'.dib = 0 /\ map_e' # MapEmpty
  <2>1. map_e' \in MapEntries /\ map_e'.key = k /\ map_e'.val = v /\ map_e'.dib = 0
    BY <1>2 DEF MapEntries
  <2> QED BY <2>1, ClAssumption DEF MapEmpty
<1>4. map_idx' = Probe(k, 0) /\ map_idx' \in 0 .. map_cap - 1
  <2>1. 0 \in Nat
    OBVIOUS
  <2> QED BY <1>1, <1>2, <2>1, ProbeFacts
<1>5. /\ map_spec' \in [ClKeys -> ClVals \cup {0}] /\ map_spec'[k] = v
      /\ \A l \in ClKeys : l # k => map_spec'[l] = map_spec[l]
  BY <1>1, <1>2 DEF MapType
<1>6. MapType'
  <2>1. map_cap \in Nat /\ 0 \in 0 .. map_cap /\ MapSlots(0) \in [0 .. 0 - 1 -> MapSlot]
    BY <1>1 DEF MapType, MapSlots, MapSlot
  <2>2. \E n \in 0 .. map_cap' : map_old' \in [0 .. n - 1 -> MapSlot]
    BY <2>1
  <2> QED BY <1>1, <1>3, <1>4, <1>5, <2>2 DEF MapType, MapSlot
<1>7. MapControl'
  BY <1>2, <1>3 DEF MapControl, Inserting
<1>8. MapCount'
  BY <1>1, <1>2 DEF MapCount
<1>9. ASSUME ~map_broken PROVE MapTable' /\ MapHand' /\ MapContent'
  <2>1. MapTable /\ MapContent
    BY <1>9 DEF MapInv
  <2>2. MapTable'
    BY <1>2, <2>1, MapTableNext DEF MapTable
  <2>3. \A x \in MapTaken : map_slots[x].dib \in Nat /\ map_slots[x].key \in ClKeys /\ map_slots[x].key # NoKey
    BY <1>1, MapTakenIn, MapSlotFacts
  <2>4. MapHand'
    BY <1>2, <1>3, <1>4, <2>3, MapHandNext
  <2>5. \A x \in MapTaken : map_spec[map_slots[x].key] = map_slots[x].val
    BY <2>1, <2>3 DEF MapContent, MapEmpty
  <2>6. \A x \in MapTaken : map_slots[x].key # k => map_spec'[map_slots[x].key] = map_slots[x].val
    BY <1>5, <2>3, <2>5
  <2>7. \A l \in ClKeys : map_spec[l] # 0 => \E x \in MapTaken : map_slots[x].key = l
    BY <2>1, ClAssumption DEF MapContent, MapEmpty
  <2>8. \A l \in ClKeys : map_spec'[l] # 0 => (\E x \in MapTaken : map_slots[x].key = l) \/ map_e'.key = l
    BY <1>3, <1>5, <2>7
  <2>9. MapContent'
    BY <1>2, <1>3, <1>5, <2>6, <2>8 DEF MapContent
  <2> QED BY <2>2, <2>4, <2>9
<1> QED BY <1>6, <1>7, <1>8, <1>9 DEF MapInv

(* Below the load limit an entry more leaves a slot empty. *)
LEMMA MapBelowLoad ==
  ASSUME MapType, ~MapIsFull
  PROVE  map_size + 1 < map_cap
<1> DEFINE D == ClLoadDen
           N == ClLoadNum
           s == map_size
           c == map_cap
           g == D - N
<1>1. /\ D \in Nat /\ N \in Nat \ {0} /\ s \in Nat /\ c \in Nat /\ ClMapCap \in Nat \ {0, 1}
      /\ D <= ClMapCap * g /\ c >= ClMapCap /\ g \in Int
  BY ClAssumption DEF MapType
<1>2. s * D < c * N
  BY <1>1 DEF MapIsFull
<1>3. g = D - N
  OBVIOUS
<1> HIDE DEF D, N, s, c, g
<1>4. g >= 0
  <2>1. SUFFICES ASSUME g <= -1 PROVE FALSE
    BY <1>1
  <2>2. ClMapCap * g <= -ClMapCap
    BY <1>1, <2>1
  <2> QED BY <1>1, <2>2
<1>5. ClMapCap * g <= c * g
  <2> DEFINE r == c - ClMapCap
  <2>1. r \in Nat /\ c = ClMapCap + r
    BY <1>1
  <2> HIDE DEF r
  <2>2. c * g = ClMapCap * g + r * g
    BY <1>1, <2>1
  <2>3. r * g >= 0
    BY <1>1, <1>4, <2>1
  <2> QED BY <1>1, <2>1, <2>2, <2>3
<1>6. c * g = c * D - c * N
  BY <1>1, <1>3
<1>7. s * D < c * D - D
  <2>1. c * g \in Int /\ c * D \in Int /\ c * N \in Int /\ s * D \in Int /\ ClMapCap * g \in Int
    BY <1>1
  <2> QED BY <1>1, <1>2, <1>5, <1>6, <2>1
<1>8. s + 1 < c
  <2>1. SUFFICES ASSUME c <= s + 1 PROVE FALSE
    BY <1>1
  <2> DEFINE r == s + 1 - c
  <2>2. r \in Nat /\ s = c - 1 + r
    BY <1>1, <2>1
  <2> HIDE DEF r
  <2>3. s * D = c * D - D + r * D
    BY <1>1, <2>2
  <2>4. r * D >= 0 /\ r * D \in Int /\ c * D \in Int /\ s * D \in Int
    BY <1>1, <2>2
  <2> QED BY <1>1, <1>7, <2>3, <2>4
<1> QED BY <1>8 DEF s, c

LEMMA MapPutStep ==
  ASSUME MapInv, NEW k \in ClKeys, NEW v \in ClVals, MapPut(k, v)
  PROVE  MapInv'
<1>1. MapType /\ MapControl /\ MapCount /\ cl_at = "idle"
  BY DEF MapInv, MapPut, Idle
<1>2. map_e = MapEmpty /\ MapPending = {} /\ map_put = NoPut /\ map_old = MapSlots(0)
  BY <1>1, MapQuiet DEF Inserting, MapControl
<1>3. /\ map_hash' = map_hash /\ map_size' = map_size /\ map_broken' = map_broken
      /\ map_want' = map_want /\ map_target' = map_target /\ map_want \in Nat /\ map_target \in Nat
      /\ map_cap \in Nat /\ map_cap >= 2 /\ map_size \in Nat /\ map_size < map_cap
  BY <1>1, MapCapFacts DEF MapPut, reserveVars, MapType, MapCount
<1>4. CASE MapIsFull /\ BeginRehash(2 * map_cap, <<k, v>>) /\ UNCHANGED <<insertVars, map_spec>>
  <2>1. 2 * map_cap \in Nat /\ 2 * map_cap > map_cap /\ map_size + 1 < 2 * map_cap
    BY <1>3
  <2>2. <<k, v>> \in {NoPut} \cup (ClKeys \X ClVals)
    OBVIOUS
  <2>3. UNCHANGED insertVars /\ map_spec' = map_spec /\ map_want' \in Nat /\ map_target' \in Nat
    BY <1>3, <1>4
  <2> QED BY <1>1, <1>3, <1>4, <2>1, <2>2, <2>3, BeginRehashStep
<1>5. CASE ~MapIsFull /\ PutEntry(k, v) /\ UNCHANGED <<map_slots, map_cap, growVars>>
  <2>1. map_size + 1 < map_cap
    BY <1>1, <1>5, MapBelowLoad
  <2>2. map_slots' = map_slots /\ map_cap' = map_cap /\ map_old' = map_old /\ map_i' = map_i /\ map_put' = map_put
    BY <1>5 DEF growVars
  <2>3. MapPending' = {} /\ map_i' \in Nat
    BY <1>1, <1>2, <2>2 DEF MapPending, MapType
  <2> QED BY <1>1, <1>2, <1>3, <1>5, <2>1, <2>2, <2>3, PutEntryStep
<1> QED BY <1>4, <1>5 DEF MapPut

LEMMA MapRehashedStep ==
  ASSUME MapInv, MapRehashed
  PROVE  MapInv'
<1>1. MapType /\ MapControl /\ MapCount /\ cl_at = "rehash" /\ map_i \notin DOMAIN map_old
  BY DEF MapInv, MapRehashed
<1>2. map_e = MapEmpty
  BY <1>1 DEF MapControl, Inserting
<1>3. MapPending = {}
  <2>1. PICK n \in 0 .. map_cap : map_old \in [0 .. n - 1 -> MapSlot]
    BY <1>1 DEF MapType
  <2>2. DOMAIN map_old = 0 .. n - 1 /\ map_i \in Nat /\ n \in Nat
    BY <1>1, <2>1 DEF MapType
  <2>3. \A j \in DOMAIN map_old : ~(j >= map_i)
    BY <1>1, <2>2
  <2> QED BY <2>3 DEF MapPending
<1>4. /\ map_hash' = map_hash /\ map_slots' = map_slots /\ map_cap' = map_cap /\ map_size' = map_size
      /\ map_broken' = map_broken /\ map_want' = map_want /\ map_target' = map_target
      /\ map_old' = MapSlots(0) /\ map_i' = 0 /\ map_put' = NoPut
  BY DEF MapRehashed, reserveVars
<1>5. MapPending' = {}
  <2>1. DOMAIN MapSlots(0) = {}
    BY DEF MapSlots
  <2> QED BY <1>4, <2>1 DEF MapPending
<1>6. CASE map_put = NoPut /\ cl_at' = "idle" /\ UNCHANGED <<insertVars, map_spec>>
  <2>1. map_e' = map_e /\ map_idx' = map_idx /\ map_spec' = map_spec /\ cl_at' = "idle" /\ MapTaken' = MapTaken
    BY <1>4, <1>6 DEF insertVars, MapTaken
  <2>2. MapType'
    <3>1. map_cap \in Nat /\ 0 \in 0 .. map_cap /\ MapSlots(0) \in [0 .. 0 - 1 -> MapSlot]
      BY <1>1 DEF MapType, MapSlots, MapSlot
    <3>2. \E n \in 0 .. map_cap' : map_old' \in [0 .. n - 1 -> MapSlot]
      BY <1>4, <3>1
    <3> QED BY <1>1, <1>4, <2>1, <3>2 DEF MapType
  <2>3. MapControl'
    BY <1>2, <1>4, <2>1 DEF MapControl, Inserting
  <2>4. MapCount'
    BY <1>1, <1>3, <1>4, <1>5, <2>1 DEF MapCount
  <2>5. ASSUME ~map_broken PROVE MapTable' /\ MapHand' /\ MapContent'
    <3>1. MapTable'
      BY <1>4, <2>1, <2>5, MapTableNext DEF MapInv, MapTable
    <3>2. MapHand'
      BY <1>2, <1>4, <2>1, MapHandNext
    <3>3. MapContent'
      BY <1>3, <1>4, <1>5, <2>1, <2>5 DEF MapInv, MapContent
    <3> QED BY <3>1, <3>2, <3>3
  <2> QED BY <1>4, <2>2, <2>3, <2>4, <2>5 DEF MapInv
<1>7. CASE map_put # NoPut /\ PutEntry(map_put[1], map_put[2])
  <2>1. map_put[1] \in ClKeys /\ map_put[2] \in ClVals
    BY <1>1, <1>7 DEF MapType
  <2>2. map_size + 1 < map_cap
    BY <1>1, <1>7 DEF MapCount
  <2> QED BY <1>1, <1>2, <1>3, <1>4, <1>5, <1>7, <2>1, <2>2, PutEntryStep
<1> QED BY <1>6, <1>7 DEF MapRehashed

LEMMA MapRehashStep ==
  ASSUME MapInv, MapRehash
  PROVE  MapInv'
<1>1. MapType /\ MapControl /\ MapCount /\ cl_at = "rehash" /\ map_i \in DOMAIN map_old
  BY DEF MapInv, MapRehash
<1>2. map_e = MapEmpty /\ map_e.key = NoKey
  BY <1>1 DEF MapControl, Inserting, MapEmpty
<1>3. /\ map_hash' = map_hash /\ map_slots' = map_slots /\ map_cap' = map_cap /\ map_size' = map_size
      /\ map_broken' = map_broken /\ map_want' = map_want /\ map_target' = map_target
      /\ map_old' = map_old /\ map_i' = map_i + 1 /\ map_put' = map_put /\ map_spec' = map_spec /\ MapTaken' = MapTaken
  BY DEF MapRehash, reserveVars, MapTaken
<1> DEFINE s == map_old[map_i]
<1>4. map_i \in Nat /\ s \in MapSlot /\ \A j \in DOMAIN map_old : j \in Nat
  BY <1>1 DEF MapType
<1>5. MapPending' = MapPending \ {map_i}
  <2>1. \A j \in DOMAIN map_old : j >= map_i + 1 <=> j >= map_i /\ j # map_i
    BY <1>4
  <2> QED BY <1>3, <2>1 DEF MapPending
<1>6. s # MapEmpty <=> map_i \in MapPending
  BY <1>1, <1>4 DEF MapPending
<1>7. CASE s = MapEmpty
  <2>1. map_e' = map_e /\ map_idx' = map_idx /\ cl_at' = cl_at
    BY <1>7 DEF MapRehash, insertVars
  <2>2. MapPending' = MapPending
    BY <1>5, <1>6, <1>7
  <2>3. MapType'
    <3>1. map_i' \in Nat
      BY <1>3, <1>4
    <3> QED BY <1>1, <1>3, <2>1, <3>1 DEF MapType
  <2>4. MapControl'
    BY <1>1, <1>3, <2>1 DEF MapControl, Inserting
  <2>5. MapCount'
    BY <1>1, <1>3, <2>1, <2>2 DEF MapCount
  <2>6. ASSUME ~map_broken PROVE MapTable' /\ MapHand' /\ MapContent'
    <3>1. MapTable'
      BY <1>3, <2>6, MapTableNext DEF MapInv, MapTable
    <3>2. MapHand'
      BY <1>2, <1>3, <2>1, MapHandNext
    <3>3. MapContent'
      BY <1>3, <2>1, <2>2, <2>6 DEF MapInv, MapContent
    <3> QED BY <3>1, <3>2, <3>3
  <2> QED BY <1>3, <2>3, <2>4, <2>5, <2>6 DEF MapInv
<1>8. CASE s # MapEmpty
  <2>1. map_e' = [key |-> s.key, val |-> s.val, dib |-> 0] /\ map_idx' = map_hash[s.key] % map_cap /\ cl_at' = "reinsert"
    BY <1>8 DEF MapRehash, BeginInsert
  <2>2. s.key \in ClKeys /\ s.val \in ClVals /\ s.key # NoKey
    BY <1>4, <1>8, ClAssumption DEF MapSlot, MapEntries
  <2> HIDE DEF s
  <2>3. map_e' \in MapEntries /\ map_e'.key = s.key /\ map_e'.val = s.val /\ map_e'.dib = 0 /\ map_e' # MapEmpty
    <3>1. map_e' \in MapEntries /\ map_e'.key = s.key /\ map_e'.val = s.val /\ map_e'.dib = 0
      BY <2>1, <2>2 DEF MapEntries
    <3> QED BY <2>2, <3>1 DEF MapEmpty
  <2>4. map_idx' = Probe(s.key, 0) /\ map_idx' \in 0 .. map_cap - 1
    <3>1. 0 \in Nat
      OBVIOUS
    <3> QED BY <1>1, <2>1, <2>2, <3>1, ProbeFacts
  <2>5. MapType'
    <3>1. map_i' \in Nat /\ map_e' \in MapSlot
      BY <1>3, <1>4, <2>3 DEF MapSlot
    <3> QED BY <1>1, <1>3, <2>4, <3>1 DEF MapType
  <2>6. MapControl'
    BY <1>1, <1>3, <2>1, <2>3 DEF MapControl, Inserting
  <2>7. MapCount'
    <3> DEFINE t == Cardinality(MapTaken)
               p == Cardinality(MapPending)
    <3>1. t \in Nat /\ p \in Nat /\ IsFiniteSet(MapPending) /\ map_size \in Nat
      BY <1>1, MapFinite DEF MapType
    <3>2. Cardinality(MapPending') = p - 1
      BY <1>5, <1>6, <1>8, <3>1, FS_RemoveElement
    <3>3. t + p + 0 <= map_size /\ (~map_broken => t + p + 0 = map_size)
      BY <1>1 DEF MapCount
    <3>4. map_size < map_cap /\ (map_put # NoPut => map_size + 1 < map_cap)
      BY <1>1 DEF MapCount
    <3> HIDE DEF t, p
    <3>5. t + (p - 1) + 1 <= map_size /\ (~map_broken => t + (p - 1) + 1 = map_size)
      BY <3>1, <3>3
    <3> QED BY <1>3, <2>1, <3>2, <3>4, <3>5 DEF MapCount, t
  <2>8. ASSUME ~map_broken PROVE MapTable' /\ MapHand' /\ MapContent'
    <3>1. MapTable /\ MapContent
      BY <2>8 DEF MapInv
    <3>2. MapTable'
      BY <1>3, <3>1, MapTableNext DEF MapTable
    <3>3. map_i \in MapPending
      BY <1>6, <1>8
    <3>4. \A x \in MapTaken : map_slots[x].key # s.key /\ map_slots[x].key # NoKey
      BY <1>1, <3>1, <3>3, MapTakenIn, MapSlotFacts DEF MapContent, s
    <3>5. MapHand'
      BY <1>3, <2>1, <2>3, <2>4, <3>4, MapHandNext
    <3>6. MapContent'
      <4>1. \A x \in MapTaken : map_spec[map_slots[x].key] = map_slots[x].val
        BY <1>2, <3>1, <3>4 DEF MapContent
      <4>2. map_spec[s.key] = s.val
        BY <3>1, <3>3 DEF MapContent, s
      <4>3. \A j \in MapPending' : /\ map_spec[map_old[j].key] = map_old[j].val /\ map_old[j].key # s.key
                                   /\ \A x \in MapTaken : map_slots[x].key # map_old[j].key
        BY <1>5, <3>1, <3>3 DEF MapContent, s
      <4>4. \A j, l \in MapPending' : map_old[j].key = map_old[l].key => j = l
        BY <1>5, <3>1 DEF MapContent
      <4>5. ASSUME NEW k \in ClKeys, map_spec[k] # 0
            PROVE  \/ \E x \in MapTaken : map_slots[x].key = k
                   \/ s.key = k
                   \/ \E j \in MapPending' : map_old[j].key = k
        <5>1. \/ \E x \in MapTaken : map_slots[x].key = k
              \/ \E j \in MapPending : map_old[j].key = k
          BY <1>2, <3>1, <4>5, ClAssumption DEF MapContent
        <5> QED BY <1>5, <5>1 DEF s
      <4> QED BY <1>3, <2>3, <4>1, <4>2, <4>3, <4>4, <4>5 DEF MapContent
    <3> QED BY <3>2, <3>5, <3>6
  <2> QED BY <1>3, <2>5, <2>6, <2>7, <2>8 DEF MapInv
<1> QED BY <1>7, <1>8

LEMMA MapRemoveStep ==
  ASSUME MapInv, NEW k \in ClKeys, MapRemove(k)
  PROVE  MapInv'
<1>1. MapType /\ MapControl /\ MapCount /\ cl_at = "idle"
  BY DEF MapInv, MapRemove, Idle
<1> DEFINE z == Stop(k)
<1>2. /\ map_hash' = map_hash /\ map_cap' = map_cap /\ cl_at' = cl_at
      /\ map_old' = map_old /\ map_i' = map_i /\ map_put' = map_put /\ map_e' = map_e /\ map_idx' = map_idx
      /\ map_want' = map_want /\ map_target' = map_target
      /\ map_slots' = [map_slots EXCEPT ![z] = MapEmpty] /\ map_size' = map_size - 1
      /\ map_spec' = [map_spec EXCEPT ![k] = 0]
      /\ map_broken' = (map_broken \/ map_slots[MapNext(z)].dib > 0)
  BY DEF MapRemove, growVars, insertVars, reserveVars, MapNext
<1>3. z \in MapTaken /\ z \in 0 .. map_cap - 1 /\ map_slots[z].key = k
  <2>1. MapProbesEnd
    BY <1>1, MapRoomLeft
  <2>2. MapHas(k)
    BY DEF MapRemove
  <2> QED BY <1>1, <2>1, <2>2, MapStopIn
<1> HIDE DEF z
<1>4. map_e = MapEmpty /\ map_e.key = NoKey /\ MapPending = {} /\ Cardinality(MapPending) = 0 /\ map_put = NoPut
  BY <1>1, MapQuiet DEF Inserting
<1>5. /\ DOMAIN map_slots = 0 .. map_cap - 1 /\ DOMAIN map_slots' = 0 .. map_cap - 1 /\ map_slots'[z] = MapEmpty
      /\ \A x \in 0 .. map_cap - 1 : x # z => map_slots'[x] = map_slots[x]
  BY <1>1, <1>2, <1>3, MapCapFacts
<1>6. MapTaken' = MapTaken \ {z} /\ MapPending' = MapPending
  BY <1>2, <1>5 DEF MapTaken, MapPending
<1>7. /\ map_spec' \in [ClKeys -> ClVals \cup {0}] /\ map_spec'[k] = 0
      /\ \A l \in ClKeys : l # k => map_spec'[l] = map_spec[l]
  BY <1>1, <1>2 DEF MapType
<1> DEFINE t == Cardinality(MapTaken)
<1>8. t \in Nat /\ t - 1 \in Nat /\ Cardinality(MapTaken') = t - 1
  <2>1. IsFiniteSet(MapTaken) /\ t \in Nat
    BY <1>1, MapFinite
  <2>2. IsFiniteSet(MapTaken \ {z}) /\ Cardinality(MapTaken \ {z}) = t - 1
    BY <1>3, <2>1, FS_RemoveElement
  <2>3. Cardinality(MapTaken \ {z}) \in Nat
    BY <2>2, FS_CardinalityType
  <2> QED BY <1>6, <2>1, <2>2, <2>3
<1>9. t + 0 + 0 <= map_size /\ (~map_broken => t + 0 + 0 = map_size) /\ map_size < map_cap
  BY <1>1, <1>4 DEF MapCount
<1> HIDE DEF t
<1>10. MapType'
  <2>1. map_slots' \in [0 .. map_cap - 1 -> MapSlot]
    BY <1>1, <1>2 DEF MapType, MapSlot
  <2>2. map_size' \in Nat
    BY <1>1, <1>2, <1>8, <1>9 DEF MapType
  <2>3. map_broken' \in BOOLEAN
    BY <1>2
  <2> QED BY <1>1, <1>2, <1>7, <2>1, <2>2, <2>3 DEF MapType
<1>11. MapControl'
  BY <1>1, <1>2 DEF MapControl, Inserting
<1>12. MapCount'
  <2>1. map_size \in Nat /\ map_cap \in Nat
    BY <1>1 DEF MapType
  <2>2. (t - 1) + 0 + 0 <= map_size - 1 /\ (~map_broken => (t - 1) + 0 + 0 = map_size - 1) /\ map_size - 1 < map_cap
    BY <1>8, <1>9, <2>1
  <2> QED BY <1>1, <1>2, <1>4, <1>6, <1>8, <2>2 DEF MapCount
<1>13. ASSUME ~map_broken' PROVE MapTable' /\ MapHand' /\ MapContent'
  <2>1. ~map_broken /\ ~(map_slots[MapNext(z)].dib > 0)
    BY <1>2, <1>13
  <2>2. MapTable /\ MapContent
    BY <2>1 DEF MapInv
  <2>3. \A x \in MapTaken : x \in 0 .. map_cap - 1 /\ map_slots[x].key \in ClKeys /\ map_slots[x].key # NoKey
    BY <1>1, MapTakenIn, MapSlotFacts
  <2>4. \A x \in MapTaken' : x \in MapTaken /\ x # z /\ map_slots'[x] = map_slots[x] /\ map_slots[x].key # k
    BY <1>3, <1>5, <1>6, <2>2, <2>3 DEF MapTable
  <2>5. ASSUME NEW x \in DOMAIN map_slots', map_slots'[MapNext(x)].dib > 0
        PROVE  x \in MapTaken' /\ map_slots'[MapNext(x)].dib <= map_slots'[x].dib + 1
    <3>1. MapNext(x) \in 0 .. map_cap - 1 /\ x \in 0 .. map_cap - 1
      BY <1>1, <1>5, MapNextFacts
    <3>2. MapNext(x) # z
      BY <1>5, <2>5 DEF MapEmpty
    <3>3. map_slots'[MapNext(x)] = map_slots[MapNext(x)]
      BY <1>5, <3>1, <3>2
    <3>4. x # z
      BY <2>1, <2>5, <3>3
    <3>5. x \in MapTaken /\ map_slots[MapNext(x)].dib <= map_slots[x].dib + 1
      BY <1>5, <2>2, <2>5, <3>1, <3>3 DEF MapTable
    <3> QED BY <1>5, <1>6, <3>1, <3>3, <3>4, <3>5
  <2>6. \A x \in MapTaken' : x = Probe(map_slots'[x].key, map_slots'[x].dib)
    BY <2>2, <2>4 DEF MapTable
  <2>7. \A x, y \in MapTaken' : map_slots'[x].key = map_slots'[y].key => x = y
    BY <2>2, <2>4 DEF MapTable
  <2>8. MapTable'
    BY <1>2, <2>5, <2>6, <2>7, MapTableNext
  <2>9. MapHand'
    BY <1>2, <1>4, MapHandNext
  <2>10. \A x \in MapTaken' : map_spec'[map_slots'[x].key] = map_slots'[x].val
    BY <1>4, <1>7, <2>2, <2>3, <2>4 DEF MapContent
  <2>11. ASSUME NEW l \in ClKeys, map_spec'[l] # 0
         PROVE  \E x \in MapTaken' : map_slots'[x].key = l
    <3>1. l # k /\ map_spec[l] # 0
      BY <1>7, <2>11
    <3>2. PICK x \in MapTaken : map_slots[x].key = l
      BY <1>4, <2>2, <3>1, ClAssumption DEF MapContent
    <3> QED BY <1>3, <1>5, <1>6, <2>3, <3>1, <3>2
  <2>12. MapContent'
    BY <1>2, <1>4, <1>6, <2>10, <2>11 DEF MapContent
  <2> QED BY <2>8, <2>9, <2>12
<1> QED BY <1>10, <1>11, <1>12, <1>13 DEF MapInv

LEMMA MapClearStep ==
  ASSUME MapInv, MapClear
  PROVE  MapInv'
<1>1. MapType /\ MapControl /\ MapCount /\ cl_at = "idle"
  BY DEF MapInv, MapClear, Idle
<1>2. /\ map_hash' = map_hash /\ map_cap' = map_cap /\ cl_at' = cl_at
      /\ map_old' = map_old /\ map_i' = map_i /\ map_put' = map_put /\ map_e' = map_e /\ map_idx' = map_idx
      /\ map_want' = map_want /\ map_target' = map_target
      /\ map_slots' = MapSlots(map_cap) /\ map_size' = 0
      /\ map_spec' = [l \in ClKeys |-> 0] /\ map_broken' = FALSE
  BY DEF MapClear, growVars, insertVars, reserveVars
<1>3. map_e = MapEmpty /\ map_e.key = NoKey /\ MapPending = {} /\ Cardinality(MapPending) = 0 /\ map_put = NoPut
  BY <1>1, MapQuiet DEF Inserting
<1>4. map_cap \in Nat \ {0}
  BY <1>1, MapCapFacts
<1>5. /\ map_slots' \in [0 .. map_cap - 1 -> MapSlot] /\ MapTaken' = {} /\ Cardinality(MapTaken') = 0
      /\ MapTable' /\ MapHand'
  BY <1>2, <1>3, <1>4, MapEmptyTable
<1>6. MapPending' = {}
  BY <1>2, <1>3 DEF MapPending
<1>7. map_spec' \in [ClKeys -> ClVals \cup {0}] /\ \A l \in ClKeys : map_spec'[l] = 0
  BY <1>2
<1>8. MapType'
  BY <1>1, <1>2, <1>5, <1>7 DEF MapType
<1>9. MapControl'
  BY <1>1, <1>2 DEF MapControl, Inserting
<1>10. MapCount'
  BY <1>1, <1>2, <1>3, <1>4, <1>5, <1>6 DEF MapCount
<1>11. MapContent'
  BY <1>2, <1>3, <1>5, <1>6, <1>7 DEF MapContent
<1> QED BY <1>5, <1>8, <1>9, <1>10, <1>11 DEF MapInv

LEMMA MapReserveSteps ==
  ASSUME MapInv, ReserveDouble \/ ReserveRehash \/ \E n \in ClReserves : MapReserve(n)
  PROVE  MapInv'
<1>1. MapType /\ MapControl
  BY DEF MapInv
<1>2. /\ map_cap \in Nat /\ map_want \in Nat /\ map_target \in Nat
      /\ ClMapCap \in Nat /\ ClReserves \subseteq Nat
  BY <1>1, ClAssumption DEF MapType
<1>3. CASE ReserveDouble
  <2>1. map_target >= ClMapCap /\ map_target' = 2 * map_target /\ map_want' = map_want
    BY <1>1, <1>3 DEF ReserveDouble, MapControl
  <2>2. map_target' \in Nat /\ map_target' >= ClMapCap /\ map_want' \in Nat
    BY <1>2, <2>1
  <2> QED BY <1>3, <2>2, MapFrame DEF ReserveDouble
<1>4. CASE ReserveRehash
  <2>1. map_want' \in Nat /\ map_target' \in Nat /\ cl_at = "target"
    BY <1>4 DEF ReserveRehash
  <2>2. CASE map_target > map_cap /\ BeginRehash(map_target, NoPut)
    BY <1>2, <1>4, <2>1, <2>2, BeginRehashStep DEF ReserveRehash
  <2>3. CASE map_target <= map_cap /\ cl_at' = "idle" /\ UNCHANGED <<map_slots, map_cap, growVars>>
    BY <1>4, <2>1, <2>3, MapFrame DEF ReserveRehash
  <2> QED BY <1>4, <2>2, <2>3 DEF ReserveRehash
<1>5. CASE \E n \in ClReserves : MapReserve(n)
  <2>1. PICK n \in ClReserves : MapReserve(n)
    BY <1>5
  <2>2. map_want' \in Nat /\ map_target' \in Nat /\ map_target' >= ClMapCap
    BY <1>2, <2>1 DEF MapReserve
  <2> QED BY <2>1, <2>2, MapFrame DEF MapReserve, Idle
<1> QED BY <1>3, <1>4, <1>5

-----------------------------------------------------------------------------
(* Containers: the queue.                                                   *)

(* The values of the ring in their order are a sequence. *)
LEMMA QFacts ==
  ASSUME QInv
  PROVE  /\ q_spec \in Seq(Nat) /\ Len(q_spec) = q_size
         /\ \A i \in 1 .. q_size : /\ (q_head + i - 1) % q_cap \in 0 .. q_cap - 1
                                   /\ q_spec[i] = q_data[(q_head + i - 1) % q_cap] /\ q_spec[i] \in Nat
<1> DEFINE V(i) == q_data[(q_head + i - 1) % q_cap]
<1>1. q_cap \in Nat \ {0} /\ q_head \in Nat /\ q_size \in Nat
  BY DEF QInv
<1>2. ASSUME NEW i \in 1 .. q_size
      PROVE  (q_head + i - 1) % q_cap \in 0 .. q_cap - 1 /\ V(i) \in Nat
  <2>1. q_head + i - 1 \in Int
    BY <1>1
  <2>2. (q_head + i - 1) % q_cap \in 0 .. q_cap - 1
    BY <1>1, <2>1, DivMod
  <2> QED BY <2>2 DEF QInv
<1>3. q_spec = [i \in 1 .. q_size |-> V(i)]
  BY DEF QInv, QAgrees
<1> HIDE DEF V
<1>4. q_spec \in Seq(Nat) /\ Len(q_spec) = q_size /\ \A i \in 1 .. q_size : q_spec[i] = V(i)
  BY <1>1, <1>2, <1>3
<1> QED BY <1>2, <1>4 DEF V

LEMMA QSpecIs ==
  ASSUME NEW s \in Seq(Nat), NEW n \in Nat, Len(s) = n, NEW d, NEW h, NEW c,
         \A i \in 1 .. n : s[i] = d[(h + i - 1) % c]
  PROVE  s = [i \in 1 .. n |-> d[(h + i - 1) % c]]
<1>1. s = [i \in 1 .. n |-> s[i]]
  OBVIOUS
<1> QED BY <1>1

LEMMA QEnqueueStep ==
  ASSUME QInv, cl_n \in Nat, QEnqueue
  PROVE  QInv'
<1>1. /\ q_cap \in Nat \ {0} /\ q_data \in [0 .. q_cap - 1 -> Nat] /\ q_head \in 0 .. q_cap - 1
      /\ q_size \in 0 .. q_cap /\ q_size \in Nat /\ q_tail = (q_head + q_size) % q_cap
  BY DEF QInv
<1>2. q_spec \in Seq(Nat) /\ Len(q_spec) = q_size
  BY QFacts
<1>3. \A i \in 1 .. q_size : (q_head + i - 1) % q_cap \in 0 .. q_cap - 1 /\ q_spec[i] = q_data[(q_head + i - 1) % q_cap]
  BY QFacts
<1> DEFINE v == cl_n + 1
           s == Append(q_spec, v)
<1>4. v \in Nat
  OBVIOUS
<1> HIDE DEF v
<1>5. s \in Seq(Nat) /\ Len(s) = q_size + 1 /\ s[q_size + 1] = v /\ \A i \in 1 .. q_size : s[i] = q_spec[i]
  BY <1>1, <1>2, <1>4
<1> HIDE DEF s
<1>6. \A i \in 1 .. q_size + 1 : i \in 1 .. q_size \/ i = q_size + 1
  BY <1>1
<1>7. CASE /\ q_size # q_cap
           /\ q_data' = [q_data EXCEPT ![q_tail] = cl_n + 1] /\ q_tail' = (q_tail + 1) % q_cap
           /\ q_size' = q_size + 1 /\ q_spec' = Append(q_spec, cl_n + 1)
           /\ UNCHANGED <<q_cap, q_head>>
  <2>1. /\ q_data' = [q_data EXCEPT ![q_tail] = v] /\ q_spec' = s /\ q_size' = q_size + 1
        /\ q_cap' = q_cap /\ q_head' = q_head /\ q_size < q_cap
    BY <1>1, <1>7 DEF v, s
  <2>2. q_tail \in 0 .. q_cap - 1
    <3>1. q_head + q_size \in Int
      BY <1>1
    <3> QED BY <1>1, <3>1, DivMod
  <2>3. q_data' \in [0 .. q_cap - 1 -> Nat] /\ q_data'[q_tail] = v
        /\ \A x \in 0 .. q_cap - 1 : x # q_tail => q_data'[x] = q_data[x]
    BY <1>1, <1>4, <2>1, <2>2
  <2>4. q_tail' = (q_head' + q_size') % q_cap'
    <3>1. \A b \in Int : (((q_head + q_size) % q_cap) + b) % q_cap = ((q_head + q_size) + b) % q_cap
      <4>1. q_head + q_size \in Int
        BY <1>1
      <4> QED BY <1>1, <4>1, ClModAdd
    <3>2. (q_tail + 1) % q_cap = ((q_head + q_size) + 1) % q_cap
      BY <1>1, <3>1
    <3>3. (q_head + q_size) + 1 = q_head + (q_size + 1)
      BY <1>1
    <3> QED BY <1>7, <2>1, <3>2, <3>3
  <2>5. ASSUME NEW i \in 1 .. q_size + 1 PROVE s[i] = q_data'[(q_head + i - 1) % q_cap]
    <3>1. CASE i \in 1 .. q_size
      <4>1. q_head + i - 1 \in Int /\ q_head + q_size \in Int /\ q_head + i - 1 < q_head + q_size
            /\ (q_head + q_size) - (q_head + i - 1) < q_cap
        BY <1>1, <2>1, <3>1
      <4>2. (q_head + i - 1) % q_cap # q_tail
        BY <1>1, <4>1, ClModDistinct
      <4> QED BY <1>3, <1>5, <2>3, <3>1, <4>2
    <3>2. CASE i = q_size + 1
      <4>1. q_head + i - 1 = q_head + q_size
        BY <1>1, <3>2
      <4> QED BY <1>1, <1>5, <2>3, <3>2, <4>1
    <3> QED BY <1>6, <3>1, <3>2
  <2>6. s = [i \in 1 .. q_size + 1 |-> q_data'[(q_head + i - 1) % q_cap]]
    <3>1. q_size + 1 \in Nat
      BY <1>1
    <3> QED BY <1>5, <2>5, <3>1, QSpecIs
  <2>7. QAgrees'
    BY <2>1, <2>6 DEF QAgrees
  <2>8. q_size' \in 0 .. q_cap'
    BY <1>1, <2>1
  <2> QED BY <1>1, <2>1, <2>3, <2>4, <2>7, <2>8 DEF QInv
<1>8. CASE /\ q_size = q_cap /\ q_cap' = 2 * q_cap
           /\ q_data' = [i \in 0 .. 2 * q_cap - 1 |->
                           IF i < q_size THEN q_data[(q_head + i) % q_cap] ELSE IF i = q_size THEN cl_n + 1 ELSE Null]
           /\ q_head' = 0 /\ q_tail' = (q_size + 1) % (2 * q_cap)
           /\ q_size' = q_size + 1 /\ q_spec' = Append(q_spec, cl_n + 1)
  <2> DEFINE c == 2 * q_cap
  <2>1. /\ q_cap' = c /\ q_head' = 0 /\ q_size' = q_size + 1 /\ q_spec' = s /\ q_tail' = (q_size + 1) % c
        /\ q_data' = [i \in 0 .. c - 1 |->
                        IF i < q_size THEN q_data[(q_head + i) % q_cap] ELSE IF i = q_size THEN v ELSE Null]
    BY <1>8 DEF s, v
  <2>2. c \in Nat \ {0} /\ q_size + 1 <= c /\ q_size = q_cap
    BY <1>1, <1>8
  <2> HIDE DEF c
  <2>3. ASSUME NEW i \in 0 .. c - 1, i < q_size
        PROVE  q_data[(q_head + i) % q_cap] \in Nat /\ q_spec[i + 1] = q_data[(q_head + i) % q_cap]
    <3>1. i + 1 \in 1 .. q_size /\ q_head + (i + 1) - 1 = q_head + i
      BY <1>1, <2>2, <2>3
    <3>2. (q_head + i) % q_cap \in 0 .. q_cap - 1 /\ q_spec[i + 1] = q_data[(q_head + i) % q_cap]
      BY <1>3, <3>1
    <3> QED BY <1>1, <3>2
  <2>4. q_data' \in [0 .. c - 1 -> Nat]
    BY <1>4, <2>1, <2>3 DEF Null
  <2>5. ASSUME NEW i \in 1 .. q_size + 1 PROVE s[i] = q_data'[(0 + i - 1) % c]
    <3>1. i - 1 \in 0 .. c - 1 /\ 0 + i - 1 = i - 1
      BY <1>1, <2>2
    <3>2. (0 + i - 1) % c = i - 1
      BY <2>2, <3>1, ClModSmall
    <3>3. CASE i \in 1 .. q_size
      <4>1. i - 1 < q_size /\ (i - 1) + 1 = i
        BY <1>1, <3>3
      <4>2. q_data'[i - 1] = q_data[(q_head + (i - 1)) % q_cap]
        BY <2>1, <3>1, <4>1
      <4>3. q_spec[i] = q_data[(q_head + (i - 1)) % q_cap]
        BY <2>3, <3>1, <4>1
      <4> QED BY <1>5, <3>2, <3>3, <4>2, <4>3
    <3>4. CASE i = q_size + 1
      <4>1. i - 1 = q_size /\ ~(i - 1 < q_size)
        BY <1>1, <3>4
      <4>2. q_data'[i - 1] = v
        BY <2>1, <3>1, <4>1
      <4> QED BY <1>5, <3>2, <3>4, <4>2
    <3> QED BY <1>6, <3>3, <3>4
  <2>6. s = [i \in 1 .. q_size + 1 |-> q_data'[(0 + i - 1) % c]]
    <3>1. q_size + 1 \in Nat
      BY <1>1
    <3> QED BY <1>5, <2>5, <3>1, QSpecIs
  <2>7. QAgrees'
    BY <2>1, <2>6 DEF QAgrees
  <2>8. q_size' \in 0 .. q_cap' /\ q_head' \in 0 .. q_cap' - 1 /\ 0 + (q_size + 1) = q_size + 1
    BY <1>1, <2>1, <2>2
  <2> QED BY <2>1, <2>2, <2>4, <2>7, <2>8 DEF QInv
<1>9. CASE q_size = q_cap /\ UNCHANGED qVars
  BY <1>9 DEF QInv, QAgrees, qVars
<1> QED BY <1>7, <1>8, <1>9 DEF QEnqueue

LEMMA QDequeueStep ==
  ASSUME QInv, QDequeue
  PROVE  QInv'
<1>1. /\ q_cap \in Nat \ {0} /\ q_data \in [0 .. q_cap - 1 -> Nat] /\ q_head \in 0 .. q_cap - 1
      /\ q_size \in 0 .. q_cap /\ q_size \in Nat /\ q_tail = (q_head + q_size) % q_cap
  BY DEF QInv
<1>2. q_spec \in Seq(Nat) /\ Len(q_spec) = q_size
  BY QFacts
<1>3. \A i \in 1 .. q_size : q_spec[i] = q_data[(q_head + i - 1) % q_cap]
  BY QFacts
<1>4. /\ q_size > 0 /\ q_head' = (q_head + 1) % q_cap /\ q_size' = q_size - 1
      /\ q_spec' = Tail(q_spec) /\ q_data' = q_data /\ q_cap' = q_cap /\ q_tail' = q_tail
  BY DEF QDequeue
<1>5. Tail(q_spec) \in Seq(Nat) /\ Len(Tail(q_spec)) = q_size - 1
      /\ \A i \in 1 .. q_size - 1 : Tail(q_spec)[i] = q_spec[i + 1]
  BY <1>1, <1>2, <1>4
<1>6. q_head' \in 0 .. q_cap - 1
  <2>1. q_head + 1 \in Int
    BY <1>1
  <2> QED BY <1>1, <1>4, <2>1, DivMod
<1>7. \A b \in Int : (((q_head + 1) % q_cap) + b) % q_cap = ((q_head + 1) + b) % q_cap
  <2>1. q_head + 1 \in Int
    BY <1>1
  <2> QED BY <1>1, <2>1, ClModAdd
<1>8. q_tail' = (q_head' + q_size') % q_cap'
  <2>1. q_size - 1 \in Int /\ (q_head + 1) + (q_size - 1) = q_head + q_size
    BY <1>1
  <2> QED BY <1>1, <1>4, <1>7, <2>1
<1>9. ASSUME NEW i \in 1 .. q_size - 1 PROVE Tail(q_spec)[i] = q_data[(q_head' + i - 1) % q_cap]
  <2>1. /\ i - 1 \in Int /\ q_head' + (i - 1) = q_head' + i - 1 /\ (q_head + 1) + (i - 1) = q_head + (i + 1) - 1
        /\ i + 1 \in 1 .. q_size
    BY <1>1, <1>6
  <2>2. (q_head' + i - 1) % q_cap = (q_head + (i + 1) - 1) % q_cap
    BY <1>4, <1>7, <2>1
  <2> QED BY <1>3, <1>5, <2>1, <2>2
<1>10. Tail(q_spec) = [i \in 1 .. q_size - 1 |-> q_data[(q_head' + i - 1) % q_cap]]
  <2>1. q_size - 1 \in Nat
    BY <1>1, <1>4
  <2> DEFINE s == Tail(q_spec)
             n == q_size - 1
             h == q_head'
  <2>2. s \in Seq(Nat) /\ n \in Nat /\ Len(s) = n /\ \A i \in 1 .. n : s[i] = q_data[(h + i - 1) % q_cap]
    BY <1>5, <1>9, <2>1
  <2> HIDE DEF s, n, h
  <2>3. s = [i \in 1 .. n |-> q_data[(h + i - 1) % q_cap]]
    BY <2>2, QSpecIs
  <2> QED BY <2>3 DEF s, n, h
<1>11. QAgrees'
  BY <1>4, <1>10 DEF QAgrees
<1>12. q_size' \in 0 .. q_cap'
  BY <1>1, <1>4
<1> QED BY <1>1, <1>4, <1>6, <1>8, <1>11, <1>12 DEF QInv

LEMMA QClearStep ==
  ASSUME QInv, QClear
  PROVE  QInv'
<1>1. /\ q_cap \in Nat \ {0} /\ q_data \in [0 .. q_cap - 1 -> Nat]
      /\ q_head' = 0 /\ q_tail' = 0 /\ q_size' = 0 /\ q_spec' = <<>> /\ q_data' = q_data /\ q_cap' = q_cap
  BY DEF QInv, QClear
<1>2. (0 + 0) % q_cap = 0 /\ 0 \in 0 .. q_cap - 1
  <2>1. 0 \in 0 .. q_cap - 1 /\ 0 + 0 = 0
    BY <1>1
  <2> QED BY <1>1, <2>1, ClModSmall
<1>3. <<>> = [i \in 1 .. 0 |-> q_data[(0 + i - 1) % q_cap]]
  OBVIOUS
<1>4. QAgrees'
  BY <1>1, <1>3 DEF QAgrees
<1> QED BY <1>1, <1>2, <1>4 DEF QInv

-----------------------------------------------------------------------------
(* Containers: the priority queue.                                          *)

LEMMA PqParent ==
  ASSUME NEW j \in Nat, j > 0
  PROVE  /\ Parent(j) \in Nat /\ Parent(j) < j
         /\ \A i \in Nat : Parent(j) = i <=> j = 2 * i + 1 \/ j = 2 * i + 2
<1>1. Parent(j) = (j - 1) \div 2 /\ j - 1 \in Nat
  BY DEF Parent
<1> QED BY <1>1

LEMMA PqEntry ==
  ASSUME PqType, cl_n \in Nat, NEW i \in 0 .. pq_size - 1
  PROVE  /\ pq_heap[i] \in ClPrios \X (1 .. cl_n) /\ Prio(i) \in Int /\ Prio(i) = pq_heap[i][1]
         /\ pq_heap[i][2] <= cl_n
<1>1. pq_heap[i] \in ClPrios \X (1 .. cl_n)
  BY DEF PqType
<1>2. pq_heap[i][1] \in ClPrios /\ pq_heap[i][2] \in 1 .. cl_n
  BY <1>1
<1>3. pq_heap[i][2] <= cl_n
  BY <1>2
<1> QED BY <1>1, <1>2, <1>3, ClAssumption DEF Prio

(* The entries change places. *)
LEMMA PqSwapFacts ==
  ASSUME PqType, cl_n \in Nat, PqHolds, NEW a \in 0 .. pq_size - 1, NEW b \in 0 .. pq_size - 1, a # b,
         pq_heap' = PqSwap(a, b), pq_size' = pq_size, pq_spec' = pq_spec, cl_n' = cl_n, pq_i' \in Nat
  PROVE  /\ PqType' /\ PqHolds'
         /\ pq_heap'[a] = pq_heap[b] /\ pq_heap'[b] = pq_heap[a]
         /\ \A i \in 0 .. pq_size - 1 : i # a /\ i # b => pq_heap'[i] = pq_heap[i]
<1>1. pq_heap \in [0 .. pq_size - 1 -> ClPrios \X (1 .. cl_n)] /\ pq_size \in Nat
  BY DEF PqType
<1>2. pq_heap' = [pq_heap EXCEPT ![a] = pq_heap[b], ![b] = pq_heap[a]]
  BY DEF PqSwap
<1>3. /\ pq_heap' \in [0 .. pq_size - 1 -> ClPrios \X (1 .. cl_n)]
      /\ pq_heap'[a] = pq_heap[b] /\ pq_heap'[b] = pq_heap[a]
      /\ \A i \in 0 .. pq_size - 1 : i # a /\ i # b => pq_heap'[i] = pq_heap[i]
  BY <1>1, <1>2
<1>4. PqType'
  BY <1>1, <1>3 DEF PqType
<1>5. {pq_heap'[i] : i \in 0 .. pq_size - 1} = {pq_heap[i] : i \in 0 .. pq_size - 1}
  <2>1. \A i \in 0 .. pq_size - 1 : \E j \in 0 .. pq_size - 1 : pq_heap'[i] = pq_heap[j]
    BY <1>3
  <2>2. \A j \in 0 .. pq_size - 1 : \E i \in 0 .. pq_size - 1 : pq_heap'[i] = pq_heap[j]
    BY <1>3
  <2> QED BY <2>1, <2>2
<1>6. \A i, j \in 0 .. pq_size - 1 : pq_heap'[i] = pq_heap'[j] => i = j
  <2>1. \A i, j \in 0 .. pq_size - 1 : pq_heap[i] = pq_heap[j] => i = j
    BY DEF PqHolds
  <2> QED BY <1>3, <2>1
<1>7. PqHolds'
  BY <1>5, <1>6 DEF PqHolds
<1> QED BY <1>3, <1>4, <1>7

LEMMA PqUpStep ==
  ASSUME PqInv, cl_n \in Nat, PqUp
  PROVE  PqInv'
<1>1. PqType /\ PqHolds /\ PqOrder /\ cl_at = "up"
  BY DEF PqInv, PqUp
<1>2. pq_size' = pq_size /\ pq_spec' = pq_spec /\ cl_n' = cl_n /\ pq_size \in Nat /\ pq_i \in Nat /\ pq_i < pq_size
  BY <1>1 DEF PqUp, PqType, PqOrder
<1> DEFINE R == 1 .. pq_size - 1
<1>3. \A j \in R : Prio(j) \in Int /\ Parent(j) \in 0 .. pq_size - 1 /\ Prio(Parent(j)) \in Int /\ Parent(j) < j /\ j \in 0 .. pq_size - 1
  <2>1. ASSUME NEW j \in R
        PROVE  j \in 0 .. pq_size - 1 /\ Parent(j) \in 0 .. pq_size - 1 /\ Parent(j) < j
    BY <1>2, PqParent
  <2> QED BY <1>1, <2>1, PqEntry
<1>4. CASE ~(pq_i > 0 /\ Prio(Parent(pq_i)) > Prio(pq_i))
  <2>1. cl_at' = "idle" /\ pq_i' = 0 /\ pq_heap' = pq_heap
    BY <1>4 DEF PqUp
  <2>2. PqType'
    BY <1>1, <1>2, <2>1 DEF PqType
  <2>3. PqHolds'
    BY <1>1, <1>2, <2>1 DEF PqHolds
  <2>4. ASSUME NEW j \in R PROVE Prio(Parent(j)) <= Prio(j)
    <3>1. CASE j = pq_i
      BY <1>3, <1>4, <3>1
    <3>2. CASE j # pq_i
      BY <1>1, <3>2 DEF PqOrder
    <3> QED BY <3>1, <3>2
  <2>5. PqOrder'
    BY <1>2, <2>1, <2>4 DEF PqOrder, Prio, Parent
  <2> QED BY <2>2, <2>3, <2>5 DEF PqInv
<1>5. CASE pq_i > 0 /\ Prio(Parent(pq_i)) > Prio(pq_i)
  <2> DEFINE i == pq_i
             p == Parent(pq_i)
  <2>1. cl_at' = cl_at /\ pq_i' = p /\ pq_heap' = PqSwap(p, i)
    BY <1>5 DEF PqUp
  <2>2. i \in R /\ i \in 0 .. pq_size - 1 /\ p \in 0 .. pq_size - 1 /\ p < i /\ p \in Nat /\ i \in Nat
    BY <1>2, <1>3, <1>5
  <2>3. Prio(p) > Prio(i)
    BY <1>5
  <2> HIDE DEF p, i
  <2>4. p # i
    BY <2>2
  <2>5. /\ PqType' /\ PqHolds' /\ pq_heap'[p] = pq_heap[i] /\ pq_heap'[i] = pq_heap[p]
        /\ \A j \in 0 .. pq_size - 1 : j # p /\ j # i => pq_heap'[j] = pq_heap[j]
    BY <1>1, <1>2, <2>1, <2>2, <2>4, PqSwapFacts
  <2> DEFINE P(j) == pq_heap'[j][1]
  <2>6. /\ P(p) = Prio(i) /\ P(i) = Prio(p)
        /\ \A j \in 0 .. pq_size - 1 : j # p /\ j # i => P(j) = Prio(j)
    BY <2>5 DEF Prio
  <2>7. Prio(p) \in Int /\ Prio(i) \in Int
    BY <1>1, <2>2, PqEntry
  <2>8. /\ \A j \in R : j # i => Prio(Parent(j)) <= Prio(j)
        /\ \A j \in R : Parent(j) = i => Prio(p) <= Prio(j)
    BY <1>1, <1>5 DEF PqOrder, i, p
  <2> HIDE DEF P
  <2>9. ASSUME NEW j \in R, j # p PROVE P(Parent(j)) <= P(j)
    <3>1. CASE j = i
      <4>1. Parent(j) = p
        BY <3>1 DEF i, p
      <4> QED BY <2>3, <2>6, <2>7, <3>1, <4>1
    <3>2. CASE j # i
      <4>1. P(j) = Prio(j) /\ Prio(j) \in Int /\ Parent(j) \in 0 .. pq_size - 1 /\ Prio(Parent(j)) \in Int
        BY <1>3, <2>6, <2>9, <3>2
      <4>2. CASE Parent(j) = p
        BY <2>3, <2>6, <2>7, <2>8, <3>2, <4>1, <4>2
      <4>3. CASE Parent(j) = i
        BY <2>6, <2>8, <4>1, <4>3
      <4>4. CASE Parent(j) # p /\ Parent(j) # i
        BY <2>6, <2>8, <3>2, <4>1, <4>4
      <4> QED BY <4>2, <4>3, <4>4
    <3> QED BY <3>1, <3>2
  <2>10. ASSUME NEW j \in R, Parent(j) = p, p > 0 PROVE P(Parent(p)) <= P(j)
    <3>1. p \in R
      BY <1>2, <2>2, <2>10
    <3>2. Parent(p) \in 0 .. pq_size - 1 /\ Parent(p) < p /\ Prio(Parent(p)) \in Int /\ Prio(Parent(p)) <= Prio(p)
      BY <1>3, <2>4, <2>8, <3>1
    <3>3. P(Parent(p)) = Prio(Parent(p))
      BY <2>2, <2>6, <3>2
    <3>4. CASE j = i
      BY <2>6, <3>2, <3>3, <3>4
    <3>5. CASE j # i
      <4>1. j # p /\ Prio(j) \in Int /\ j \in 0 .. pq_size - 1
        BY <1>3, <2>2, <2>10
      <4>2. P(j) = Prio(j) /\ Prio(p) <= Prio(j)
        BY <2>6, <2>8, <2>10, <3>5, <4>1
      <4> QED BY <2>7, <3>2, <3>3, <4>1, <4>2
    <3> QED BY <3>4, <3>5
  <2>11. PqOrder'
    <3>1. p < pq_size
      BY <1>2, <2>2
    <3> QED BY <1>1, <1>2, <2>1, <2>9, <2>10, <3>1 DEF PqOrder, Prio, Parent, P
  <2> QED BY <2>5, <2>11 DEF PqInv
<1> QED BY <1>4, <1>5

(* The smallest of an entry and its children. *)
LEMMA PqSmallestFacts ==
  ASSUME PqType, cl_n \in Nat, pq_i < pq_size
  PROVE  /\ PqSmallest \in 0 .. pq_size - 1
         /\ PqSmallest # pq_i => PqSmallest > 0 /\ Parent(PqSmallest) = pq_i /\ Prio(PqSmallest) < Prio(pq_i)
         /\ \A j \in 1 .. pq_size - 1 : Parent(j) = pq_i => Prio(PqSmallest) <= Prio(j)
<1> DEFINE i == pq_i
           l == 2 * i + 1
           r == 2 * i + 2
           m == IF l < pq_size /\ Prio(l) < Prio(i) THEN l ELSE i
           s == IF r < pq_size /\ Prio(r) < Prio(m) THEN r ELSE m
<1>1. i \in Nat /\ pq_size \in Nat /\ i < pq_size /\ l \in Nat /\ r \in Nat /\ l > 0 /\ r > 0 /\ l > i /\ r > i
  BY DEF PqType
<1>2. s = PqSmallest
  BY DEF PqSmallest
<1>3. Parent(l) = i /\ Parent(r) = i
  BY <1>1, PqParent
<1>4. \A j \in 1 .. pq_size - 1 : Parent(j) = i => j = l \/ j = r
  <2>1. ASSUME NEW j \in 1 .. pq_size - 1, Parent(j) = i PROVE j = l \/ j = r
    <3>1. j \in Nat /\ j > 0
      OBVIOUS
    <3> QED BY <1>1, <2>1, <3>1, PqParent
  <2> QED BY <2>1
<1>5. \A x \in 0 .. pq_size - 1 : Prio(x) \in Int
  BY PqEntry
<1>6. i \in 0 .. pq_size - 1 /\ (l < pq_size => l \in 0 .. pq_size - 1) /\ (r < pq_size => r \in 0 .. pq_size - 1)
  BY <1>1
<1> HIDE DEF i, l, r
<1>7. /\ m \in 0 .. pq_size - 1 /\ Prio(m) <= Prio(i) /\ (l < pq_size => Prio(m) <= Prio(l))
      /\ (m = i \/ (m = l /\ Prio(l) < Prio(i)))
  BY <1>5, <1>6
<1> HIDE DEF m
<1>8. /\ s \in 0 .. pq_size - 1 /\ Prio(s) <= Prio(i) /\ (l < pq_size => Prio(s) <= Prio(l))
      /\ (r < pq_size => Prio(s) <= Prio(r))
      /\ (s = i \/ (s = l /\ Prio(l) < Prio(i)) \/ (s = r /\ Prio(r) < Prio(i)))
  BY <1>5, <1>6, <1>7
<1> HIDE DEF s
<1>9. \A j \in 1 .. pq_size - 1 : Parent(j) = i => Prio(s) <= Prio(j)
  <2>1. \A j \in 1 .. pq_size - 1 : j < pq_size
    BY <1>1
  <2> QED BY <1>4, <1>8, <2>1
<1> QED BY <1>1, <1>2, <1>3, <1>8, <1>9 DEF i

LEMMA PqDownStep ==
  ASSUME PqInv, cl_n \in Nat, PqDown
  PROVE  PqInv'
<1>1. PqType /\ PqHolds /\ PqOrder /\ cl_at = "down"
  BY DEF PqInv, PqDown
<1>2. pq_size' = pq_size /\ pq_spec' = pq_spec /\ cl_n' = cl_n /\ pq_size \in Nat /\ pq_i \in Nat
  BY <1>1 DEF PqDown, PqType
<1>3. pq_i < pq_size \/ (pq_size = 0 /\ pq_i = 0)
  BY <1>1, <1>2 DEF PqOrder
<1> DEFINE R == 1 .. pq_size - 1
<1>4. \A j \in R : Prio(j) \in Int /\ Parent(j) \in 0 .. pq_size - 1 /\ Prio(Parent(j)) \in Int /\ Parent(j) < j /\ j \in 0 .. pq_size - 1
  <2>1. ASSUME NEW j \in R
        PROVE  j \in 0 .. pq_size - 1 /\ Parent(j) \in 0 .. pq_size - 1 /\ Parent(j) < j
    BY <1>2, PqParent
  <2> QED BY <1>1, <2>1, PqEntry
<1>5. /\ \A j \in R : Parent(j) # pq_i => Prio(Parent(j)) <= Prio(j)
      /\ \A j \in R : Parent(j) = pq_i /\ pq_i > 0 => Prio(Parent(pq_i)) <= Prio(j)
  BY <1>1 DEF PqOrder
<1>6. CASE PqSmallest = pq_i
  <2>1. cl_at' = "idle" /\ pq_i' = 0 /\ pq_heap' = pq_heap
    BY <1>6 DEF PqDown
  <2>2. PqType'
    BY <1>1, <1>2, <2>1 DEF PqType
  <2>3. PqHolds'
    BY <1>1, <1>2, <2>1 DEF PqHolds
  <2>4. ASSUME NEW j \in R PROVE Prio(Parent(j)) <= Prio(j)
    <3>1. pq_i < pq_size
      BY <1>2, <1>3
    <3>2. CASE Parent(j) = pq_i
      BY <1>1, <1>6, <3>1, <3>2, PqSmallestFacts
    <3> QED BY <1>5, <3>2
  <2>5. PqOrder'
    BY <1>2, <2>1, <2>4 DEF PqOrder, Prio, Parent
  <2> QED BY <2>2, <2>3, <2>5 DEF PqInv
<1>7. CASE PqSmallest # pq_i
  <2> DEFINE i == pq_i
             s == PqSmallest
  <2>1. cl_at' = cl_at /\ pq_i' = s /\ pq_heap' = PqSwap(i, s)
    BY <1>7 DEF PqDown
  <2>2. pq_i < pq_size
    <3>1. SUFFICES ASSUME pq_size = 0, pq_i = 0 PROVE FALSE
      BY <1>3
    <3>2. ~(2 * pq_i + 1 < pq_size) /\ ~(2 * pq_i + 2 < pq_size)
      BY <3>1
    <3> QED BY <1>7, <3>2 DEF PqSmallest
  <2>3. /\ s \in 0 .. pq_size - 1 /\ s > 0 /\ Parent(s) = i /\ Prio(s) < Prio(i)
        /\ \A j \in R : Parent(j) = i => Prio(s) <= Prio(j)
    BY <1>1, <1>7, <2>2, PqSmallestFacts
  <2>4. i \in 0 .. pq_size - 1 /\ s \in Nat /\ s \in R /\ s # i
    BY <1>2, <1>7, <2>2, <2>3
  <2>5. /\ \A j \in R : Parent(j) # i => Prio(Parent(j)) <= Prio(j)
        /\ \A j \in R : Parent(j) = i /\ i > 0 => Prio(Parent(i)) <= Prio(j)
    BY <1>5
  <2>6. i \in Nat
    BY <1>2
  <2> HIDE DEF i, s
  <2>7. /\ PqType' /\ PqHolds' /\ pq_heap'[i] = pq_heap[s] /\ pq_heap'[s] = pq_heap[i]
        /\ \A j \in 0 .. pq_size - 1 : j # i /\ j # s => pq_heap'[j] = pq_heap[j]
    BY <1>1, <1>2, <2>1, <2>3, <2>4, PqSwapFacts
  <2> DEFINE P(j) == pq_heap'[j][1]
  <2>8. /\ P(i) = Prio(s) /\ P(s) = Prio(i)
        /\ \A j \in 0 .. pq_size - 1 : j # i /\ j # s => P(j) = Prio(j)
    BY <2>7 DEF Prio
  <2>9. Prio(s) \in Int /\ Prio(i) \in Int
    BY <1>1, <2>3, <2>4, PqEntry
  <2> HIDE DEF P
  <2>10. ASSUME NEW j \in R, Parent(j) # s PROVE P(Parent(j)) <= P(j)
    <3>1. Prio(j) \in Int /\ Parent(j) \in 0 .. pq_size - 1 /\ Prio(Parent(j)) \in Int /\ Parent(j) < j /\ j \in 0 .. pq_size - 1
      BY <1>4
    <3>2. CASE j = s
      BY <2>3, <2>8, <2>9, <3>2
    <3>3. CASE j = i
      <4>1. i > 0 /\ Parent(i) # i
        BY <2>6, <3>1, <3>3
      <4>2. P(Parent(i)) = Prio(Parent(i)) /\ Prio(Parent(i)) <= Prio(s)
        BY <2>3, <2>4, <2>5, <2>8, <2>10, <3>1, <3>3, <4>1
      <4> QED BY <2>8, <3>3, <4>2
    <3>4. CASE j # s /\ j # i
      <4>1. P(j) = Prio(j)
        BY <2>8, <3>1, <3>4
      <4>2. CASE Parent(j) = i
        BY <2>3, <2>8, <4>1, <4>2
      <4>3. CASE Parent(j) # i
        BY <2>5, <2>8, <2>10, <3>1, <4>1, <4>3
      <4> QED BY <4>2, <4>3
    <3> QED BY <3>2, <3>3, <3>4
  <2>11. ASSUME NEW j \in R, Parent(j) = s PROVE P(Parent(s)) <= P(j)
    <3>1. Prio(j) \in Int /\ Parent(j) < j /\ j \in 0 .. pq_size - 1 /\ Parent(s) < s
      BY <1>4, <2>4
    <3>2. j # s /\ j # i
      BY <2>3, <2>4, <2>6, <2>11, <3>1
    <3>3. P(j) = Prio(j) /\ Prio(s) <= Prio(j)
      BY <2>4, <2>5, <2>8, <2>11, <3>1, <3>2
    <3> QED BY <2>3, <2>8, <3>3
  <2>12. PqOrder'
    <3>1. s < pq_size
      BY <1>2, <2>3
    <3> QED BY <1>1, <1>2, <2>1, <2>10, <2>11, <3>1 DEF PqOrder, Prio, Parent, P
  <2> QED BY <2>7, <2>12 DEF PqInv
<1> QED BY <1>6, <1>7

LEMMA PqFrame ==
  ASSUME PqInv, UNCHANGED pqVars, cl_n \in Nat, cl_n' \in Nat, cl_n' >= cl_n,
         cl_at \notin {"up", "down"}, cl_at' \notin {"up", "down"}
  PROVE  PqInv'
<1>1. pq_heap' = pq_heap /\ pq_size' = pq_size /\ pq_i' = pq_i /\ pq_spec' = pq_spec
  BY DEF pqVars
<1>2. PqType'
  <2>1. 1 .. cl_n \subseteq 1 .. cl_n'
    OBVIOUS
  <2>2. pq_heap \in [0 .. pq_size - 1 -> ClPrios \X (1 .. cl_n)] /\ pq_size \in Nat /\ pq_i \in Nat
    BY DEF PqInv, PqType
  <2>3. pq_heap \in [0 .. pq_size - 1 -> ClPrios \X (1 .. cl_n')]
    BY <2>1, <2>2
  <2> QED BY <1>1, <2>2, <2>3 DEF PqType
<1>3. PqHolds'
  BY <1>1 DEF PqInv, PqHolds
<1>4. PqOrder'
  BY <1>1 DEF PqInv, PqOrder, Prio, Parent
<1> QED BY <1>2, <1>3, <1>4 DEF PqInv

LEMMA PqPushStep ==
  ASSUME PqInv, cl_n \in Nat, NEW p \in ClPrios, PqPush(p)
  PROVE  PqInv'
<1>1. PqType /\ PqHolds /\ PqOrder /\ cl_at = "idle" /\ cl_n' = cl_n + 1
  BY DEF PqInv, PqPush, Idle
<1>2. pq_size \in Nat /\ pq_heap \in [0 .. pq_size - 1 -> ClPrios \X (1 .. cl_n)]
  BY <1>1 DEF PqType
<1> DEFINE e == <<p, cl_n + 1>>
           n == pq_size
<1>3. CASE /\ pq_heap' = [i \in 0 .. n |-> IF i = n THEN e ELSE pq_heap[i]]
           /\ pq_size' = n + 1 /\ pq_i' = n /\ cl_at' = "up"
           /\ pq_spec' = pq_spec \cup {e}
  <2>1. e \in ClPrios \X (1 .. cl_n + 1)
    OBVIOUS
  <2>2. \A i \in 0 .. n - 1 : pq_heap[i] \in ClPrios \X (1 .. cl_n + 1) /\ pq_heap[i] # e
    <3>1. ASSUME NEW i \in 0 .. n - 1 PROVE pq_heap[i] \in ClPrios \X (1 .. cl_n + 1) /\ pq_heap[i] # e
      <4>1. pq_heap[i] \in ClPrios \X (1 .. cl_n) /\ pq_heap[i][2] <= cl_n
        BY <1>1, PqEntry
      <4>2. pq_heap[i] \in ClPrios \X (1 .. cl_n + 1)
        BY <4>1
      <4>3. e[2] = cl_n + 1 /\ ~(cl_n + 1 <= cl_n)
        OBVIOUS
      <4> QED BY <4>1, <4>2, <4>3
    <3> QED BY <3>1
  <2>3. \A i \in 0 .. n : i = n \/ i \in 0 .. n - 1
    BY <1>2
  <2>4. n \in 0 .. n /\ n \notin 0 .. n - 1 /\ 0 .. n - 1 \subseteq 0 .. n /\ n + 1 \in Nat /\ (n + 1) - 1 = n /\ n \in Nat
    BY <1>2
  <2> HIDE DEF e, n
  <2>5. pq_heap'[n] = e /\ \A i \in 0 .. n - 1 : pq_heap'[i] = pq_heap[i]
    BY <1>3, <2>4
  <2>6. PqType'
    <3>1. pq_heap' \in [0 .. n -> ClPrios \X (1 .. cl_n + 1)]
      BY <1>3, <2>1, <2>2, <2>3
    <3> QED BY <1>1, <1>3, <2>4, <3>1 DEF PqType
  <2>7. PqHolds'
    <3>1. {pq_heap[i] : i \in 0 .. n - 1} = pq_spec /\ IsFiniteSet(pq_spec) /\ n = Cardinality(pq_spec)
          /\ \A i, j \in 0 .. n - 1 : pq_heap[i] = pq_heap[j] => i = j
      BY <1>1 DEF PqHolds, n
    <3>2. e \notin pq_spec
      BY <2>2, <3>1
    <3>3. IsFiniteSet(pq_spec \cup {e}) /\ Cardinality(pq_spec \cup {e}) = n + 1
      BY <3>1, <3>2, FS_AddElement
    <3>4. {pq_heap'[i] : i \in 0 .. n} = pq_spec \cup {e}
      <4>1. \A i \in 0 .. n : pq_heap'[i] \in pq_spec \cup {e}
        BY <2>3, <2>5, <3>1
      <4>2. \A x \in pq_spec \cup {e} : \E i \in 0 .. n : pq_heap'[i] = x
        BY <2>4, <2>5, <3>1
      <4> QED BY <4>1, <4>2
    <3>5. \A i, j \in 0 .. n : pq_heap'[i] = pq_heap'[j] => i = j
      BY <2>2, <2>3, <2>5, <3>1
    <3> QED BY <1>3, <2>4, <3>3, <3>4, <3>5 DEF PqHolds
  <2>8. PqOrder'
    <3> DEFINE P(j) == pq_heap'[j][1]
    <3>1. \A j \in 0 .. n - 1 : P(j) = Prio(j)
      BY <2>5 DEF Prio
    <3>2. \A j \in 1 .. n : j \in Nat /\ j > 0 /\ Parent(j) \in Nat /\ Parent(j) < j
      BY <2>4, PqParent
    <3> HIDE DEF P
    <3>3. ASSUME NEW j \in 1 .. n, j # n PROVE P(Parent(j)) <= P(j)
      <4>1. j \in 1 .. n - 1 /\ j \in 0 .. n - 1 /\ Parent(j) \in 0 .. n - 1
        BY <2>4, <3>2, <3>3
      <4>2. Prio(Parent(j)) <= Prio(j)
        BY <1>1, <4>1 DEF PqOrder, n
      <4> QED BY <3>1, <4>1, <4>2
    <3>4. \A j \in 1 .. n : Parent(j) # n
      BY <2>4, <3>2
    <3>5. n < n + 1
      BY <2>4
    <3> QED BY <1>3, <2>4, <3>3, <3>4, <3>5 DEF PqOrder, Prio, Parent, P
  <2> QED BY <2>6, <2>7, <2>8 DEF PqInv
<1>4. CASE UNCHANGED <<cl_at, pqVars>>
  BY <1>1, <1>4, PqFrame
<1> QED BY <1>3, <1>4 DEF PqPush

LEMMA PqPopStep ==
  ASSUME PqInv, cl_n \in Nat, PqPop
  PROVE  PqInv'
<1>1. PqType /\ PqHolds /\ PqOrder /\ cl_at = "idle" /\ pq_size > 0
  BY DEF PqInv, PqPop, Idle
<1>2. pq_size \in Nat /\ pq_heap \in [0 .. pq_size - 1 -> ClPrios \X (1 .. cl_n)]
  BY <1>1 DEF PqType
<1> DEFINE n == pq_size - 1
<1>3. /\ pq_heap' = [i \in 0 .. pq_size - 2 |-> IF i = 0 THEN pq_heap[pq_size - 1] ELSE pq_heap[i]]
      /\ pq_size' = n /\ pq_i' = 0 /\ cl_at' = "down" /\ pq_spec' = pq_spec \ {pq_heap[0]} /\ cl_n' = cl_n
  BY DEF PqPop
<1>4. n \in Nat /\ pq_size = n + 1 /\ pq_size - 2 = n - 1
  BY <1>1, <1>2
<1>5. pq_heap' = [i \in 0 .. n - 1 |-> IF i = 0 THEN pq_heap[n] ELSE pq_heap[i]]
  BY <1>3, <1>4
<1>6. /\ pq_heap \in [0 .. n -> ClPrios \X (1 .. cl_n)]
      /\ {pq_heap[i] : i \in 0 .. n} = pq_spec /\ IsFiniteSet(pq_spec) /\ n + 1 = Cardinality(pq_spec)
      /\ \A i, j \in 0 .. n : pq_heap[i] = pq_heap[j] => i = j
      /\ \A j \in 1 .. n : Prio(Parent(j)) <= Prio(j)
  BY <1>1, <1>2, <1>4 DEF PqHolds, PqOrder
<1> HIDE DEF n
<1>7. 0 \in 0 .. n /\ n \in 0 .. n /\ 0 .. n - 1 \subseteq 0 .. n /\ n \notin 0 .. n - 1 /\ \A i \in 0 .. n : i = n \/ i \in 0 .. n - 1
  BY <1>4
<1>8. \A i \in 0 .. n - 1 : pq_heap'[i] = IF i = 0 THEN pq_heap[n] ELSE pq_heap[i]
  BY <1>5
<1>9. PqType'
  <2>1. pq_heap' \in [0 .. n - 1 -> ClPrios \X (1 .. cl_n)]
    BY <1>5, <1>6, <1>7
  <2> QED BY <1>3, <1>4, <2>1 DEF PqType
<1>10. PqHolds'
  <2>1. pq_heap[0] \in pq_spec
    BY <1>6, <1>7
  <2>2. IsFiniteSet(pq_spec \ {pq_heap[0]}) /\ Cardinality(pq_spec \ {pq_heap[0]}) = (n + 1) - 1
    BY <1>6, <2>1, FS_RemoveElement
  <2>3. (n + 1) - 1 = n
    BY <1>4
  <2>4. \A i \in 0 .. n - 1 : pq_heap'[i] \in pq_spec \ {pq_heap[0]}
    <3>1. ASSUME NEW i \in 0 .. n - 1 PROVE pq_heap'[i] \in pq_spec \ {pq_heap[0]}
      <4>1. CASE i = 0
        <5>1. n # 0 /\ pq_heap'[i] = pq_heap[n]
          BY <1>7, <1>8, <4>1
        <5> QED BY <1>6, <1>7, <5>1
      <4>2. CASE i # 0
        <5>1. pq_heap'[i] = pq_heap[i] /\ i \in 0 .. n
          BY <1>7, <1>8, <4>2
        <5> QED BY <1>6, <1>7, <4>2, <5>1
      <4> QED BY <4>1, <4>2
    <3> QED BY <3>1
  <2>5. \A x \in pq_spec \ {pq_heap[0]} : \E i \in 0 .. n - 1 : pq_heap'[i] = x
    <3>1. ASSUME NEW x \in pq_spec, x # pq_heap[0] PROVE \E i \in 0 .. n - 1 : pq_heap'[i] = x
      <4>1. PICK i \in 0 .. n : pq_heap[i] = x
        BY <1>6
      <4>2. i # 0
        BY <3>1, <4>1
      <4>3. CASE i = n
        <5>1. 0 \in 0 .. n - 1
          BY <1>4, <4>2, <4>3
        <5> QED BY <1>8, <4>1, <4>3, <5>1
      <4>4. CASE i # n
        <5>1. i \in 0 .. n - 1
          BY <1>7, <4>4
        <5> QED BY <1>8, <4>1, <4>2, <5>1
      <4> QED BY <4>3, <4>4
    <3> QED BY <3>1
  <2>6. {pq_heap'[i] : i \in 0 .. n - 1} = pq_spec \ {pq_heap[0]}
    BY <2>4, <2>5
  <2>7. \A i, j \in 0 .. n - 1 : pq_heap'[i] = pq_heap'[j] => i = j
    BY <1>6, <1>7, <1>8
  <2> QED BY <1>3, <2>2, <2>3, <2>6, <2>7 DEF PqHolds
<1>11. PqOrder'
  <2> DEFINE P(j) == pq_heap'[j][1]
  <2>1. \A j \in 0 .. n - 1 : j # 0 => P(j) = Prio(j)
    BY <1>8 DEF Prio
  <2> HIDE DEF P
  <2>2. ASSUME NEW j \in 1 .. n - 1, Parent(j) # 0 PROVE P(Parent(j)) <= P(j)
    <3>1. j \in Nat /\ j > 0
      BY <1>4
    <3>2. Parent(j) \in Nat /\ Parent(j) < j
      BY <3>1, PqParent
    <3>3. Parent(j) \in 0 .. n - 1 /\ j \in 0 .. n - 1 /\ j # 0 /\ j \in 1 .. n
      BY <1>4, <3>2
    <3> QED BY <1>6, <2>1, <2>2, <3>3
  <2>3. \A j \in 1 .. n - 1 : Parent(j) # 0 => P(Parent(j)) <= P(j)
    BY <2>2
  <2>4. ~(0 > 0)
    OBVIOUS
  <2> QED BY <1>3, <2>3, <2>4 DEF PqOrder, Prio, Parent, P
<1> QED BY <1>9, <1>10, <1>11 DEF PqInv

(* The first entry of an ordered heap is a least one. *)
LEMMA PqRoot ==
  ASSUME PqInv, cl_n \in Nat, cl_at = "idle"
  PROVE  PqAgrees
<1>1. PqType /\ PqHolds /\ PqOrder /\ pq_size \in Nat
  BY DEF PqInv, PqType
<1> DEFINE S == {j \in 0 .. pq_size - 1 : ~(Prio(0) <= Prio(j))}
<1>2. S = {}
  <2>1. SUFFICES ASSUME S # {} PROVE FALSE
    OBVIOUS
  <2>2. S \subseteq Nat
    BY <1>1
  <2>3. PICK j \in S : \A y \in S : j <= y
    BY <2>1, <2>2, SmallestExists
  <2>4. j \in 0 .. pq_size - 1 /\ ~(Prio(0) <= Prio(j)) /\ 0 \in 0 .. pq_size - 1
    BY <1>1
  <2>5. Prio(0) \in Int /\ Prio(j) \in Int
    BY <1>1, <2>4, PqEntry
  <2>6. j \in Nat /\ j > 0 /\ j \in 1 .. pq_size - 1
    BY <1>1, <2>4, <2>5
  <2>7. Parent(j) \in Nat /\ Parent(j) < j
    BY <2>6, PqParent
  <2>8. Parent(j) \in 0 .. pq_size - 1 /\ ~(j <= Parent(j))
    BY <1>1, <2>6, <2>7
  <2>9. Prio(0) <= Prio(Parent(j))
    BY <2>3, <2>8
  <2>10. Prio(Parent(j)) <= Prio(j) /\ Prio(Parent(j)) \in Int
    BY <1>1, <2>6, <2>8, PqEntry DEF PqOrder
  <2> QED BY <2>4, <2>5, <2>9, <2>10
<1>3. \A i \in 0 .. pq_size - 1 : Prio(0) <= Prio(i)
  BY <1>2
<1> QED BY <1>1, <1>3 DEF PqHolds, PqAgrees

LEMMA QFrame ==
  ASSUME QInv, UNCHANGED qVars
  PROVE  QInv'
BY DEF qVars, QInv, QAgrees

LEMMA ClInitInv == ClInit => ClInv
<1> SUFFICES ASSUME ClInit PROVE ClInv
  OBVIOUS
<1>1. cl_at = "idle" /\ cl_n = 0 /\ cl_at \in ClLoops /\ cl_n \in Nat
  BY DEF ClInit, ClLoops
<1>2. MapInv
  <2>1. /\ map_slots = MapSlots(map_cap) /\ map_cap = ClMapCap /\ map_size = 0
        /\ map_old = MapSlots(0) /\ map_i = 0 /\ map_put = NoPut /\ map_e = MapEmpty /\ map_idx = 0
        /\ map_want = 0 /\ map_target = 0
        /\ map_spec = [k \in ClKeys |-> 0] /\ map_broken = FALSE
    BY DEF ClInit
  <2>2. map_hash \in [ClKeys -> Nat]
    <3>1. map_hash \in ClHashes
      BY ClAssumption DEF ClInit
    <3> QED BY <3>1, ClAssumption
  <2>3. map_cap \in Nat \ {0, 1} /\ map_cap >= ClMapCap /\ 0 \in 0 .. map_cap /\ 0 \in 0 .. map_cap - 1 /\ 0 < map_cap
    BY <2>1, ClAssumption
  <2>4. MapSlots(map_cap) \in [0 .. map_cap - 1 -> MapSlot] /\ MapSlots(0) \in [0 .. 0 - 1 -> MapSlot] /\ MapEmpty \in MapSlot
    BY DEF MapSlots, MapSlot
  <2>5. MapType
    BY <2>1, <2>2, <2>3, <2>4 DEF MapType
  <2>6. MapControl
    BY <1>1, <2>1 DEF MapControl, Inserting
  <2>7. MapTaken = {} /\ MapPending = {}
    <3>1. MapTaken = {}
      BY <2>1 DEF MapTaken, MapSlots
    <3>2. DOMAIN map_old = {}
      BY <2>1 DEF MapSlots
    <3> QED BY <3>1, <3>2 DEF MapPending
  <2>8. MapCount
    <3>1. Cardinality({}) = 0
      BY FS_EmptySet
    <3> QED BY <1>1, <2>1, <2>3, <2>7, <3>1 DEF MapCount
  <2>9. MapTable
    <3>1. ASSUME NEW x \in DOMAIN map_slots PROVE ~(map_slots[MapNext(x)].dib > 0)
      <4>1. DOMAIN map_slots = 0 .. map_cap - 1 /\ MapNext(x) \in 0 .. map_cap - 1
        <5>1. DOMAIN map_slots = 0 .. map_cap - 1
          BY <2>1 DEF MapSlots
        <5>2. x + 1 \in Int /\ map_cap \in Nat \ {0}
          BY <2>3, <5>1
        <5> QED BY <5>1, <5>2, DivMod DEF MapNext
      <4>2. map_slots[MapNext(x)] = MapEmpty
        BY <2>1, <4>1 DEF MapSlots
      <4> QED BY <4>2 DEF MapEmpty
    <3> QED BY <2>7, <3>1 DEF MapTable
  <2>10. MapHand /\ MapContent
    BY <2>1, <2>7 DEF MapHand, MapContent
  <2> QED BY <2>5, <2>6, <2>8, <2>9, <2>10 DEF MapInv
<1>3. QInv
  <2>1. /\ q_data = [i \in 0 .. ClQueueCap - 1 |-> Null] /\ q_cap = ClQueueCap
        /\ q_head = 0 /\ q_tail = 0 /\ q_size = 0 /\ q_spec = <<>> /\ q_cap \in Nat \ {0}
    BY ClAssumption DEF ClInit
  <2>2. 0 \in 0 .. q_cap - 1 /\ 0 \in 0 .. q_cap /\ 0 + 0 = 0
    BY <2>1
  <2>3. 0 % q_cap = 0
    BY <2>1, <2>2, ClModSmall
  <2>4. QAgrees
    BY <2>1 DEF QAgrees
  <2> QED BY <2>1, <2>2, <2>3, <2>4 DEF QInv, Null
<1>4. PqInv
  <2>1. pq_heap = [i \in 0 .. -1 |-> Null] /\ pq_size = 0 /\ pq_i = 0 /\ pq_spec = {} /\ 0 - 1 = -1 /\ 0 .. -1 = {} /\ 1 .. -1 = {}
    BY DEF ClInit
  <2>2. PqType
    BY <2>1 DEF PqType
  <2>3. PqHolds
    BY <2>1, FS_EmptySet DEF PqHolds
  <2>4. PqOrder
    BY <1>1, <2>1 DEF PqOrder
  <2> QED BY <2>2, <2>3, <2>4 DEF PqInv
<1> QED BY <1>1, <1>2, <1>3, <1>4 DEF ClInv

LEMMA ClMapStep ==
  ASSUME ClInv,
         \/ \E k \in ClKeys : MapRemove(k) \/ \E v \in ClVals : MapPut(k, v)
         \/ MapRehash \/ MapRehashed \/ InsertFree \/ InsertSame \/ InsertCarry
         \/ ReserveDouble \/ ReserveRehash \/ MapClear \/ \E n \in ClReserves : MapReserve(n)
  PROVE  ClInv'
<1>1. cl_at \in ClLoops /\ cl_n \in Nat /\ MapInv /\ QInv /\ PqInv
  BY DEF ClInv
<1>2. MapInv'
  BY <1>1, MapRemoveStep, MapPutStep, MapRehashStep, MapRehashedStep, InsertFreeStep, InsertSameStep,
     InsertCarryStep, MapReserveSteps, MapClearStep
<1>3. UNCHANGED qVars /\ UNCHANGED pqVars /\ cl_n' = cl_n
  BY DEF MapRemove, MapPut, MapRehash, MapRehashed, InsertFree, InsertSame, InsertCarry,
         ReserveDouble, ReserveRehash, MapClear, MapReserve
<1>4. cl_at \notin {"up", "down"} /\ cl_at' \notin {"up", "down"} /\ cl_at' \in ClLoops
  BY <1>1 DEF MapRemove, MapPut, MapRehash, MapRehashed, InsertFree, InsertSame, InsertCarry, InsertReturns, Inserting,
         ReserveDouble, ReserveRehash, MapClear, MapReserve, Idle, BeginRehash, PutEntry, ClLoops
<1>5. QInv'
  BY <1>1, <1>3, QFrame
<1>6. cl_n' \in Nat /\ cl_n' >= cl_n
  BY <1>1, <1>3
<1>7. PqInv'
  BY <1>1, <1>3, <1>4, <1>6, PqFrame
<1> QED BY <1>2, <1>4, <1>5, <1>6, <1>7 DEF ClInv

LEMMA ClQueueStep ==
  ASSUME ClInv, QEnqueue \/ QDequeue \/ QClear
  PROVE  ClInv'
<1>1. cl_at \in ClLoops /\ cl_n \in Nat /\ MapInv /\ QInv /\ PqInv
  BY DEF ClInv
<1>2. cl_at = "idle" /\ cl_at' = "idle" /\ UNCHANGED mapVars /\ UNCHANGED pqVars
  BY DEF QEnqueue, QDequeue, QClear, Idle
<1>3. cl_n' = cl_n + 1 \/ cl_n' = cl_n
  BY DEF QEnqueue, QDequeue, QClear
<1>4. cl_n' \in Nat /\ cl_n' >= cl_n
  BY <1>1, <1>3
<1>5. MapInv'
  <2>1. map_want \in Nat /\ map_target \in Nat
    BY <1>1 DEF MapInv, MapType
  <2> QED BY <1>1, <1>2, <2>1, MapFrame DEF mapVars, reserveVars
<1>6. QInv'
  BY <1>1, QEnqueueStep, QDequeueStep, QClearStep
<1>7. PqInv'
  BY <1>1, <1>2, <1>4, PqFrame
<1> QED BY <1>2, <1>4, <1>5, <1>6, <1>7 DEF ClInv, ClLoops

LEMMA ClPqStep ==
  ASSUME ClInv, PqUp \/ PqPop \/ PqDown \/ \E p \in ClPrios : PqPush(p)
  PROVE  ClInv'
<1>1. cl_at \in ClLoops /\ cl_n \in Nat /\ MapInv /\ QInv /\ PqInv
  BY DEF ClInv
<1>2. UNCHANGED mapVars /\ UNCHANGED qVars
  BY DEF PqUp, PqPop, PqDown, PqPush
<1>3. cl_at \in {"idle", "up", "down"} /\ cl_at' \in {"idle", "up", "down"}
  BY DEF PqUp, PqPop, PqDown, PqPush, Idle
<1>4. cl_n' = cl_n + 1 \/ cl_n' = cl_n
  BY DEF PqUp, PqPop, PqDown, PqPush
<1>5. MapInv'
  <2>1. map_want \in Nat /\ map_target \in Nat
    BY <1>1 DEF MapInv, MapType
  <2> QED BY <1>1, <1>2, <1>3, <2>1, MapFrame DEF mapVars, reserveVars
<1>6. QInv'
  BY <1>1, <1>2, QFrame
<1>7. PqInv'
  BY <1>1, PqUpStep, PqPopStep, PqDownStep, PqPushStep
<1>8. cl_n' \in Nat
  BY <1>1, <1>4
<1> QED BY <1>3, <1>5, <1>6, <1>7, <1>8 DEF ClInv, ClLoops

LEMMA ClStutter ==
  ASSUME ClInv, UNCHANGED clVars
  PROVE  ClInv'
<1>1. /\ UNCHANGED <<cl_which, cl_at, map_hash, map_slots, map_cap, map_size, map_old, map_i, map_put, map_e, map_idx>>
      /\ UNCHANGED <<map_want, map_target, map_spec, map_broken, cl_n, pq_heap, pq_size, pq_i, pq_spec>>
      /\ UNCHANGED qVars
  BY DEF clVars, mapVars, growVars, insertVars, reserveVars, pqVars
<1>2. MapInv'
  <2>1. MapTaken' = MapTaken /\ MapPending' = MapPending
    BY <1>1 DEF MapTaken, MapPending
  <2> QED BY <1>1, <2>1 DEF ClInv, MapInv, MapType, MapControl, MapCount, MapTable, MapHand, MapContent, Inserting, MapNext, Probe
<1>3. QInv' /\ PqInv'
  BY <1>1, QFrame DEF ClInv, PqInv, PqType, PqHolds, PqOrder, Prio
<1> QED BY <1>1, <1>2, <1>3 DEF ClInv

(* The containers keep their invariant through every iteration of every     *)
(* loop of collections.c: the table of the map is a Robin Hood table with   *)
(* a free slot, which holds what was put once and only once, also while it  *)
(* is moved; the ring is the queue; the heap is ordered but for the place   *)
(* where a loop is at work.                                                 *)
THEOREM ClInvariant == ClSpec => []ClInv
<1>1. ASSUME ClInv, [ClNext]_clVars PROVE ClInv'
  <2>1. CASE UNCHANGED clVars
    BY <1>1, <2>1, ClStutter
  <2>2. CASE ClNext
    BY <1>1, <2>2, ClMapStep, ClQueueStep, ClPqStep DEF ClNext
  <2> QED BY <1>1, <2>1, <2>2
<1> QED BY <1>1, ClInitInv, PTL DEF ClSpec

(* Between two calls a NuwanMap has a free slot, so that every probe ends,  *)
(* and unless an entry was removed from inside a chain get, has and the     *)
(* size are those of the map that was put together; a NuwanQueue is the     *)
(* sequence of what was enqueued and not dequeued; a NuwanPQ holds what was *)
(* pushed and not popped with a least priority in front.                    *)
THEOREM ContainersAgree == ClSpec => []ClAgree
<1>1. ClInv => ClAgree
  <2> SUFFICES ASSUME ClInv, cl_at = "idle" PROVE MapProbesEnd /\ MapAgrees /\ QAgrees /\ PqAgrees
    BY DEF ClAgree
  <2>1. MapInv /\ QAgrees /\ PqInv /\ cl_n \in Nat
    BY DEF ClInv, QInv
  <2> QED BY <2>1, MapAgreesNow, PqRoot
<1> QED BY <1>1, ClInvariant, PTL

-----------------------------------------------------------------------------
(* The borrow checker: the points of a function.                            *)

(* A function of BwFuncs: its flow graph and code, with unique definitions. *)
LEMMA BwFuncType ==
  ASSUME NEW f \in BwFuncs
  PROVE  /\ f.succ \in [BwBlocks -> SUBSET BwBlocks]
         /\ \A b \in BwBlocks :
              /\ Len(f.code[b]) \in Nat /\ DOMAIN f.code[b] = 1 .. Len(f.code[b])
              /\ \A i \in 1 .. Len(f.code[b]) : f.code[b][i] \in BwInsts
         /\ \A b, c \in BwBlocks : \A i \in 1 .. Len(f.code[b]), j \in 1 .. Len(f.code[c]) :
              f.code[b][i].res = f.code[c][j].res /\ f.code[b][i].res # BwNone => b = c /\ i = j
<1>1. f \in [succ : [BwBlocks -> SUBSET BwBlocks], code : [BwBlocks -> Seq(BwInsts)]]
  BY BwAssumption DEF BwAssumption
<1>2. ASSUME NEW b \in BwBlocks
      PROVE  /\ Len(f.code[b]) \in Nat /\ DOMAIN f.code[b] = 1 .. Len(f.code[b])
             /\ \A i \in 1 .. Len(f.code[b]) : f.code[b][i] \in BwInsts
  <2>1. f.code[b] \in Seq(BwInsts) BY <1>1
  <2> QED BY <2>1, LenProperties, ElementOfSeq
<1>3. \A b, c \in BwBlocks : \A i \in DOMAIN f.code[b], j \in DOMAIN f.code[c] :
        f.code[b][i].res = f.code[c][j].res /\ f.code[b][i].res # BwNone => b = c /\ i = j
  BY BwAssumption DEF BwAssumption
<1>4. f.succ \in [BwBlocks -> SUBSET BwBlocks] BY <1>1
<1> QED BY <1>2, <1>3, <1>4

(* Blocks, points, and what an instruction uses, defines and moves. *)
LEMMA BwPoint ==
  ASSUME BwTypeOK
  PROVE  /\ bw_func \in BwFuncs
         /\ \A b \in BwBlocks : Size(b) \in Nat /\ bw_func.succ[b] \subseteq BwBlocks
         /\ \A pt : pt \in AllPoints <=>
              /\ pt = <<pt[1], pt[2]>> /\ pt[1] \in BwBlocks
              /\ pt[2] \in 1 .. Size(pt[1]) + 1
         /\ \A b \in BwBlocks, i \in Int :
              /\ <<b, i>> \in AllPoints <=> i \in 1 .. Size(b) + 1
              /\ <<b, i>> \in InstPoints <=> i \in 1 .. Size(b)
         /\ \A pt : HasInst(pt) => Inst(pt) \in BwInsts
         /\ \A pt \in AllPoints : HasInst(pt) <=> pt \in InstPoints
         /\ \A pt \in InstPoints : HasInst(pt) /\ pt \in AllPoints
<1>1. bw_func \in BwFuncs BY DEF BwTypeOK
<1>2. \A b \in BwBlocks : Size(b) \in Nat /\ bw_func.succ[b] \subseteq BwBlocks
  BY <1>1, BwFuncType DEF Size
<1>3. \A pt : pt \in AllPoints <=>
              /\ pt = <<pt[1], pt[2]>> /\ pt[1] \in BwBlocks
              /\ pt[2] \in 1 .. Size(pt[1]) + 1
  BY DEF AllPoints
<1>4. \A b \in BwBlocks, i \in Int :
              /\ <<b, i>> \in AllPoints <=> i \in 1 .. Size(b) + 1
              /\ <<b, i>> \in InstPoints <=> i \in 1 .. Size(b)
  BY <1>2 DEF AllPoints, InstPoints
<1>5. \A pt : HasInst(pt) => Inst(pt) \in BwInsts
  BY <1>1, BwFuncType DEF HasInst, Inst, Size
<1>6. \A pt \in AllPoints : HasInst(pt) <=> pt \in InstPoints
  BY <1>2, <1>3 DEF HasInst, InstPoints
<1>7. \A pt \in InstPoints : HasInst(pt) /\ pt \in AllPoints
  BY <1>6 DEF InstPoints
<1> QED BY <1>1, <1>2, <1>3, <1>4, <1>5, <1>6, <1>7

(* What a point uses, defines and moves are values, and a borrow defines one.*)
LEMMA BwOperands ==
  ASSUME BwTypeOK, NEW pt
  PROVE  /\ UsesAt(pt) \subseteq BwValues
         /\ DefsAt(pt) \subseteq BwValues
         /\ MovesAt(pt) \subseteq BwValues
         /\ pt \in BwBorrows => /\ Inst(pt).res \in BwValues /\ Inst(pt).res # BwNone
                                /\ DefsAt(pt) = {Inst(pt).res}
<1>0. pt \in BwBorrows => HasInst(pt) BY BwPoint DEF BwBorrows
<1>1. CASE ~HasInst(pt)
  BY <1>0, <1>1 DEF UsesAt, DefsAt, MovesAt
<1>2. CASE HasInst(pt)
  <2>1. Inst(pt) \in BwInsts BY <1>2, BwPoint
  <2>2. /\ Inst(pt).uses \subseteq BwValues
        /\ Inst(pt).res \in BwValues \cup {BwNone}
        /\ Inst(pt).op \in {"borrow", "borrow_mut"} => Inst(pt).res \in BwValues
    BY <2>1 DEF BwInsts
  <2>3. BwNone \notin BwValues BY BwAssumption DEF BwAssumption
  <2> QED BY <1>2, <2>2, <2>3 DEF UsesAt, DefsAt, MovesAt, BwBorrows
<1> QED BY <1>1, <1>2

(* A value has one definition. *)
LEMMA BwOneDef ==
  ASSUME BwTypeOK, NEW p \in AllPoints, NEW q \in AllPoints, NEW v,
         v \in DefsAt(p), v \in DefsAt(q)
  PROVE  p = q
<1>1. p \in InstPoints /\ q \in InstPoints /\ Inst(p).res = v /\ Inst(q).res = v /\ v # BwNone
  BY BwPoint DEF DefsAt
<1>2. /\ p = <<p[1], p[2]>> /\ p[1] \in BwBlocks /\ p[2] \in 1 .. Size(p[1])
      /\ q = <<q[1], q[2]>> /\ q[1] \in BwBlocks /\ q[2] \in 1 .. Size(q[1])
  BY <1>1, BwPoint DEF InstPoints
<1>3. p[1] = q[1] /\ p[2] = q[2]
  BY <1>1, <1>2, BwFuncType DEF BwTypeOK, Inst, Size
<1> QED BY <1>2, <1>3

(* Inside a block control goes from one instruction to the next. *)
LEMMA BwWalk ==
  ASSUME BwTypeOK, NEW b \in BwBlocks, NEW i \in Nat, NEW j \in Nat, 1 <= i, i <= j, j <= Size(b) + 1,
         NEW X, <<b, i>> \in X,
         \A k \in i .. j - 1 : <<b, k>> \in X => PtSucc(<<b, k>>) \subseteq X
  PROVE  <<b, j>> \in X
<1> DEFINE S == {k \in i .. j : <<b, k>> \notin X}
<1> SUFFICES ASSUME <<b, j>> \notin X PROVE FALSE
  OBVIOUS
<1>0. Size(b) \in Nat BY BwPoint
<1>1. S \subseteq Nat /\ j \in S OBVIOUS
<1>2. PICK k \in S : \A y \in S : k <= y
  <2> HIDE DEF S
  <2> QED BY <1>1, SmallestExists
<1>3. k \in i + 1 .. j /\ <<b, k>> \notin X BY <1>2
<1>4. k - 1 \in i .. j - 1 /\ k - 1 \notin S BY <1>2, <1>3
<1>5. <<b, k - 1>> \in X BY <1>4
<1>6. <<b, k - 1>> \in InstPoints BY <1>0, <1>3, <1>4, BwPoint
<1>7. PtSucc(<<b, k - 1>>) = {<<b, k>>}
  <2>1. <<b, k - 1>>[1] = b /\ <<b, k - 1>>[2] + 1 = k BY <1>3
  <2> QED BY <1>6, <2>1, BwPoint DEF PtSucc
<1> QED BY <1>3, <1>4, <1>5, <1>7

(* The points after a point are points. *)
LEMMA BwSuccPoint ==
  ASSUME BwTypeOK, NEW pt \in AllPoints
  PROVE  PtSucc(pt) \subseteq AllPoints
<1>1. /\ pt = <<pt[1], pt[2]>> /\ pt[1] \in BwBlocks /\ pt[2] \in 1 .. Size(pt[1]) + 1
      /\ Size(pt[1]) \in Nat
  BY BwPoint
<1>2. CASE pt \in InstPoints
  <2>1. pt[2] + 1 \in 1 .. Size(pt[1]) + 1 BY <1>1, <1>2 DEF InstPoints
  <2> QED BY <1>1, <1>2, <2>1, BwPoint DEF PtSucc
<1>3. CASE pt \notin InstPoints
  <2>1. ASSUME NEW t \in bw_func.succ[pt[1]] PROVE <<t, 1>> \in AllPoints
    <3>1. t \in BwBlocks /\ Size(t) \in Nat BY <1>1, BwPoint
    <3> QED BY <3>1, BwPoint
  <2> QED BY <1>3, <2>1, BwPoint DEF PtSucc
<1> QED BY <1>2, <1>3

(* The end of a block, and what follows it. *)
LEMMA BwEnd ==
  ASSUME BwTypeOK, NEW b \in BwBlocks
  PROVE  /\ <<b, Size(b) + 1>> \in AllPoints /\ <<b, Size(b) + 1>> \notin InstPoints
         /\ DefsAt(<<b, Size(b) + 1>>) = {} /\ UsesAt(<<b, Size(b) + 1>>) = {}
         /\ PtSucc(<<b, Size(b) + 1>>) = {<<t, 1>> : t \in bw_func.succ[b]}
<1>1. Size(b) \in Nat BY BwPoint
<1>2. <<b, Size(b) + 1>> \in AllPoints /\ <<b, Size(b) + 1>> \notin InstPoints BY <1>1, BwPoint
<1>3. <<b, Size(b) + 1>>[1] = b OBVIOUS
<1>4. ~HasInst(<<b, Size(b) + 1>>) BY <1>2, BwPoint
<1> QED BY <1>2, <1>3, <1>4 DEF DefsAt, UsesAt, PtSucc

-----------------------------------------------------------------------------
(* What does not change with the state of the analyses. *)
LEMMA BwSameFunc ==
  ASSUME bw_func' = bw_func
  PROVE  /\ AllPoints' = AllPoints /\ InstPoints' = InstPoints /\ BwBorrows' = BwBorrows /\ Tracked' = Tracked
         /\ \A b : Size(b)' = Size(b) /\ BwPreds(b)' = BwPreds(b) /\ Moves(b)' = Moves(b)
                     /\ UpwardUses(b)' = UpwardUses(b) /\ BlockDefs(b)' = BlockDefs(b)
         /\ \A pt : /\ Inst(pt)' = Inst(pt) /\ UsesAt(pt)' = UsesAt(pt) /\ DefsAt(pt)' = DefsAt(pt)
                    /\ MovesAt(pt)' = MovesAt(pt) /\ PtSucc(pt)' = PtSucc(pt)
         /\ \A S, u, v : Flows(S, u, v)' = Flows(S, u, v)
         /\ \A p, q : Leads(q, p)' = Leads(q, p) /\ Conflicting(p, q)' = Conflicting(p, q)
<1>1. \A b : Size(b)' = Size(b) BY DEF Size
<1>2. AllPoints' = AllPoints BY <1>1 DEF AllPoints
<1>3. InstPoints' = InstPoints BY <1>1, <1>2 DEF InstPoints
<1>4. \A pt : Inst(pt)' = Inst(pt) BY DEF Inst
<1>5. \A pt : UsesAt(pt)' = UsesAt(pt) /\ DefsAt(pt)' = DefsAt(pt) /\ MovesAt(pt)' = MovesAt(pt) /\ PtSucc(pt)' = PtSucc(pt)
  BY <1>1, <1>4 DEF UsesAt, DefsAt, MovesAt, PtSucc, HasInst
<1>6. BwBorrows' = BwBorrows BY <1>3, <1>4 DEF BwBorrows
<1>7. Tracked' = Tracked BY <1>6 DEF Tracked
<1>8. \A b : BwPreds(b)' = BwPreds(b) BY DEF BwPreds
<1>9. \A b : Moves(b)' = Moves(b) /\ UpwardUses(b)' = UpwardUses(b) /\ BlockDefs(b)' = BlockDefs(b)
  BY <1>1, <1>5 DEF Moves, UpwardUses, BlockDefs
<1>10. \A S, u, v : Flows(S, u, v)' = Flows(S, u, v)
  BY <1>2, <1>5 DEF Flows
<1>11. \A p, q : Leads(q, p)' = Leads(q, p)
  BY <1>5, <1>10 DEF Leads
<1>12. \A p, q : Conflicting(p, q)' = Conflicting(p, q)
  BY <1>4 DEF Conflicting
<1> QED BY <1>1, <1>2, <1>3, <1>4, <1>5, <1>6, <1>7, <1>8, <1>9, <1>10, <1>11, <1>12

-----------------------------------------------------------------------------
(* Ways. *)

(* Where no instruction between two points of a block defines v, the first  *)
(* flows to the second.                                                     *)
LEMMA BwFlowsIn ==
  ASSUME BwTypeOK, NEW b \in BwBlocks, NEW i \in Nat, NEW j \in Nat, 1 <= i, i <= j, j <= Size(b) + 1,
         NEW v, \A k \in i .. j - 1 : v \notin DefsAt(<<b, k>>)
  PROVE  Flows({<<b, i>>}, <<b, j>>, v)
<1> SUFFICES ASSUME NEW X \in SUBSET AllPoints, {<<b, i>>} \subseteq X,
                    \A x \in X : v \notin DefsAt(x) => PtSucc(x) \subseteq X
             PROVE  <<b, j>> \in X
  BY DEF Flows
<1>1. \A k \in i .. j - 1 : <<b, k>> \in X => PtSucc(<<b, k>>) \subseteq X OBVIOUS
<1> QED BY <1>1, BwWalk

(* A value that is live where a block ends is used on a way from there. *)
LEMMA BwFlowsOut ==
  ASSUME BwTypeOK, BwLiveReal, NEW b \in BwBlocks, NEW i \in 1 .. Size(b) + 1, NEW v \in LiveOut(b),
         \A k \in i .. Size(b) : v \notin DefsAt(<<b, k>>)
  PROVE  \E u \in InstPoints : v \in UsesAt(u) /\ Flows({<<b, i>>}, u, v)
<1>1. Size(b) \in Nat /\ bw_func.succ[b] \subseteq BwBlocks BY BwPoint
<1>2. PICK s \in bw_func.succ[b] : v \in bw_livein[s] BY DEF LiveOut
<1>3. PICK u \in InstPoints : v \in UsesAt(u) /\ Flows({<<s, 1>>}, u, v)
  BY <1>1, <1>2 DEF BwLiveReal
<1>4. ASSUME NEW X \in SUBSET AllPoints, {<<b, i>>} \subseteq X,
             \A x \in X : v \notin DefsAt(x) => PtSucc(x) \subseteq X
      PROVE  u \in X
  <2>1. <<b, Size(b) + 1>> \in X
    <3>1. \A k \in i .. (Size(b) + 1) - 1 : <<b, k>> \in X => PtSucc(<<b, k>>) \subseteq X
      BY <1>1, <1>4
    <3>2. i \in Nat /\ Size(b) + 1 \in Nat /\ 1 <= i /\ i <= Size(b) + 1 BY <1>1
    <3> QED BY <3>1, <3>2, <1>4, BwWalk
  <2>2. <<s, 1>> \in X BY <2>1, <1>2, <1>4, BwEnd
  <2> QED BY <1>3, <1>4, <2>2 DEF Flows
<1> QED BY <1>3, <1>4 DEF Flows

(* A way to a point goes on to the points after it.                         *)
LEMMA BwLeadsOn ==
  ASSUME BwTypeOK, NEW q, NEW p \in AllPoints, Leads(q, p), NEW t \in PtSucc(p)
  PROVE  Leads(q, t)
<1> SUFFICES ASSUME NEW X \in SUBSET AllPoints, PtSucc(q) \subseteq X,
                    \A x \in X : BwNone \notin DefsAt(x) => PtSucc(x) \subseteq X
             PROVE  t \in X
  BY DEF Leads, Flows
<1>1. p \in X BY DEF Leads, Flows
<1>2. BwNone \notin DefsAt(p) BY DEF DefsAt
<1> QED BY <1>1, <1>2

(* A way into a block goes on to the later points of the block.             *)
LEMMA BwLeadsWalk ==
  ASSUME BwTypeOK, NEW q, NEW b \in BwBlocks, NEW i \in Nat, NEW j \in Nat, 1 <= i, i <= j, j <= Size(b) + 1,
         Leads(q, <<b, i>>)
  PROVE  Leads(q, <<b, j>>)
<1> SUFFICES ASSUME NEW X \in SUBSET AllPoints, PtSucc(q) \subseteq X,
                    \A x \in X : BwNone \notin DefsAt(x) => PtSucc(x) \subseteq X
             PROVE  <<b, j>> \in X
  BY DEF Leads, Flows
<1>1. <<b, i>> \in X BY DEF Leads, Flows
<1>2. \A k \in i .. j - 1 : <<b, k>> \in X => PtSucc(<<b, k>>) \subseteq X
  BY DEF DefsAt
<1> QED BY <1>1, <1>2, BwWalk

(* An instruction leads to the point after it.                              *)
LEMMA BwLeadsNext ==
  ASSUME BwTypeOK, NEW b \in BwBlocks, NEW i \in 1 .. Size(b)
  PROVE  Leads(<<b, i>>, <<b, i + 1>>)
<1>1. <<b, i>> \in InstPoints BY BwPoint
<1>2. PtSucc(<<b, i>>) = {<<b, i + 1>>} BY <1>1, BwPoint DEF PtSucc
<1> QED BY <1>2 DEF Leads, Flows

(* What is moved before a point was moved by an instruction that leads there. *)
LEMMA BwMovedReal ==
  ASSUME BwTypeOK, BwMovesReal, NEW b \in BwBlocks, NEW i \in 1 .. Size(b) + 1,
         NEW v \in MovedBefore(<<b, i>>)
  PROVE  \E q \in InstPoints : v \in MovesAt(q) /\ Leads(q, <<b, i>>)
<1>1. Size(b) \in Nat /\ i \in Nat /\ 1 <= i /\ i <= Size(b) + 1 BY BwPoint
<1>2. CASE v \in InState(b)
  <2>1. PICK p \in BwPreds(b) : v \in bw_out[p] BY <1>2 DEF InState
  <2>2. p \in BwBlocks /\ b \in bw_func.succ[p] BY DEF BwPreds
  <2>3. PICK q \in InstPoints : v \in MovesAt(q) /\ Leads(q, <<p, Size(p) + 1>>)
    BY <2>1, <2>2 DEF BwMovesReal
  <2>4. Leads(q, <<b, 1>>) BY <2>2, <2>3, BwEnd, BwLeadsOn
  <2>5. Leads(q, <<b, i>>) BY <1>1, <2>4, BwLeadsWalk
  <2> QED BY <2>3, <2>5
<1>3. CASE v \notin InState(b)
  <2>1. PICK j \in 1 .. i - 1 : v \in MovesAt(<<b, j>>) BY <1>3 DEF MovedBefore
  <2>2. j \in 1 .. Size(b) /\ j + 1 \in Nat /\ 1 <= j + 1 /\ j + 1 <= i BY <1>1
  <2>3. <<b, j>> \in InstPoints BY <2>2, BwPoint
  <2>4. Leads(<<b, j>>, <<b, i>>) BY <1>1, <2>2, BwLeadsNext, BwLeadsWalk
  <2> QED BY <2>1, <2>3, <2>4
<1> QED BY <1>2, <1>3

-----------------------------------------------------------------------------
(* The steps of the analyses. *)

(* The state in which mir_borrow_check_function starts.                     *)
LEMMA BwInitInv == BwInit => BwInv
<1> SUFFICES ASSUME BwInit PROVE BwInv
  OBVIOUS
<1>1. BwTypeOK
  <2>1. bw_func \in BwFuncs /\ 0 \in BwBlocks BY BwAssumption DEF BwInit, BwAssumption, BwBlocks
  <2>2. Size(0) \in Nat BY <2>1, BwFuncType DEF Size
  <2>3. <<0, 1>> \in AllPoints BY <2>1, <2>2 DEF AllPoints
  <2> QED BY <2>1, <2>3 DEF BwInit, BwTypeOK, BwNoValues
<1>2. BwMovesSettled /\ BwLiveSettled BY DEF BwInit, BwMovesSettled, BwLiveSettled
<1>3. BwMovesReal /\ BwLiveReal BY DEF BwInit, BwNoValues, BwMovesReal, BwLiveReal
<1>4. BwReported /\ BwFollows BY DEF BwInit, BwReported, BwFollows
<1> QED BY <1>1, <1>2, <1>3, <1>4 DEF BwInv

(* The ways of live values, of a step that keeps the function. *)
LEMMA BwLiveRealNext ==
  ASSUME bw_func' = bw_func,
         \A b \in BwBlocks : \A v \in bw_livein'[b] :
           \E u \in InstPoints : v \in UsesAt(u) /\ Flows({<<b, 1>>}, u, v)
  PROVE  BwLiveReal'
<1> SUFFICES ASSUME NEW b \in BwBlocks, NEW v \in bw_livein'[b]
             PROVE  \E u \in InstPoints' : v \in UsesAt(u)' /\ Flows({<<b, 1>>}, u, v)'
  BY DEF BwLiveReal
<1>1. PICK u \in InstPoints : v \in UsesAt(u) /\ Flows({<<b, 1>>}, u, v)
  OBVIOUS
<1>2. InstPoints' = InstPoints /\ UsesAt(u)' = UsesAt(u) BY BwSameFunc
<1>3. Flows({<<b, 1>>}, u, v)' = Flows({<<b, 1>>}, u, v) BY BwSameFunc
<1> QED BY <1>1, <1>2, <1>3

(* Where no execution has begun there is nothing to follow. *)
LEMMA BwNotRunning ==
  ASSUME BwTypeOK, BwFollows, bw_pc # "run", bw_func' = bw_func,
         UNCHANGED <<bw_pt, bw_moved, bw_held, bw_ended>>
  PROVE  BwFollows' /\ bw_pt' \in AllPoints' /\ bw_held' \subseteq BwBorrows'
<1>1. bw_pt = <<0, 1>> /\ bw_moved = {} /\ bw_held = {} /\ bw_ended = {} BY DEF BwFollows
<1>2. BwFollows' BY <1>1 DEF BwFollows
<1> QED BY <1>2, BwSameFunc DEF BwTypeOK

(* A block whose equation changes is handled again: the work list and what *)
(* it leaves out.                                                          *)
LEMMA BwMoveStepInv ==
  ASSUME BwInv, NEW b \in BwBlocks, BwMoveStep(b)
  PROVE  BwInv'
<1> DEFINE out == InState(b) \cup Moves(b)
<1>1. BwTypeOK /\ BwMovesSettled /\ BwMovesReal /\ BwLiveReal /\ BwFollows BY DEF BwInv
<1>2. /\ bw_pc = "moves" /\ bw_pc' = "moves" /\ b \in bw_work
      /\ bw_out' = [bw_out EXCEPT ![b] = out]
      /\ bw_work' = BwWorkAfter(b, out # bw_out[b], bw_func.succ[b])
      /\ UNCHANGED <<bw_func, bw_livein, bw_liveout, bw_errors, bw_pt, bw_moved, bw_held, bw_ended>>
  BY DEF BwMoveStep
<1>3. bw_func' = bw_func BY <1>2
<1>4. out \subseteq BwValues
  <2>1. InState(b) \subseteq BwValues BY <1>1 DEF BwTypeOK, InState, BwPreds
  <2>2. Moves(b) \subseteq BwValues BY <1>1, BwOperands DEF Moves
  <2> QED BY <2>1, <2>2
<1>5. BwFollows' /\ bw_pt' \in AllPoints' /\ bw_held' \subseteq BwBorrows'
  BY <1>1, <1>2, BwNotRunning
<1>6. BwTypeOK'
  <2>1. bw_out' \in [BwBlocks -> SUBSET BwValues] BY <1>1, <1>2, <1>4 DEF BwTypeOK
  <2>2. bw_work' \subseteq BwBlocks BY <1>1, <1>2, BwPoint DEF BwTypeOK, BwWorkAfter
  <2> QED BY <1>1, <1>2, <1>5, <2>1, <2>2 DEF BwTypeOK
<1>7. BwMovesSettled'
  <2> SUFFICES ASSUME NEW c \in BwBlocks, c \notin bw_work'
               PROVE  bw_out'[c] = InState(c)' \cup Moves(c)'
    BY <1>2 DEF BwMovesSettled
  <2>1. Moves(c)' = Moves(c) BY <1>3, BwSameFunc
  <2>2. BwPreds(c)' = BwPreds(c) BY <1>3, BwSameFunc
  <2>3. CASE out = bw_out[b]
    <3>1. bw_out' = bw_out BY <1>1, <1>2, <2>3 DEF BwTypeOK
    <3>2. InState(c)' = InState(c) BY <2>2, <3>1 DEF InState
    <3>3. c \notin bw_work \/ c = b BY <1>2 DEF BwWorkAfter
    <3>4. bw_out[c] = InState(c) \cup Moves(c) BY <1>1, <1>2, <2>3, <3>3 DEF BwMovesSettled
    <3> QED BY <2>1, <3>1, <3>2, <3>4
  <2>4. CASE out # bw_out[b]
    <3>1. c \notin bw_func.succ[b] /\ (c \notin bw_work \/ c = b) BY <1>2, <2>4 DEF BwWorkAfter
    <3>2. b \notin BwPreds(c) BY <3>1 DEF BwPreds
    <3>3. InState(c)' = InState(c)
      <4>1. \A p \in BwPreds(c) : bw_out'[p] = bw_out[p] BY <1>1, <1>2, <3>2 DEF BwTypeOK, BwPreds
      <4> QED BY <2>2, <4>1 DEF InState
    <3>4. CASE c = b
      <4>1. bw_out'[c] = out BY <1>1, <1>2, <3>4 DEF BwTypeOK
      <4> QED BY <2>1, <3>3, <3>4, <4>1
    <3>5. CASE c # b
      <4>1. bw_out'[c] = bw_out[c] BY <1>1, <1>2, <3>5 DEF BwTypeOK
      <4>2. bw_out[c] = InState(c) \cup Moves(c) BY <1>1, <1>2, <3>1, <3>5 DEF BwMovesSettled
      <4> QED BY <2>1, <3>3, <4>1, <4>2
    <3> QED BY <3>4, <3>5
  <2> QED BY <2>3, <2>4
<1>8. BwMovesReal'
  <2> SUFFICES ASSUME NEW c \in BwBlocks, NEW v \in bw_out'[c]
               PROVE  \E q \in InstPoints : v \in MovesAt(q) /\ Leads(q, <<c, Size(c) + 1>>)
    BY <1>3, BwSameFunc DEF BwMovesReal
  <2>1. CASE c = b
    <3>1. Size(b) \in Nat BY <1>1, BwPoint
    <3>2. v \in out BY <1>1, <1>2, <2>1 DEF BwTypeOK
    <3>3. MovedBefore(<<b, Size(b) + 1>>) = out
      <4>1. <<b, Size(b) + 1>>[1] = b /\ <<b, Size(b) + 1>>[2] - 1 = Size(b) BY <3>1
      <4> QED BY <4>1 DEF MovedBefore, Moves
    <3>4. Size(b) + 1 \in 1 .. Size(b) + 1 BY <3>1
    <3> QED BY <1>1, <2>1, <3>2, <3>3, <3>4, BwMovedReal
  <2>2. CASE c # b
    <3>1. bw_out'[c] = bw_out[c] BY <1>1, <1>2, <2>2 DEF BwTypeOK
    <3> QED BY <1>1, <3>1 DEF BwMovesReal
  <2> QED BY <2>1, <2>2
<1>9. BwLiveReal'
  <2> SUFFICES ASSUME NEW c \in BwBlocks, NEW v \in bw_livein[c]
               PROVE  \E u \in InstPoints : v \in UsesAt(u) /\ Flows({<<c, 1>>}, u, v)
    BY <1>2, <1>3, BwLiveRealNext
  <2> QED BY <1>1 DEF BwLiveReal
<1>10. BwLiveSettled' /\ BwReported' BY <1>2 DEF BwLiveSettled, BwReported
<1> QED BY <1>5, <1>6, <1>7, <1>8, <1>9, <1>10 DEF BwInv

(* With the work list empty every block satisfies the forward equation; the *)
(* other analysis starts with all blocks in the list.                       *)
LEMMA BwMovesDoneInv ==
  ASSUME BwInv, BwMovesDone
  PROVE  BwInv'
<1>1. BwTypeOK /\ BwMovesSettled /\ BwMovesReal /\ BwLiveReal /\ BwFollows BY DEF BwInv
<1>2. /\ bw_pc = "moves" /\ bw_work = {} /\ bw_pc' = "liveness" /\ bw_work' = BwBlocks
      /\ UNCHANGED <<bw_func, bw_out, bw_livein, bw_liveout, bw_errors, bw_pt, bw_moved, bw_held, bw_ended>>
  BY DEF BwMovesDone
<1>3. bw_func' = bw_func BY <1>2
<1>4. BwFollows' /\ bw_pt' \in AllPoints' /\ bw_held' \subseteq BwBorrows'
  BY <1>1, <1>2, BwNotRunning
<1>5. BwTypeOK' BY <1>1, <1>2, <1>4 DEF BwTypeOK
<1>6. BwMovesSettled'
  <2> SUFFICES ASSUME NEW c \in BwBlocks PROVE bw_out[c] = InState(c)' \cup Moves(c)'
    BY <1>2 DEF BwMovesSettled
  <2>1. Moves(c)' = Moves(c) /\ BwPreds(c)' = BwPreds(c) BY <1>3, BwSameFunc
  <2>2. InState(c)' = InState(c) BY <1>2, <2>1 DEF InState
  <2> QED BY <1>1, <1>2, <2>1, <2>2 DEF BwMovesSettled
<1>7. BwMovesReal'
  <2> SUFFICES ASSUME NEW c \in BwBlocks, NEW v \in bw_out[c]
               PROVE  \E q \in InstPoints : v \in MovesAt(q) /\ Leads(q, <<c, Size(c) + 1>>)
    BY <1>2, <1>3, BwSameFunc DEF BwMovesReal
  <2> QED BY <1>1 DEF BwMovesReal
<1>8. BwLiveReal'
  <2> SUFFICES ASSUME NEW c \in BwBlocks, NEW v \in bw_livein[c]
               PROVE  \E u \in InstPoints : v \in UsesAt(u) /\ Flows({<<c, 1>>}, u, v)
    BY <1>2, <1>3, BwLiveRealNext
  <2> QED BY <1>1 DEF BwLiveReal
<1>9. BwLiveSettled' /\ BwReported' BY <1>2 DEF BwLiveSettled, BwReported
<1> QED BY <1>4, <1>5, <1>6, <1>7, <1>8, <1>9 DEF BwInv

(* A block of the backward analysis: the block before is handled again when *)
(* live_in changed, and a live value has a use on a way.                    *)
LEMMA BwLiveStepInv ==
  ASSUME BwInv, NEW b \in BwBlocks, BwLiveStep(b)
  PROVE  BwInv'
<1>1. BwTypeOK /\ BwMovesSettled /\ BwLiveSettled /\ BwMovesReal /\ BwLiveReal /\ BwFollows BY DEF BwInv
<1>2. /\ bw_pc = "liveness" /\ bw_pc' = "liveness" /\ b \in bw_work
      /\ bw_liveout' = [bw_liveout EXCEPT ![b] = LiveOut(b)]
      /\ bw_livein' = [bw_livein EXCEPT ![b] = LiveIn(b)]
      /\ bw_work' = BwWorkAfter(b, LiveIn(b) # bw_livein[b], BwPreds(b))
      /\ UNCHANGED <<bw_func, bw_out, bw_errors, bw_pt, bw_moved, bw_held, bw_ended>>
  BY DEF BwLiveStep
<1>3. bw_func' = bw_func BY <1>2
<1>4. LiveOut(b) \subseteq BwValues /\ LiveIn(b) \subseteq BwValues
  <2>1. LiveOut(b) \subseteq BwValues BY <1>1, BwPoint DEF BwTypeOK, LiveOut
  <2> QED BY <2>1 DEF LiveIn, UpwardUses
<1>5. BwFollows' /\ bw_pt' \in AllPoints' /\ bw_held' \subseteq BwBorrows'
  BY <1>1, <1>2, BwNotRunning
<1>6. BwTypeOK'
  <2>1. /\ bw_livein' \in [BwBlocks -> SUBSET BwValues]
        /\ bw_liveout' \in [BwBlocks -> SUBSET BwValues]
    BY <1>1, <1>2, <1>4 DEF BwTypeOK
  <2>2. bw_work' \subseteq BwBlocks BY <1>1, <1>2 DEF BwTypeOK, BwWorkAfter, BwPreds
  <2> QED BY <1>1, <1>2, <1>5, <2>1, <2>2 DEF BwTypeOK
<1>7. BwMovesSettled'
  <2> SUFFICES ASSUME NEW c \in BwBlocks PROVE bw_out[c] = InState(c)' \cup Moves(c)'
    BY <1>2 DEF BwMovesSettled
  <2>1. Moves(c)' = Moves(c) /\ BwPreds(c)' = BwPreds(c) BY <1>3, BwSameFunc
  <2>2. InState(c)' = InState(c) BY <1>2, <2>1 DEF InState
  <2> QED BY <1>1, <1>2, <2>1, <2>2 DEF BwMovesSettled
<1>8. BwLiveSettled'
  <2> SUFFICES ASSUME NEW c \in BwBlocks, c \notin bw_work'
               PROVE  bw_liveout'[c] = LiveOut(c)' /\ bw_livein'[c] = LiveIn(c)'
    BY <1>2 DEF BwLiveSettled
  <2>1. LiveOut(c)' = LiveOut(c) /\ (c \notin bw_work \/ c = b)
    <3>1. CASE LiveIn(b) = bw_livein[b]
      <4>1. bw_livein' = bw_livein BY <1>1, <1>2, <3>1 DEF BwTypeOK
      <4> QED BY <1>2, <1>3, <3>1, <4>1 DEF LiveOut, BwWorkAfter
    <3>2. CASE LiveIn(b) # bw_livein[b]
      <4>1. c \notin BwPreds(b) /\ (c \notin bw_work \/ c = b) BY <1>2, <3>2 DEF BwWorkAfter
      <4>2. b \notin bw_func.succ[c] /\ bw_func.succ[c] \subseteq BwBlocks
        BY <1>1, <4>1, BwPoint DEF BwPreds
      <4>3. \A s \in bw_func.succ[c] : bw_livein'[s] = bw_livein[s]
        BY <1>1, <1>2, <4>2 DEF BwTypeOK
      <4> QED BY <1>3, <4>1, <4>3 DEF LiveOut
    <3> QED BY <3>1, <3>2
  <2>2. LiveIn(c)' = LiveIn(c) BY <1>3, <2>1, BwSameFunc DEF LiveIn
  <2>3. CASE c = b
    <3>1. bw_liveout'[c] = LiveOut(c) /\ bw_livein'[c] = LiveIn(c) BY <1>1, <1>2, <2>3 DEF BwTypeOK
    <3> QED BY <2>1, <2>2, <3>1
  <2>4. CASE c # b
    <3>1. bw_liveout'[c] = bw_liveout[c] /\ bw_livein'[c] = bw_livein[c] BY <1>1, <1>2, <2>4 DEF BwTypeOK
    <3>2. bw_liveout[c] = LiveOut(c) /\ bw_livein[c] = LiveIn(c)
      BY <1>1, <1>2, <2>1, <2>4 DEF BwLiveSettled
    <3> QED BY <2>1, <2>2, <3>1, <3>2
  <2> QED BY <2>3, <2>4
<1>9. BwMovesReal'
  <2> SUFFICES ASSUME NEW c \in BwBlocks, NEW v \in bw_out[c]
               PROVE  \E q \in InstPoints : v \in MovesAt(q) /\ Leads(q, <<c, Size(c) + 1>>)
    BY <1>2, <1>3, BwSameFunc DEF BwMovesReal
  <2> QED BY <1>1 DEF BwMovesReal
<1>10. BwLiveReal'
  <2> SUFFICES ASSUME NEW c \in BwBlocks, NEW v \in bw_livein'[c]
               PROVE  \E u \in InstPoints : v \in UsesAt(u) /\ Flows({<<c, 1>>}, u, v)
    BY <1>2, <1>3, BwLiveRealNext
  <2>0. Size(c) \in Nat BY <1>1, BwPoint
  <2>1. CASE c # b
    <3>1. bw_livein'[c] = bw_livein[c] BY <1>1, <1>2, <2>1 DEF BwTypeOK
    <3> QED BY <1>1, <3>1 DEF BwLiveReal
  <2>2. CASE c = b /\ v \in UpwardUses(b)
    <3>1. PICK i \in 1 .. Size(b) :
            v \in UsesAt(<<b, i>>) /\ \A j \in 1 .. i - 1 : v \notin DefsAt(<<b, j>>)
      BY <2>2 DEF UpwardUses
    <3>2. <<b, i>> \in InstPoints BY <1>1, <2>0, <2>2, <3>1, BwPoint
    <3>3. Flows({<<b, 1>>}, <<b, i>>, v)
      <4>1. 1 \in Nat /\ i \in Nat /\ 1 <= 1 /\ 1 <= i /\ i <= Size(b) + 1 BY <2>0, <2>2
      <4> QED BY <1>1, <3>1, <4>1, BwFlowsIn
    <3> QED BY <2>2, <3>1, <3>2, <3>3
  <2>3. CASE c = b /\ v \notin UpwardUses(b)
    <3>1. v \in LiveOut(b) /\ v \notin BlockDefs(b) BY <1>1, <1>2, <2>3 DEF BwTypeOK, LiveIn
    <3>2. \A k \in 1 .. Size(b) : v \notin DefsAt(<<b, k>>) BY <3>1 DEF BlockDefs
    <3>3. 1 \in 1 .. Size(b) + 1 BY <2>0, <2>3
    <3> QED BY <1>1, <2>3, <3>1, <3>2, <3>3, BwFlowsOut
  <2> QED BY <2>1, <2>2, <2>3
<1>11. BwReported' BY <1>2 DEF BwReported
<1> QED BY <1>5, <1>6, <1>7, <1>8, <1>9, <1>10, <1>11 DEF BwInv

-----------------------------------------------------------------------------
(* The reports, and the execution of the function that was checked. *)

LEMMA BwSameAnalyses ==
  ASSUME UNCHANGED <<bw_func, bw_out, bw_livein, bw_liveout>>
  PROVE  /\ \A b : InState(b)' = InState(b) /\ LiveOut(b)' = LiveOut(b) /\ LiveIn(b)' = LiveIn(b)
         /\ \A p : MovedBefore(p)' = MovedBefore(p)
         /\ \A p, v : BwLiveAt(p, v)' = BwLiveAt(p, v)
         /\ BwErrors' = BwErrors
<1>0. bw_func' = bw_func OBVIOUS
<1>1. \A b : InState(b)' = InState(b) BY <1>0, BwSameFunc DEF InState
<1>2. \A b : LiveOut(b)' = LiveOut(b) BY DEF LiveOut
<1>3. \A b : LiveIn(b)' = LiveIn(b) BY <1>0, <1>2, BwSameFunc DEF LiveIn
<1>4. \A p : MovedBefore(p)' = MovedBefore(p) BY <1>0, <1>1, BwSameFunc DEF MovedBefore
<1>5. \A p, v : BwLiveAt(p, v)' = BwLiveAt(p, v) BY <1>0, BwSameFunc DEF BwLiveAt
<1>6. \A p, q : BwActive(p, q)' = BwActive(p, q)
  <2>1. \A p, v : IsLiveAfter(p, v)' = IsLiveAfter(p, v) BY <1>0, BwSameFunc DEF IsLiveAfter
  <2> QED BY <1>0, <2>1, BwSameFunc DEF BwActive
<1>7. MoveErrors' = MoveErrors /\ ConflictErrors' = ConflictErrors
  BY <1>0, BwSameFunc DEF MoveErrors, ConflictErrors
<1>8. BwErrors' = BwErrors
  <2>1. {e \in MoveErrors : e[3] \in UsesAt(e[2]) \cap MovedBefore(e[2])}'
          = {e \in MoveErrors : e[3] \in UsesAt(e[2]) \cap MovedBefore(e[2])}
    BY <1>0, <1>4, <1>7, BwSameFunc
  <2>2. {e \in ConflictErrors : Conflicting(e[2], e[3]) /\ BwActive(e[2], e[3])}'
          = {e \in ConflictErrors : Conflicting(e[2], e[3]) /\ BwActive(e[2], e[3])}
    BY <1>0, <1>6, <1>7, BwSameFunc
  <2> QED BY <2>1, <2>2 DEF BwErrors
<1> QED BY <1>1, <1>2, <1>3, <1>4, <1>5, <1>8

(* After the analyses their results stay what they are. *)
LEMMA BwAnalysed ==
  ASSUME BwInv, UNCHANGED <<bw_func, bw_out, bw_livein, bw_liveout>>,
         bw_pc # "moves", bw_pc = "liveness" => bw_work = {}, bw_pc' \in {"checked", "run"}
  PROVE  BwMovesSettled' /\ BwLiveSettled' /\ BwMovesReal' /\ BwLiveReal'
<1>1. BwTypeOK /\ BwMovesSettled /\ BwLiveSettled /\ BwMovesReal /\ BwLiveReal BY DEF BwInv
<1>2. bw_func' = bw_func OBVIOUS
<1>3. BwMovesSettled'
  <2> SUFFICES ASSUME NEW c \in BwBlocks PROVE bw_out[c] = InState(c)' \cup Moves(c)'
    BY DEF BwMovesSettled
  <2>1. Moves(c)' = Moves(c) BY <1>2, BwSameFunc
  <2>2. InState(c)' = InState(c) BY BwSameAnalyses
  <2> QED BY <1>1, <2>1, <2>2 DEF BwMovesSettled
<1>4. BwLiveSettled'
  <2> SUFFICES ASSUME NEW c \in BwBlocks
               PROVE  bw_liveout[c] = LiveOut(c)' /\ bw_livein[c] = LiveIn(c)'
    BY DEF BwLiveSettled
  <2>1. LiveOut(c)' = LiveOut(c) /\ LiveIn(c)' = LiveIn(c) BY BwSameAnalyses
  <2> QED BY <1>1, <2>1 DEF BwLiveSettled
<1>5. BwMovesReal'
  <2> SUFFICES ASSUME NEW c \in BwBlocks, NEW v \in bw_out[c]
               PROVE  \E q \in InstPoints : v \in MovesAt(q) /\ Leads(q, <<c, Size(c) + 1>>)
    BY <1>2, BwSameFunc DEF BwMovesReal
  <2> QED BY <1>1 DEF BwMovesReal
<1>6. BwLiveReal'
  <2> SUFFICES ASSUME NEW c \in BwBlocks, NEW v \in bw_livein[c]
               PROVE  \E u \in InstPoints : v \in UsesAt(u) /\ Flows({<<c, 1>>}, u, v)
    BY <1>2, BwLiveRealNext
  <2> QED BY <1>1 DEF BwLiveReal
<1> QED BY <1>3, <1>4, <1>5, <1>6

(* The validation pass reports what the analyses found.                     *)
LEMMA BwCheckInv ==
  ASSUME BwInv, BwCheck
  PROVE  BwInv'
<1>1. BwTypeOK /\ BwFollows BY DEF BwInv
<1>2. /\ bw_pc = "liveness" /\ bw_work = {} /\ bw_pc' = "checked" /\ bw_errors' = BwErrors
      /\ UNCHANGED <<bw_func, bw_work, bw_out, bw_livein, bw_liveout, bw_pt, bw_moved, bw_held, bw_ended>>
  BY DEF BwCheck
<1>3. BwMovesSettled' /\ BwLiveSettled' /\ BwMovesReal' /\ BwLiveReal' BY <1>2, BwAnalysed
<1>4. BwFollows' /\ bw_pt' \in AllPoints' /\ bw_held' \subseteq BwBorrows'
  BY <1>1, <1>2, BwNotRunning
<1>5. BwTypeOK' BY <1>1, <1>2, <1>4 DEF BwTypeOK
<1>6. BwReported' BY <1>2, BwSameAnalyses DEF BwReported
<1> QED BY <1>3, <1>4, <1>5, <1>6 DEF BwInv

(* An execution starts with nothing moved and no borrow in force.           *)
LEMMA BwCallInv ==
  ASSUME BwInv, BwCall
  PROVE  BwInv'
<1>1. BwTypeOK /\ BwFollows /\ BwReported BY DEF BwInv
<1>2. /\ bw_pc = "checked" /\ bw_pc' = "run"
      /\ UNCHANGED <<bw_func, bw_work, bw_out, bw_livein, bw_liveout, bw_errors, bw_pt, bw_moved, bw_held, bw_ended>>
  BY DEF BwCall
<1>3. BwMovesSettled' /\ BwLiveSettled' /\ BwMovesReal' /\ BwLiveReal' BY <1>2, BwAnalysed
<1>4. BwFollows' /\ bw_pt' \in AllPoints' /\ bw_held' \subseteq BwBorrows'
  BY <1>1, <1>2, BwNotRunning
<1>5. BwTypeOK' BY <1>1, <1>2, <1>4 DEF BwTypeOK
<1>6. BwReported' BY <1>1, <1>2, BwSameAnalyses DEF BwReported
<1> QED BY <1>3, <1>4, <1>5, <1>6 DEF BwInv

(* An instruction: what it moves is in the state of the analysis after it, *)
(* and a borrow that it ends and that is still used was reported there.    *)
LEMMA BwExecuteInv ==
  ASSUME BwInv, BwExecute
  PROVE  BwInv'
<1> DEFINE ends == IF bw_pt \in BwBorrows THEN {q \in bw_held : Conflicting(bw_pt, q)} ELSE {}
<1>1. BwTypeOK /\ BwFollows /\ BwReported BY DEF BwInv
<1>2. /\ bw_pc = "run" /\ bw_pc' = "run" /\ bw_pt \in InstPoints
      /\ bw_pt' = <<bw_pt[1], bw_pt[2] + 1>>
      /\ bw_moved' = (bw_moved \cup MovesAt(bw_pt)) \ DefsAt(bw_pt)
      /\ bw_held' = (bw_held \ ends) \cup ({bw_pt} \cap BwBorrows)
      /\ bw_ended' = {e \in bw_ended : e[1] # bw_pt} \cup {<<q, bw_pt>> : q \in ends}
      /\ UNCHANGED <<bw_func, bw_work, bw_out, bw_livein, bw_liveout, bw_errors>>
  BY DEF BwExecute
<1>3. BwMovesSettled' /\ BwLiveSettled' /\ BwMovesReal' /\ BwLiveReal' BY <1>2, BwAnalysed
<1>4. bw_func' = bw_func BY <1>2
<1>b. PICK b \in BwBlocks : bw_pt = <<b, bw_pt[2]>> /\ bw_pt[2] \in 1 .. Size(b)
  <2>1. bw_pt = <<bw_pt[1], bw_pt[2]>> /\ bw_pt[1] \in BwBlocks /\ bw_pt[2] \in 1 .. Size(bw_pt[1])
    BY <1>1, <1>2, BwPoint DEF InstPoints
  <2> QED BY <2>1
<1>a. PICK i \in 1 .. Size(b) : bw_pt = <<b, i>> BY <1>b
<1>5. bw_pt' = <<b, i + 1>> /\ Size(b) \in Nat /\ <<b, i + 1>> \in AllPoints
  <2>1. Size(b) \in Nat BY <1>1, BwPoint
  <2>2. i + 1 \in 1 .. Size(b) + 1 BY <2>1
  <2> QED BY <1>1, <1>2, <1>a, <2>1, <2>2, BwPoint
<1>6. BwTypeOK'
  <2>1. bw_pt' \in AllPoints' BY <1>2, <1>4, <1>a, <1>5, BwSameFunc
  <2>2. bw_held' \subseteq BwBorrows' BY <1>1, <1>2, <1>4, BwSameFunc DEF BwTypeOK
  <2> QED BY <1>1, <1>2, <2>1, <2>2 DEF BwTypeOK
<1>7. BwReported' BY <1>1, <1>2, BwSameAnalyses DEF BwReported
<1>8. bw_moved' \subseteq MovedBefore(bw_pt)'
  <2>1. MovedBefore(<<b, i + 1>>)' = MovedBefore(<<b, i + 1>>) BY <1>2, BwSameAnalyses
  <2>2. bw_moved \subseteq MovedBefore(<<b, i>>) BY <1>1, <1>a, <1>5 DEF BwFollows
  <2>3. MovedBefore(<<b, i>>) \cup MovesAt(<<b, i>>) \subseteq MovedBefore(<<b, i + 1>>)
    <3>1. /\ <<b, i>>[1] = b /\ <<b, i>>[2] - 1 = i - 1
          /\ <<b, i + 1>>[1] = b /\ <<b, i + 1>>[2] - 1 = i
      BY <1>a, <1>5
    <3>2. 1 .. i - 1 \subseteq 1 .. i /\ i \in 1 .. i BY <1>a, <1>5
    <3>3. ASSUME NEW v \in MovedBefore(<<b, i>>) PROVE v \in MovedBefore(<<b, i + 1>>)
      BY <3>1, <3>2 DEF MovedBefore
    <3>4. ASSUME NEW v \in MovesAt(<<b, i>>) PROVE v \in MovedBefore(<<b, i + 1>>)
      BY <3>1, <3>2 DEF MovedBefore
    <3> QED BY <3>3, <3>4
  <2>4. bw_moved' \subseteq MovedBefore(<<b, i + 1>>) BY <1>2, <1>a, <1>5, <2>2, <2>3
  <2>5. MovedBefore(bw_pt)' = MovedBefore(<<b, i + 1>>)' BY <1>a, <1>5
  <2> QED BY <2>1, <2>4, <2>5
<1>9. ASSUME NEW e \in bw_ended'
      PROVE  /\ e[1] \in BwBorrows
             /\ e[1] \in Tracked /\ BwLiveAt(<<b, i + 1>>, Inst(e[1]).res)
                  => <<"conflict", e[2], e[1]>> \in bw_errors
  <2> DEFINE v == Inst(e[1]).res
  <2>1. CASE e \in bw_ended /\ e[1] # bw_pt
    <3>1. e[1] \in BwBorrows BY <1>1, <2>1 DEF BwFollows
    <3>2. v \notin DefsAt(<<b, i>>)
      <4>1. v \in DefsAt(e[1]) BY <1>1, <3>1, BwOperands
      <4>2. e[1] \in AllPoints /\ bw_pt \in AllPoints BY <1>2, <3>1 DEF BwBorrows, InstPoints
      <4> QED BY <1>1, <1>a, <1>5, <2>1, <4>1, <4>2, BwOneDef
    <3>3. ASSUME BwLiveAt(<<b, i + 1>>, v) PROVE BwLiveAt(<<b, i>>, v)
      <4>1. /\ <<b, i>>[1] = b /\ <<b, i>>[2] = i /\ <<b, i + 1>>[1] = b /\ <<b, i + 1>>[2] = i + 1
        OBVIOUS
      <4>2. \A j : (\A k \in i + 1 .. j : v \notin DefsAt(<<b, k>>))
                      => (\A k \in i .. j : v \notin DefsAt(<<b, k>>))
        <5> SUFFICES ASSUME NEW j, \A k \in i + 1 .. j : v \notin DefsAt(<<b, k>>), NEW k \in i .. j
                     PROVE  v \notin DefsAt(<<b, k>>)
          OBVIOUS
        <5>1. k = i \/ k \in i + 1 .. j BY <1>a, <1>5
        <5> QED BY <3>2, <5>1
      <4>3. i + 1 .. Size(b) \subseteq i .. Size(b) BY <1>a, <1>5
      <4>4. CASE \E j \in i + 1 .. Size(b) :
                   v \in UsesAt(<<b, j>>) /\ \A k \in i + 1 .. j - 1 : v \notin DefsAt(<<b, k>>)
        BY <4>1, <4>2, <4>3, <4>4 DEF BwLiveAt
      <4>5. CASE v \in bw_liveout[b] /\ \A k \in i + 1 .. Size(b) : v \notin DefsAt(<<b, k>>)
        BY <4>1, <4>2, <4>5 DEF BwLiveAt
      <4> QED BY <3>3, <4>1, <4>4, <4>5 DEF BwLiveAt
    <3> QED BY <1>1, <1>a, <1>5, <2>1, <3>1, <3>3 DEF BwFollows
  <2>2. CASE ~(e \in bw_ended /\ e[1] # bw_pt)
    <3>1. PICK q \in ends : e = <<q, bw_pt>> BY <1>2, <2>2
    <3>2. bw_pt \in BwBorrows /\ q \in bw_held /\ Conflicting(bw_pt, q) BY <3>1
    <3>3. q \in BwBorrows BY <1>1, <3>2 DEF BwTypeOK
    <3>4. ASSUME q \in Tracked, BwLiveAt(<<b, i + 1>>, Inst(q).res)
          PROVE  <<"conflict", bw_pt, q>> \in bw_errors
      <4>1. /\ <<b, i>>[1] = b /\ <<b, i>>[2] = i /\ <<b, i + 1>>[1] = b /\ <<b, i + 1>>[2] = i + 1
        OBVIOUS
      <4>2. IsLiveAfter(<<b, i>>, Inst(q).res) BY <3>4, <4>1 DEF BwLiveAt, IsLiveAfter
      <4>3. BwActive(bw_pt, q) BY <1>a, <1>5, <4>2 DEF BwActive
      <4>4. <<"conflict", bw_pt, q>> \in BwErrors
        BY <3>2, <3>4, <4>3 DEF BwErrors, ConflictErrors
      <4> QED BY <1>1, <1>2, <4>4 DEF BwReported
    <3> QED BY <3>1, <3>3, <3>4
  <2> QED BY <2>1, <2>2
<1>10. BwFollows'
  <2> SUFFICES ASSUME NEW e \in bw_ended'
               PROVE  /\ e[1] \in BwBorrows'
                      /\ e[1] \in Tracked' /\ BwLiveAt(bw_pt, Inst(e[1]).res)'
                           => <<"conflict", e[2], e[1]>> \in bw_errors'
    BY <1>2, <1>8 DEF BwFollows
  <2>1. BwBorrows' = BwBorrows /\ Tracked' = Tracked /\ Inst(e[1])' = Inst(e[1]) BY <1>4, BwSameFunc
  <2>2. BwLiveAt(<<b, i + 1>>, Inst(e[1]).res)' = BwLiveAt(<<b, i + 1>>, Inst(e[1]).res)
    BY <1>2, <1>4, <2>1, BwSameAnalyses
  <2>3. BwLiveAt(bw_pt, Inst(e[1]).res)' = BwLiveAt(<<b, i + 1>>, Inst(e[1]).res)'
    BY <1>a, <1>5
  <2> QED BY <1>2, <1>9, <2>1, <2>2, <2>3
<1> QED BY <1>3, <1>6, <1>7, <1>10 DEF BwInv

(* From a block to the next: what is moved at its end is in the state that *)
(* the next one starts with, and what is live there is live at the end.    *)
LEMMA BwGotoInv ==
  ASSUME BwInv, NEW t \in BwBlocks, BwGoto(t)
  PROVE  BwInv'
<1>1. BwTypeOK /\ BwFollows /\ BwReported /\ BwMovesSettled /\ BwLiveSettled BY DEF BwInv
<1>2. /\ bw_pc = "run" /\ bw_pc' = "run" /\ bw_pt \notin InstPoints
      /\ t \in bw_func.succ[bw_pt[1]] /\ bw_pt' = <<t, 1>>
      /\ UNCHANGED <<bw_func, bw_work, bw_out, bw_livein, bw_liveout, bw_errors, bw_moved, bw_held, bw_ended>>
  BY DEF BwGoto
<1>3. BwMovesSettled' /\ BwLiveSettled' /\ BwMovesReal' /\ BwLiveReal' BY <1>2, BwAnalysed
<1>4. bw_func' = bw_func BY <1>2
<1>5. PICK b \in BwBlocks : bw_pt = <<b, Size(b) + 1>>
  <2>1. /\ bw_pt = <<bw_pt[1], bw_pt[2]>> /\ bw_pt[1] \in BwBlocks /\ Size(bw_pt[1]) \in Nat
        /\ bw_pt[2] \in 1 .. Size(bw_pt[1]) + 1
    BY <1>1, BwPoint DEF BwTypeOK
  <2>2. ~(bw_pt[2] <= Size(bw_pt[1])) BY <1>1, <1>2 DEF BwTypeOK, InstPoints
  <2>3. bw_pt[2] = Size(bw_pt[1]) + 1 BY <2>1, <2>2
  <2> QED BY <2>1, <2>3
<1>6. /\ Size(b) \in Nat /\ Size(t) \in Nat /\ t \in bw_func.succ[b]
      /\ bw_pt[1] = b /\ bw_pt[2] = Size(b) + 1
  BY <1>1, <1>2, <1>5, BwPoint
<1>7. BwTypeOK'
  <2>1. 1 \in 1 .. Size(t) + 1 BY <1>6
  <2>2. bw_pt' \in AllPoints' BY <1>1, <1>2, <1>4, <2>1, BwPoint, BwSameFunc
  <2>3. bw_held' \subseteq BwBorrows' BY <1>1, <1>2, <1>4, BwSameFunc DEF BwTypeOK
  <2> QED BY <1>1, <1>2, <2>2, <2>3 DEF BwTypeOK
<1>8. BwReported' BY <1>1, <1>2, BwSameAnalyses DEF BwReported
<1>9. bw_moved \subseteq MovedBefore(<<t, 1>>)
  <2>1. bw_moved \subseteq MovedBefore(bw_pt) BY <1>1 DEF BwFollows
  <2>2. MovedBefore(bw_pt) = InState(b) \cup Moves(b)
    <3>1. bw_pt[2] - 1 = Size(b) BY <1>6
    <3> QED BY <1>6, <3>1 DEF MovedBefore, Moves
  <2>3. bw_out[b] = InState(b) \cup Moves(b) BY <1>1, <1>2 DEF BwMovesSettled
  <2>4. bw_out[b] \subseteq InState(t) BY <1>6 DEF InState, BwPreds
  <2>5. InState(t) \subseteq MovedBefore(<<t, 1>>) BY DEF MovedBefore
  <2> QED BY <2>1, <2>2, <2>3, <2>4, <2>5
<1>10. ASSUME NEW v \in BwValues, BwLiveAt(<<t, 1>>, v)
       PROVE  BwLiveAt(<<b, Size(b) + 1>>, v)
  <2>1. bw_livein[t] = LiveIn(t) /\ bw_liveout[t] = LiveOut(t) /\ bw_liveout[b] = LiveOut(b)
    BY <1>1, <1>2 DEF BwLiveSettled
  <2>2. <<t, 1>>[1] = t /\ <<t, 1>>[2] = 1 /\ <<b, Size(b) + 1>>[1] = b /\ <<b, Size(b) + 1>>[2] = Size(b) + 1
    OBVIOUS
  <2>3. v \in LiveIn(t)
    <3>1. CASE \E j \in 1 .. Size(t) :
                 v \in UsesAt(<<t, j>>) /\ \A k \in 1 .. j - 1 : v \notin DefsAt(<<t, k>>)
      BY <3>1 DEF LiveIn, UpwardUses
    <3>2. CASE v \in bw_liveout[t] /\ \A k \in 1 .. Size(t) : v \notin DefsAt(<<t, k>>)
      <4>1. v \notin BlockDefs(t) BY <3>2 DEF BlockDefs
      <4> QED BY <2>1, <3>2, <4>1 DEF LiveIn
    <3> QED BY <1>10, <2>2, <3>1, <3>2 DEF BwLiveAt
  <2>4. v \in bw_liveout[b] BY <1>6, <2>1, <2>3 DEF LiveOut
  <2>5. \A k \in Size(b) + 1 .. Size(b) : v \notin DefsAt(<<b, k>>) BY <1>6
  <2> QED BY <2>2, <2>4, <2>5 DEF BwLiveAt
<1>11. ASSUME NEW e \in bw_ended
       PROVE  /\ e[1] \in BwBorrows
              /\ e[1] \in Tracked /\ BwLiveAt(<<t, 1>>, Inst(e[1]).res)
                   => <<"conflict", e[2], e[1]>> \in bw_errors
  <2>1. e[1] \in BwBorrows BY <1>1 DEF BwFollows
  <2>2. Inst(e[1]).res \in BwValues BY <1>1, <2>1, BwOperands
  <2> QED BY <1>1, <1>5, <1>10, <2>1, <2>2 DEF BwFollows
<1>12. BwFollows'
  <2>1. bw_moved' \subseteq MovedBefore(bw_pt)'
    <3>1. MovedBefore(<<t, 1>>)' = MovedBefore(<<t, 1>>) BY <1>2, BwSameAnalyses
    <3>2. MovedBefore(bw_pt)' = MovedBefore(<<t, 1>>)' BY <1>2
    <3> QED BY <1>2, <1>9, <3>1, <3>2
  <2> SUFFICES ASSUME NEW e \in bw_ended'
               PROVE  /\ e[1] \in BwBorrows'
                      /\ e[1] \in Tracked' /\ BwLiveAt(bw_pt, Inst(e[1]).res)'
                           => <<"conflict", e[2], e[1]>> \in bw_errors'
    BY <1>2, <2>1 DEF BwFollows
  <2>2. BwBorrows' = BwBorrows /\ Tracked' = Tracked /\ Inst(e[1])' = Inst(e[1]) BY <1>4, BwSameFunc
  <2>3. BwLiveAt(<<t, 1>>, Inst(e[1]).res)' = BwLiveAt(<<t, 1>>, Inst(e[1]).res)
    BY <1>2, <2>2, BwSameAnalyses
  <2>4. BwLiveAt(bw_pt, Inst(e[1]).res)' = BwLiveAt(<<t, 1>>, Inst(e[1]).res)' BY <1>2
  <2> QED BY <1>2, <1>11, <2>2, <2>3, <2>4
<1> QED BY <1>3, <1>7, <1>8, <1>12 DEF BwInv

(* Each step of the checker and of the execution keeps the invariant. *)
LEMMA BwNextInv == BwInv /\ [BwNext]_bwVars => BwInv'
<1> SUFFICES ASSUME BwInv, [BwNext]_bwVars PROVE BwInv'
  OBVIOUS
<1>1. ASSUME NEW b \in BwBlocks, BwMoveStep(b) PROVE BwInv' BY <1>1, BwMoveStepInv
<1>2. ASSUME NEW b \in BwBlocks, BwLiveStep(b) PROVE BwInv' BY <1>2, BwLiveStepInv
<1>3. ASSUME NEW t \in BwBlocks, BwGoto(t) PROVE BwInv' BY <1>3, BwGotoInv
<1>4. CASE BwMovesDone BY <1>4, BwMovesDoneInv
<1>5. CASE BwCheck BY <1>5, BwCheckInv
<1>6. CASE BwCall BY <1>6, BwCallInv
<1>7. CASE BwExecute BY <1>7, BwExecuteInv
<1>8. CASE UNCHANGED bwVars
  <2>0. UNCHANGED <<bw_func, bw_pc, bw_work, bw_out, bw_livein, bw_liveout, bw_errors,
                    bw_pt, bw_moved, bw_held, bw_ended>> BY <1>8 DEF bwVars
  <2>1. BwTypeOK /\ BwMovesSettled /\ BwLiveSettled /\ BwMovesReal /\ BwLiveReal /\ BwReported /\ BwFollows
    BY DEF BwInv
  <2>2. BwTypeOK' BY <2>0, <2>1, BwSameFunc DEF BwTypeOK
  <2>3. BwMovesSettled'
    <3> SUFFICES ASSUME NEW c \in BwBlocks, bw_pc = "moves" => c \notin bw_work
                 PROVE  bw_out[c] = InState(c)' \cup Moves(c)'
      BY <2>0 DEF BwMovesSettled
    <3>1. Moves(c)' = Moves(c) BY <2>0, BwSameFunc
    <3>2. InState(c)' = InState(c) BY <2>0, BwSameAnalyses
    <3> QED BY <2>1, <3>1, <3>2 DEF BwMovesSettled
  <2>4. BwLiveSettled'
    <3> SUFFICES ASSUME NEW c \in BwBlocks, bw_pc # "moves", bw_pc = "liveness" => c \notin bw_work
                 PROVE  bw_liveout[c] = LiveOut(c)' /\ bw_livein[c] = LiveIn(c)'
      BY <2>0 DEF BwLiveSettled
    <3>1. LiveOut(c)' = LiveOut(c) /\ LiveIn(c)' = LiveIn(c) BY <2>0, BwSameAnalyses
    <3> QED BY <2>1, <3>1 DEF BwLiveSettled
  <2>5. BwMovesReal'
    <3> SUFFICES ASSUME NEW c \in BwBlocks, NEW v \in bw_out[c]
                 PROVE  \E q \in InstPoints : v \in MovesAt(q) /\ Leads(q, <<c, Size(c) + 1>>)
      BY <2>0, BwSameFunc DEF BwMovesReal
    <3> QED BY <2>1 DEF BwMovesReal
  <2>6. BwLiveReal'
    <3> SUFFICES ASSUME NEW c \in BwBlocks, NEW v \in bw_livein[c]
                 PROVE  \E u \in InstPoints : v \in UsesAt(u) /\ Flows({<<c, 1>>}, u, v)
      BY <2>0, BwLiveRealNext
    <3> QED BY <2>1 DEF BwLiveReal
  <2>7. BwReported' BY <2>0, <2>1, BwSameAnalyses DEF BwReported
  <2>8. BwFollows'
    <3>1. \A p : MovedBefore(p)' = MovedBefore(p) BY <2>0, BwSameAnalyses
    <3>2. \A p, v : BwLiveAt(p, v)' = BwLiveAt(p, v) BY <2>0, BwSameAnalyses
    <3>3. BwBorrows' = BwBorrows /\ Tracked' = Tracked /\ \A q : Inst(q)' = Inst(q) BY <2>0, BwSameFunc
    <3> QED BY <2>0, <2>1, <3>1, <3>2, <3>3 DEF BwFollows
  <2> QED BY <2>2, <2>3, <2>4, <2>5, <2>6, <2>7, <2>8 DEF BwInv
<1> QED BY <1>1, <1>2, <1>3, <1>4, <1>5, <1>6, <1>7, <1>8 DEF BwNext

(* Whatever the order in which the work lists hand out the blocks, the two  *)
(* analyses, the reports and every execution keep the invariant.            *)
THEOREM BwInvariant == BwSpec => []BwInv
<1>1. BwInit => BwInv BY BwInitInv
<1>2. BwInv /\ [BwNext]_bwVars => BwInv' BY BwNextInv
<1> QED BY <1>1, <1>2, PTL DEF BwSpec

-----------------------------------------------------------------------------
(* What the reports say. *)

(* What an execution does wrong was reported: the state of the analysis is  *)
(* above what is moved, and an ended borrow is no longer live or reported.  *)
LEMMA BwInvSound == BwInv => BwSound
<1> SUFFICES ASSUME BwInv, bw_pc = "run" 
             PROVE  /\ \A v \in UsesAt(bw_pt) \cap bw_moved : <<"moved", bw_pt, v>> \in bw_errors
                    /\ \A e \in bw_ended : e[1] \in Tracked /\ Inst(e[1]).res \in UsesAt(bw_pt) =>
                                             <<"conflict", e[2], e[1]>> \in bw_errors
  BY DEF BwSound
<1>1. BwTypeOK /\ BwFollows /\ bw_errors = BwErrors BY DEF BwInv, BwReported
<1>2. ASSUME NEW v \in UsesAt(bw_pt) \cap bw_moved PROVE <<"moved", bw_pt, v>> \in bw_errors
  <2>1. bw_pt \in InstPoints BY <1>1, BwPoint DEF UsesAt, BwTypeOK
  <2>2. v \in BwValues BY <1>1, BwOperands
  <2>3. v \in MovedBefore(bw_pt) BY <1>1 DEF BwFollows
  <2>4. <<"moved", bw_pt, v>> \in MoveErrors BY <2>1, <2>2 DEF MoveErrors
  <2> QED BY <1>1, <2>3, <2>4 DEF BwErrors
<1>3. ASSUME NEW e \in bw_ended, e[1] \in Tracked, Inst(e[1]).res \in UsesAt(bw_pt)
      PROVE  <<"conflict", e[2], e[1]>> \in bw_errors
  <2>1. bw_pt \in InstPoints BY <1>1, <1>3, BwPoint DEF UsesAt, BwTypeOK
  <2>2. bw_pt = <<bw_pt[1], bw_pt[2]>> /\ Size(bw_pt[1]) \in Nat /\ bw_pt[2] \in 1 .. Size(bw_pt[1])
    BY <1>1, <2>1, BwPoint DEF InstPoints
  <2>3. bw_pt[2] .. bw_pt[2] - 1 = {} /\ bw_pt[2] \in bw_pt[2] .. Size(bw_pt[1]) BY <2>2
  <2>4. BwLiveAt(bw_pt, Inst(e[1]).res) BY <1>3, <2>2, <2>3 DEF BwLiveAt
  <2> QED BY <1>1, <1>3, <2>4 DEF BwFollows
<1> QED BY <1>2, <1>3

(* A borrow that is used from p on, on a way that does not define it again, *)
(* was taken on the way to p: its uses are dominated by it.                 *)
LEMMA BwTakenBefore ==
  ASSUME BwTypeOK, NEW p \in AllPoints, NEW q \in BwBorrows, p # q,
         NEW u \in InstPoints, Inst(q).res \in UsesAt(u),
         u = p \/ Flows(PtSucc(p), u, Inst(q).res),
         Dominated(Inst(q).res), BwReached(p)
  PROVE  Leads(q, p)
<1> DEFINE v == Inst(q).res
<1>0. q \in AllPoints /\ v \in DefsAt(q) BY BwOperands DEF BwBorrows, InstPoints
<1>1. \A x \in AllPoints : v \in DefsAt(x) => x = q BY <1>0, BwOneDef
<1>2. PICK D \in SUBSET AllPoints :
        /\ <<0, 1>> \in D /\ u \notin D
        /\ \A x \in D : v \notin DefsAt(x) => PtSucc(x) \subseteq D
  <2>1. ~Flows({<<0, 1>>}, u, v) BY DEF Dominated
  <2> QED BY <2>1 DEF Flows
<1> SUFFICES ASSUME NEW X \in SUBSET AllPoints, PtSucc(q) \subseteq X,
                    \A x \in X : BwNone \notin DefsAt(x) => PtSucc(x) \subseteq X,
                    p \notin X
             PROVE  FALSE
  BY DEF Leads, Flows
<1>3. \A x \in X : PtSucc(x) \subseteq X BY DEF DefsAt
<1>4. \A x \in X \cup D : PtSucc(x) \subseteq X \cup D
  <2> SUFFICES ASSUME NEW x \in D, x \notin X PROVE PtSucc(x) \subseteq X \cup D
    BY <1>3
  <2>1. CASE v \in DefsAt(x) BY <1>1, <2>1
  <2>2. CASE v \notin DefsAt(x) BY <1>2, <2>2
  <2> QED BY <2>1, <2>2
<1>5. p \in X \cup D
  <2>1. Flows({<<0, 1>>}, p, BwNone) BY DEF BwReached
  <2>2. X \cup D \in SUBSET AllPoints /\ {<<0, 1>>} \subseteq X \cup D BY <1>2
  <2> QED BY <1>4, <2>1, <2>2 DEF Flows
<1>6. p \in D /\ v \notin DefsAt(p) BY <1>1, <1>5
<1>7. PtSucc(p) \subseteq D BY <1>2, <1>6
<1>8. CASE u = p BY <1>2, <1>6, <1>8
<1>9. CASE Flows(PtSucc(p), u, v) BY <1>2, <1>7, <1>9 DEF Flows
<1> QED BY <1>8, <1>9

(* What was reported has a way: the moves and the uses that were found have *)
(* one, and a borrow dominates its uses.                                    *)
LEMMA BwInvPrecise == BwInv => BwPrecise
<1> SUFFICES ASSUME BwInv, bw_pc = "checked", NEW e \in bw_errors
             PROVE  /\ e[1] = "moved" => \E q \in InstPoints : e[3] \in MovesAt(q) /\ Leads(q, e[2])
                    /\ e[1] = "conflict" =>
                         \/ e[3][1] = e[2][1] /\ e[3][2] > e[2][2]
                         \/ /\ \/ Inst(e[3]).res \in UsesAt(e[2])
                               \/ \E u \in InstPoints : Inst(e[3]).res \in UsesAt(u)
                                                          /\ Flows(PtSucc(e[2]), u, Inst(e[3]).res)
                            /\ Dominated(Inst(e[3]).res) /\ BwReached(e[2]) => Leads(e[3], e[2])
  BY DEF BwPrecise
<1>1. BwTypeOK /\ BwMovesReal /\ BwLiveReal /\ BwLiveSettled /\ e \in BwErrors BY DEF BwInv, BwReported
<1>2. ASSUME e[1] = "moved" PROVE \E q \in InstPoints : e[3] \in MovesAt(q) /\ Leads(q, e[2])
  <2>1. e \in MoveErrors /\ e[3] \in MovedBefore(e[2])
    BY <1>1, <1>2 DEF BwErrors, ConflictErrors
  <2>2. e[2] \in InstPoints BY <2>1 DEF MoveErrors
  <2>3. /\ e[2] = <<e[2][1], e[2][2]>> /\ e[2][1] \in BwBlocks /\ e[2][2] \in 1 .. Size(e[2][1]) + 1
    BY <1>1, <2>2, BwPoint DEF InstPoints
  <2>4. \E q \in InstPoints : e[3] \in MovesAt(q) /\ Leads(q, <<e[2][1], e[2][2]>>)
    BY <1>1, <2>1, <2>3, BwMovedReal
  <2> QED BY <2>3, <2>4
<1>3. ASSUME e[1] = "conflict"
      PROVE  \/ e[3][1] = e[2][1] /\ e[3][2] > e[2][2]
             \/ /\ \/ Inst(e[3]).res \in UsesAt(e[2])
                   \/ \E u \in InstPoints : Inst(e[3]).res \in UsesAt(u)
                                              /\ Flows(PtSucc(e[2]), u, Inst(e[3]).res)
                /\ Dominated(Inst(e[3]).res) /\ BwReached(e[2]) => Leads(e[3], e[2])
  <2>1. e \in ConflictErrors /\ Conflicting(e[2], e[3]) /\ BwActive(e[2], e[3])
    BY <1>1, <1>3 DEF BwErrors, MoveErrors
  <2>2. PICK p \in BwBorrows, q \in Tracked : e = <<"conflict", p, q>> BY <2>1 DEF ConflictErrors
  <2>3. e[2] = p /\ e[3] = q /\ p # q /\ q \in BwBorrows BY <2>1, <2>2 DEF Conflicting, Tracked
  <2> DEFINE v == Inst(q).res
             b == p[1]
             i == p[2]
  <2>4. /\ p = <<b, i>> /\ b \in BwBlocks /\ Size(b) \in Nat /\ i \in 1 .. Size(b)
        /\ p \in InstPoints /\ p \in AllPoints /\ q \in AllPoints
        /\ q = <<q[1], q[2]>> /\ q[2] \in Nat
    <3>1. p \in InstPoints /\ q \in InstPoints /\ p \in AllPoints /\ q \in AllPoints
      BY <2>3 DEF BwBorrows, InstPoints
    <3> QED BY <1>1, <3>1, BwPoint DEF InstPoints
  <2>5. v \in BwValues /\ v \in DefsAt(q) BY <1>1, <2>3, BwOperands
  <2>6. CASE q[1] = b /\ q[2] > i BY <2>3, <2>6
  <2>7. CASE ~(q[1] = b /\ q[2] > i)
    <3>1. \A k \in i + 1 .. Size(b) : v \notin DefsAt(<<b, k>>)
      <4> SUFFICES ASSUME NEW k \in i + 1 .. Size(b), v \in DefsAt(<<b, k>>) PROVE FALSE
        OBVIOUS
      <4>1. k \in 1 .. Size(b) + 1 /\ k > i BY <2>4
      <4>2. <<b, k>> \in AllPoints BY <1>1, <2>4, <4>1, BwPoint
      <4>3. <<b, k>> = q BY <1>1, <2>4, <2>5, <4>2, BwOneDef
      <4>4. q[1] = b /\ q[2] = k BY <4>3
      <4> QED BY <2>7, <4>1, <4>4
    <3>2. PtSucc(p) = {<<b, i + 1>>}
      <4>1. HasInst(p) BY <1>1, <2>4, BwPoint
      <4> QED BY <4>1 DEF PtSucc
    <3>3. \/ v \in UsesAt(p)
          \/ \E u \in InstPoints : v \in UsesAt(u) /\ Flows(PtSucc(p), u, v)
      <4>1. CASE \E j \in i + 1 .. Size(b) : v \in UsesAt(<<b, j>>)
        <5>1. PICK j \in i + 1 .. Size(b) : v \in UsesAt(<<b, j>>) BY <4>1
        <5>2. /\ i + 1 \in Nat /\ j \in Nat /\ 1 <= i + 1 /\ i + 1 <= j /\ j <= Size(b) + 1 /\ j \in 1 .. Size(b)
              /\ i + 1 .. j - 1 \subseteq i + 1 .. Size(b)
          BY <2>4
        <5>3. <<b, j>> \in InstPoints BY <1>1, <2>4, <5>2, BwPoint
        <5>4. \A k \in i + 1 .. j - 1 : v \notin DefsAt(<<b, k>>) BY <3>1, <5>2
        <5>5. Flows({<<b, i + 1>>}, <<b, j>>, v) BY <1>1, <2>4, <5>2, <5>4, BwFlowsIn
        <5> QED BY <3>2, <5>1, <5>3, <5>5
      <4>2. CASE v \in bw_liveout[b]
        <5>1. v \in LiveOut(b)
          <6>1. bw_work = {} \/ bw_pc = "checked" OBVIOUS
          <6> QED BY <1>1, <2>4, <4>2 DEF BwLiveSettled
        <5>2. i + 1 \in 1 .. Size(b) + 1 BY <2>4
        <5>3. \E u \in InstPoints : v \in UsesAt(u) /\ Flows({<<b, i + 1>>}, u, v)
          BY <1>1, <2>4, <3>1, <5>1, <5>2, BwFlowsOut
        <5> QED BY <3>2, <5>3
      <4> QED BY <2>1, <2>3, <4>1, <4>2 DEF BwActive, IsLiveAfter
    <3>4. Dominated(v) /\ BwReached(p) => Leads(q, p)
      BY <1>1, <2>3, <2>4, <3>3, BwTakenBefore
    <3> QED BY <2>3, <3>3, <3>4
  <2> QED BY <2>6, <2>7
<1> QED BY <1>2, <1>3

(* The verdict of the borrow checker, mir_borrow_check_function: an execution *)
(* that uses a moved value or an ended borrow was reported, and what is       *)
(* reported has a way on which it happens.                                    *)
THEOREM BwVerdictHolds == BwSpec => []BwVerdict
<1>1. BwInv => BwVerdict BY BwInvSound, BwInvPrecise DEF BwVerdict
<1> QED BY <1>1, BwInvariant, PTL

-----------------------------------------------------------------------------
(* Where an edge relation leads. *)

(* A block leads to itself. *)
LEMMA ReachSelf ==
  ASSUME NEW next, NEW b \in CfBlocks
  PROVE  b \in CfReach(CfClosed(next), b)
BY DEF CfReach

(* And on along its edges. *)
LEMMA ReachStep ==
  ASSUME NEW next \in [CfBlocks -> SUBSET CfBlocks], NEW b,
         NEW c \in CfReach(CfClosed(next), b), NEW d \in next[c]
  PROVE  d \in CfReach(CfClosed(next), b)
BY DEF CfReach, CfClosed

(* A closed set keeps what its members lead to. *)
LEMMA ReachLeast ==
  ASSUME NEW next, NEW b, NEW S \in SUBSET CfBlocks, b \in S, \A c \in S : next[c] \subseteq S
  PROVE  CfReach(CfClosed(next), b) \subseteq S
BY DEF CfReach, CfClosed

(* Ways can be joined. *)
LEMMA ReachTrans ==
  ASSUME NEW next, NEW b, NEW c \in CfReach(CfClosed(next), b), NEW d \in CfReach(CfClosed(next), c)
  PROVE  d \in CfReach(CfClosed(next), b)
BY DEF CfReach

(* A way of some length begins with an edge. *)
LEMMA ReachFirst ==
  ASSUME NEW next \in [CfBlocks -> SUBSET CfBlocks], NEW b \in CfBlocks,
         NEW c \in CfReach(CfClosed(next), b)
  PROVE  c = b \/ \E d \in next[b] : c \in CfReach(CfClosed(next), d)
<1> DEFINE S == {b} \cup {r \in CfBlocks : \E d \in next[b] : r \in CfReach(CfClosed(next), d)}
<1>1. \A x \in S : next[x] \subseteq S
  <2> SUFFICES ASSUME NEW x \in S, NEW y \in next[x] PROVE y \in S
    OBVIOUS
  <2>1. y \in CfBlocks BY DEF S
  <2>2. CASE x = b BY <2>1, <2>2, ReachSelf
  <2>3. CASE x # b
    <3>1. PICK d \in next[b] : x \in CfReach(CfClosed(next), d) BY <2>3
    <3>2. y \in CfReach(CfClosed(next), d) BY <3>1, ReachStep
    <3> QED BY <2>1, <3>2
  <2> QED BY <2>2, <2>3
<1>2. S \in SUBSET CfBlocks /\ b \in S
  OBVIOUS
<1>3. CfReach(CfClosed(next), b) \subseteq S
  <2> HIDE DEF S
  <2> QED BY <1>1, <1>2, ReachLeast
<1> QED BY <1>3

(* More edges lead further. *)
LEMMA ReachMono ==
  ASSUME NEW next, NEW wider, NEW b, \A x \in CfBlocks : next[x] \subseteq wider[x]
  PROVE  CfReach(CfClosed(next), b) \subseteq CfReach(CfClosed(wider), b)
BY DEF CfReach, CfClosed

-----------------------------------------------------------------------------
(* Terminators. *)

(* What a terminator holds. *)
LEMMA TermType ==
  ASSUME NEW B, NEW t \in CfTerms(B)
  PROVE  /\ t.k \in {"ret", "br", "condbr"}
         /\ t.k = "ret" => t.to = <<>>
         /\ t.k = "br" => DOMAIN t.to = {1} /\ t.to[1] \in B
         /\ t.k = "condbr" => DOMAIN t.to = {1, 2} /\ t.to[1] \in B /\ t.to[2] \in B
         /\ CfTargets(t) \subseteq B
         /\ t = [k |-> t.k, to |-> t.to]
<1>1. CASE t \in [k : {"ret"}, to : {<<>>}] BY <1>1 DEF CfTargets
<1>2. CASE t \in [k : {"br"}, to : [{1} -> B]] BY <1>2 DEF CfTargets
<1>3. CASE t \in [k : {"condbr"}, to : [{1, 2} -> B]] BY <1>3 DEF CfTargets
<1> QED BY <1>1, <1>2, <1>3 DEF CfTerms

(* The targets of the two kinds of branches. *)
LEMMA TargetsOf ==
  ASSUME NEW B, NEW t \in CfTerms(B)
  PROVE  /\ t.k = "ret" => CfTargets(t) = {}
         /\ t.k = "br" => CfTargets(t) = {t.to[1]}
         /\ t.k = "condbr" => CfTargets(t) = {t.to[1], t.to[2]}
BY TermType DEF CfTargets

(* The program that the passes start from. *)
LEMMA OrigType ==
  ASSUME CfTypeOK
  PROVE  /\ 0 \in CfBlocks /\ cf_orig \in [CfBlocks -> CfTerms(CfBlocks)]
         /\ \A b \in CfBlocks : cf_orig[b] \in CfTerms(CfBlocks)
BY CfAssumption DEF CfTypeOK, CfBlocks

(* The edges of terminators. *)
LEMMA EdgesType ==
  ASSUME NEW term \in [CfBlocks -> CfTerms(CfBlocks)]
  PROVE  /\ CfEdges(term) \in [CfBlocks -> SUBSET CfBlocks]
         /\ \A b \in CfBlocks : CfEdges(term)[b] = CfTargets(term[b])
<1>1. \A b \in CfBlocks : CfTargets(term[b]) \subseteq CfBlocks BY TermType
<1> QED BY <1>1 DEF CfEdges

(* The choices that an execution has at a block, and the one way on where a
   block is skipped. *)
LEMMA OnwardType ==
  ASSUME CfTypeOK, NEW term \in [CfBlocks -> CfTerms(CfBlocks)]
  PROVE  /\ CfOnward(term) \in [CfBlocks -> SUBSET CfBlocks]
         /\ \A b \in CfBlocks : CfSkips(term, b) =>
              CfOnward(term)[b] = {term[b].to[IF term[b].k = "br" THEN 1 ELSE Taken(b)]}
         /\ \A b \in CfBlocks : ~CfSkips(term, b) => CfOnward(term)[b] = {}
<1>1. \A b \in CfBlocks : CfSkips(term, b) => term[b].to[IF term[b].k = "br" THEN 1 ELSE Taken(b)] \in CfBlocks
  BY TermType DEF CfSkips, Taken
<1> QED BY <1>1 DEF CfOnward

-----------------------------------------------------------------------------
(* A folded branch. *)

(* What folding changes. *)
CfFolded(g, b, live, dead, h) ==
    /\ live \in CfBlocks /\ dead \in CfBlocks
    /\ CfTargets(g.term[b]) = {live, dead}
    /\ h.term = [g.term EXCEPT ![b] = [k |-> "br", to |-> <<live>>]]
    /\ h.succ = [g.succ EXCEPT ![b] = @ \ {dead}]
    /\ h.pred = [g.pred EXCEPT ![dead] = @ \ {b}]
    /\ h.phi = [x \in DOMAIN g.phi |-> IF x = dead THEN g.phi[x] \ {b} ELSE g.phi[x]]
    /\ h.odd = g.odd
    /\ CfGraphOK(h)

LEMMA FoldShape ==
  ASSUME CfTypeOK, NEW g, CfGraphOK(g), NEW b \in CfBlocks, CfFolds(g, b)
  PROVE  CfFolded(g, b, g.term[b].to[Taken(b)], g.term[b].to[3 - Taken(b)], FoldBranch(g, b))
<1> DEFINE live == g.term[b].to[Taken(b)]
           dead == g.term[b].to[3 - Taken(b)]
           h == FoldBranch(g, b)
<1>1. g.term[b] \in CfTerms(CfBlocks) /\ g.term[b].k = "condbr" BY DEF CfGraphOK, CfFolds
<1>2. /\ live \in CfBlocks /\ dead \in CfBlocks
      /\ CfTargets(g.term[b]) = {live, dead}
  BY <1>1, TermType, TargetsOf DEF Taken
<1>3. h = [term |-> [g.term EXCEPT ![b] = [k |-> "br", to |-> <<live>>]],
           succ |-> [g.succ EXCEPT ![b] = @ \ {dead}],
           pred |-> [g.pred EXCEPT ![dead] = @ \ {b}],
           phi |-> [x \in DOMAIN g.phi |-> IF x = dead THEN g.phi[x] \ {b} ELSE g.phi[x]],
           odd |-> g.odd]
  BY <1>2 DEF FoldBranch, RemovePred, RemoveSucc, CfGraphOK
<1>4. [k |-> "br", to |-> <<live>>] \in CfTerms(CfBlocks)
  <2>1. <<live>> \in [{1} -> CfBlocks] BY <1>2
  <2> QED BY <2>1 DEF CfTerms
<1>5. CfGraphOK(h)
  <2> HIDE DEF h, live, dead
  <2> QED BY <1>2, <1>3, <1>4 DEF CfGraphOK
<1>6. h.term = [g.term EXCEPT ![b] = [k |-> "br", to |-> <<live>>]] /\ h.succ = [g.succ EXCEPT ![b] = @ \ {dead}]
      /\ h.pred = [g.pred EXCEPT ![dead] = @ \ {b}] /\ h.odd = g.odd
      /\ h.phi = [x \in DOMAIN g.phi |-> IF x = dead THEN g.phi[x] \ {b} ELSE g.phi[x]]
  <2> HIDE DEF h, live, dead
  <2> QED BY <1>3
<1> HIDE DEF h, live, dead
<1>7. CfFolded(g, b, live, dead, h) BY <1>2, <1>5, <1>6 DEF CfFolded
<1> QED BY <1>7 DEF h, live, dead

(* The lists stay exact when a branch with two targets is folded. *)
LEMMA FoldExact ==
  ASSUME CfTypeOK, NEW g, CfGraphOK(g), NEW b \in CfBlocks, CfFolds(g, b),
         CfExact(g), g.term[b].to[1] # g.term[b].to[2]
  PROVE  CfExact(FoldBranch(g, b))
<1> DEFINE live == g.term[b].to[Taken(b)]
           dead == g.term[b].to[3 - Taken(b)]
           h == FoldBranch(g, b)
<1>1. /\ live \in CfBlocks /\ dead \in CfBlocks
      /\ CfTargets(g.term[b]) = {live, dead}
      /\ h.term = [g.term EXCEPT ![b] = [k |-> "br", to |-> <<live>>]]
      /\ h.succ = [g.succ EXCEPT ![b] = @ \ {dead}]
      /\ h.pred = [g.pred EXCEPT ![dead] = @ \ {b}]
      /\ h.phi = [x \in DOMAIN g.phi |-> IF x = dead THEN g.phi[x] \ {b} ELSE g.phi[x]]
      /\ CfGraphOK(h)
  <2>1. CfFolded(g, b, live, dead, h) BY FoldShape
  <2> HIDE DEF live, dead, h
  <2> QED BY <2>1 DEF CfFolded
<1>2. live # dead BY DEF Taken
<1>3. h.term[b] = [k |-> "br", to |-> <<live>>] /\ h.term[b] \in CfTerms(CfBlocks)
  BY <1>1 DEF CfGraphOK
<1>4. CfTargets(h.term[b]) = {live} BY <1>3, TargetsOf
<1>5. \A x \in CfBlocks : x # b => h.term[x] = g.term[x] BY <1>1 DEF CfGraphOK
<1> HIDE DEF live, dead, h
<1>6. \A x \in CfBlocks : CfTargets(h.term[x]) \subseteq CfTargets(g.term[x]) BY <1>1, <1>4, <1>5
<1>7. CfReach(CfClosed(CfEdges(h.term)), 0) \subseteq CfReach(CfClosed(CfEdges(g.term)), 0)
  <2>1. \A x \in CfBlocks : CfEdges(h.term)[x] \subseteq CfEdges(g.term)[x]
    <3>1. h.term \in [CfBlocks -> CfTerms(CfBlocks)] /\ g.term \in [CfBlocks -> CfTerms(CfBlocks)]
      BY <1>1 DEF CfGraphOK
    <3>2. \A x \in CfBlocks : CfEdges(h.term)[x] = CfTargets(h.term[x]) BY <3>1, EdgesType
    <3>3. \A x \in CfBlocks : CfEdges(g.term)[x] = CfTargets(g.term[x]) BY <3>1, EdgesType
    <3> QED BY <1>6, <3>2, <3>3
  <2> QED BY <2>1, ReachMono
<1>8. ASSUME NEW x \in CfBlocks PROVE h.succ[x] = CfTargets(h.term[x])
  <2>1. g.succ[x] = CfTargets(g.term[x]) BY DEF CfExact
  <2>2. h.succ[x] = IF x = b THEN g.succ[x] \ {dead} ELSE g.succ[x] BY <1>1 DEF CfGraphOK
  <2>3. CASE x = b BY <2>1, <2>2, <2>3, <1>1, <1>2, <1>4
  <2>4. CASE x # b BY <2>1, <2>2, <2>4, <1>5
  <2> QED BY <2>3, <2>4
<1>9. \A x \in CfBlocks : \A p \in h.pred[x] : x \in CfTargets(h.term[p])
  <2> SUFFICES ASSUME NEW x \in CfBlocks, NEW p \in h.pred[x] PROVE x \in CfTargets(h.term[p])
    OBVIOUS
  <2>1. p \in g.pred[x] /\ p \in CfBlocks /\ (x = dead => p # b) BY <1>1 DEF CfGraphOK
  <2>2. x \in CfTargets(g.term[p]) BY <2>1 DEF CfExact
  <2> QED BY <2>1, <2>2, <1>1, <1>4, <1>5
<1>10. ASSUME NEW p \in CfReach(CfClosed(CfEdges(h.term)), 0), NEW x \in CfTargets(h.term[p]) PROVE p \in h.pred[x]
  <2>1. p \in CfBlocks BY <1>10 DEF CfReach
  <2>2. x \in CfTargets(g.term[p]) /\ x \in CfBlocks BY <1>6, <2>1, <1>10, <1>1, TermType DEF CfGraphOK
  <2>3. p \in g.pred[x] BY <1>7, <1>10, <2>2 DEF CfExact
  <2>4. ~(x = dead /\ p = b) BY <1>2, <1>4, <1>10
  <2> QED BY <1>1, <2>2, <2>3, <2>4 DEF CfGraphOK
<1>11. \A x \in DOMAIN h.phi : h.phi[x] = h.pred[x]
  <2> SUFFICES ASSUME NEW x \in DOMAIN h.phi PROVE h.phi[x] = h.pred[x]
    OBVIOUS
  <2>1. x \in DOMAIN g.phi /\ h.phi[x] = (IF x = dead THEN g.phi[x] \ {b} ELSE g.phi[x]) BY <1>1
  <2>2. g.phi[x] = g.pred[x] BY <2>1 DEF CfExact
  <2>3. h.pred[x] = IF x = dead THEN g.pred[x] \ {b} ELSE g.pred[x] BY <1>1 DEF CfGraphOK
  <2> QED BY <2>1, <2>2, <2>3
<1> QED BY <1>8, <1>9, <1>10, <1>11 DEF CfExact, h

(* Where a way in the program goes on at a block. *)
LEMMA FoldFollows ==
  ASSUME CfTypeOK, NEW g, CfGraphOK(g), NEW b \in CfBlocks, CfFolds(g, b), CfFollows(g)
  PROVE  CfFollows(FoldBranch(g, b))
<1> DEFINE live == g.term[b].to[Taken(b)]
           h == FoldBranch(g, b)
<1>1. h.term = [g.term EXCEPT ![b] = [k |-> "br", to |-> <<live>>]] BY FoldShape DEF CfFolded
<1>2. \A x \in CfBlocks : x # b => h.term[x] = g.term[x] BY <1>1 DEF CfGraphOK
<1>3. h.term[b].k = "br" /\ h.term[b].to[1] = live BY <1>1 DEF CfGraphOK
<1>4. g.term[b].k = "condbr" /\ cf_known[b] # 2 BY DEF CfFolds
<1>5. cf_orig[b].k = "condbr" /\ CfChoices(b) = {Taken(b)} BY <1>4 DEF CfFollows, CfChoices
<1>6. live \in CfReach(CfClosed(CfOnward(cf_orig)), cf_orig[b].to[Taken(b)])
  BY <1>4, <1>5 DEF CfFollows
<1> HIDE DEF live, h
<1> QED BY <1>2, <1>3, <1>4, <1>5, <1>6 DEF CfFollows, h

-----------------------------------------------------------------------------
(* A forwarder that is threaded. *)

(* A terminator with its targets redirected. *)
LEMMA RedirectType ==
  ASSUME NEW B, NEW t \in CfTerms(B), NEW b, NEW target \in B,
         NEW u, u = Redirected(t, b, target)
  PROVE  /\ u \in CfTerms(B) /\ u.k = t.k
         /\ \A i \in DOMAIN t.to : u.to[i] = IF t.to[i] = b THEN target ELSE t.to[i]
         /\ CfTargets(u) = (CfTargets(t) \ {b}) \cup (IF b \in CfTargets(t) THEN {target} ELSE {})
<1>1. u.k = t.k /\ u.to = [i \in DOMAIN t.to |-> IF t.to[i] = b THEN target ELSE t.to[i]] /\ u = [k |-> u.k, to |-> u.to]
  BY TermType DEF Redirected
<1>2. u \in CfTerms(B)
  <2>1. CASE t.k = "ret"
    <3>1. t.to = <<>> BY <2>1, TermType
    <3>2. u.to = <<>> BY <1>1, <3>1
    <3> QED BY <1>1, <2>1, <3>2 DEF CfTerms
  <2>2. CASE t.k = "br"
    <3>1. u.to \in [{1} -> B] BY <1>1, <2>2, TermType
    <3> QED BY <1>1, <2>2, <3>1 DEF CfTerms
  <2>3. CASE t.k = "condbr"
    <3>1. u.to \in [{1, 2} -> B] BY <1>1, <2>3, TermType
    <3> QED BY <1>1, <2>3, <3>1 DEF CfTerms
  <2> QED BY <2>1, <2>2, <2>3, TermType
<1>3. CfTargets(u) = (CfTargets(t) \ {b}) \cup (IF b \in CfTargets(t) THEN {target} ELSE {})
  <2>1. DOMAIN u.to = DOMAIN t.to /\ \A i \in DOMAIN t.to : u.to[i] = IF t.to[i] = b THEN target ELSE t.to[i]
    BY <1>1
  <2>2. CfTargets(u) \subseteq (CfTargets(t) \ {b}) \cup (IF b \in CfTargets(t) THEN {target} ELSE {})
    BY <2>1 DEF CfTargets
  <2>3. ASSUME NEW x \in CfTargets(t), x # b PROVE x \in CfTargets(u)
    BY <2>1, <2>3 DEF CfTargets
  <2>4. ASSUME b \in CfTargets(t) PROVE target \in CfTargets(u)
    BY <2>1, <2>4 DEF CfTargets
  <2> QED BY <2>2, <2>3, <2>4
<1> QED BY <1>1, <1>2, <1>3

(* A list without one predecessor. *)
LEMMA RemovePredShape ==
  ASSUME NEW g, g = [term |-> g.term, succ |-> g.succ, pred |-> g.pred, phi |-> g.phi, odd |-> g.odd],
         NEW live, NEW dead, NEW h, h = RemovePred(g, live, dead)
  PROVE  /\ h = [term |-> h.term, succ |-> h.succ, pred |-> h.pred, phi |-> h.phi, odd |-> h.odd]
         /\ h.term = g.term /\ h.succ = g.succ /\ h.odd = g.odd
         /\ h.pred = [g.pred EXCEPT ![live] = @ \ {dead}]
         /\ h.phi = [b \in DOMAIN g.phi |-> IF b = live THEN g.phi[b] \ {dead} ELSE g.phi[b]]
BY DEF RemovePred

(* And one list that is emptied. *)
LEMMA EmptiedShape ==
  ASSUME NEW g, g = [term |-> g.term, succ |-> g.succ, pred |-> g.pred, phi |-> g.phi, odd |-> g.odd],
         NEW b, NEW h, h = [g EXCEPT !.pred[b] = {}]
  PROVE  /\ h = [term |-> h.term, succ |-> h.succ, pred |-> h.pred, phi |-> h.phi, odd |-> h.odd]
         /\ h.term = g.term /\ h.succ = g.succ /\ h.odd = g.odd /\ h.phi = g.phi
         /\ h.pred = [g.pred EXCEPT ![b] = {}]
OBVIOUS

(* What threading changes. *)
CfThreads(g, b, target, h) ==
    /\ target \in CfBlocks
    /\ CfTargets(g.term[b]) = {target}
    /\ \A p \in g.pred[b] : h.term[p] = Redirected(g.term[p], b, target)
    /\ \A p \in CfBlocks : p \notin g.pred[b] => h.term[p] = g.term[p]
    /\ h.succ = [p \in CfBlocks |-> IF p \in g.pred[b] THEN (g.succ[p] \ {b}) \cup ({target} \ {b}) ELSE g.succ[p]]
    /\ \A x \in CfBlocks :
         h.pred[x] = IF x = b THEN {} ELSE IF x = target THEN (g.pred[x] \cup g.pred[b]) \ {b} ELSE g.pred[x]
    /\ h.phi = [x \in DOMAIN g.phi |-> g.phi[x]] /\ b \notin DOMAIN g.phi /\ target \notin DOMAIN g.phi
    /\ h.odd = g.odd
    /\ CfGraphOK(h)

LEMMA ThreadShape ==
  ASSUME CfTypeOK, NEW g, CfGraphOK(g), NEW b \in CfBlocks, IsForwarder(g, b)
  PROVE  CfThreads(g, b, g.term[b].to[1], ThreadForwarder(g, b))
<1> DEFINE target == g.term[b].to[1]
           h == ThreadForwarder(g, b)
           redirected == [p \in CfBlocks |-> IF p \in g.pred[b]
                               THEN Redirected(g.term[p], b, target)
                               ELSE g.term[p]]
           succ == [p \in CfBlocks |-> IF p \in g.pred[b] THEN (g.succ[p] \ {b}) \cup ({target} \ {b}) ELSE g.succ[p]]
           pred == [[g.pred EXCEPT ![target] = ThreadedPreds(g, b, target) \ {b}] EXCEPT ![b] = {}]
<1>1. g.term[b] \in CfTerms(CfBlocks) /\ g.term[b].k = "br" BY DEF CfGraphOK, IsForwarder
<1>2. target \in CfBlocks /\ CfTargets(g.term[b]) = {target} BY <1>1, TermType, TargetsOf
<1>3. b \notin DOMAIN g.phi /\ target \notin DOMAIN g.phi BY DEF IsForwarder, CfHasPhi
<1>4. /\ h = [term |-> h.term, succ |-> h.succ, pred |-> h.pred, phi |-> h.phi, odd |-> h.odd]
      /\ h.term = redirected /\ h.succ = succ /\ h.pred = pred /\ h.phi = [x \in DOMAIN g.phi |-> g.phi[x]] /\ h.odd = g.odd
  <2> DEFINE threaded == [term |-> redirected, succ |-> succ, pred |-> [g.pred EXCEPT ![target] = ThreadedPreds(g, b, target)],
                          phi |-> g.phi, odd |-> g.odd]
             removed == RemovePred(threaded, target, b)
  <2>1. h = [removed EXCEPT !.pred[b] = {}] BY DEF ThreadForwarder
  <2>2. threaded = [term |-> threaded.term, succ |-> threaded.succ, pred |-> threaded.pred, phi |-> threaded.phi, odd |-> threaded.odd]
    OBVIOUS
  <2> HIDE DEF threaded, removed, redirected, succ, target, h
  <2>3. /\ removed = [term |-> removed.term, succ |-> removed.succ, pred |-> removed.pred, phi |-> removed.phi, odd |-> removed.odd]
        /\ removed.term = threaded.term /\ removed.succ = threaded.succ /\ removed.odd = threaded.odd
        /\ removed.pred = [threaded.pred EXCEPT ![target] = @ \ {b}]
        /\ removed.phi = [x \in DOMAIN threaded.phi |-> IF x = target THEN threaded.phi[x] \ {b} ELSE threaded.phi[x]]
    BY <2>2, RemovePredShape DEF removed
  <2>4. removed.pred = [g.pred EXCEPT ![target] = ThreadedPreds(g, b, target) \ {b}]
    BY <1>2, <2>3 DEF CfGraphOK, threaded
  <2>5. removed.phi = [x \in DOMAIN g.phi |-> g.phi[x]] BY <1>3, <2>3 DEF target, threaded
  <2>6. /\ h = [term |-> h.term, succ |-> h.succ, pred |-> h.pred, phi |-> h.phi, odd |-> h.odd]
        /\ h.term = removed.term /\ h.succ = removed.succ /\ h.odd = removed.odd /\ h.phi = removed.phi
        /\ h.pred = [removed.pred EXCEPT ![b] = {}]
    BY <2>1, <2>3, EmptiedShape
  <2> QED BY <2>3, <2>4, <2>5, <2>6 DEF pred, threaded
<1>5. redirected \in [CfBlocks -> CfTerms(CfBlocks)]
  <2>1. ASSUME NEW p \in CfBlocks PROVE redirected[p] \in CfTerms(CfBlocks)
    <3>1. g.term[p] \in CfTerms(CfBlocks) BY DEF CfGraphOK
    <3>2. Redirected(g.term[p], b, target) \in CfTerms(CfBlocks)
      BY <1>2, <3>1, RedirectType
    <3> QED BY <3>1, <3>2
  <2> QED BY <2>1
<1>6. \A x \in CfBlocks :
        pred[x] = IF x = b THEN {} ELSE IF x = target THEN (g.pred[x] \cup g.pred[b]) \ {b} ELSE g.pred[x]
  BY <1>2 DEF CfGraphOK, ThreadedPreds
<1>7. pred \in [CfBlocks -> SUBSET CfBlocks] BY <1>2 DEF CfGraphOK, ThreadedPreds
<1>8. succ \in [CfBlocks -> SUBSET CfBlocks] BY <1>2 DEF CfGraphOK
<1>9. CfGraphOK(h)
  <2> HIDE DEF h, target, redirected, pred, succ
  <2> QED BY <1>4, <1>5, <1>7, <1>8 DEF CfGraphOK
<1>11. g.pred[b] \subseteq CfBlocks BY DEF CfGraphOK
<1>12. /\ \A p \in g.pred[b] : redirected[p] = Redirected(g.term[p], b, target)
       /\ \A p \in CfBlocks : p \notin g.pred[b] => redirected[p] = g.term[p]
  BY <1>11
<1> HIDE DEF h, target, redirected, pred, succ
<1>13. CfThreads(g, b, target, h) BY <1>2, <1>3, <1>4, <1>6, <1>9, <1>12 DEF CfThreads, succ
<1> QED BY <1>13 DEF target, h

(* The lists stay exact when a forwarder to another block is threaded; the
   forwarder is reached no more. *)
LEMMA ThreadExact ==
  ASSUME CfTypeOK, NEW g, CfGraphOK(g), NEW b \in CfBlocks, IsForwarder(g, b),
         CfExact(g), g.term[b].to[1] # b
  PROVE  CfExact(ThreadForwarder(g, b))
<1> DEFINE target == g.term[b].to[1]
           h == ThreadForwarder(g, b)
           live == CfReach(CfClosed(CfEdges(g.term)), 0)
           left == CfReach(CfClosed(CfEdges(h.term)), 0)
<1>1. /\ target \in CfBlocks
      /\ CfTargets(g.term[b]) = {target}
      /\ \A p \in g.pred[b] : h.term[p] = Redirected(g.term[p], b, target)
      /\ \A p \in CfBlocks : p \notin g.pred[b] => h.term[p] = g.term[p]
      /\ h.succ = [p \in CfBlocks |-> IF p \in g.pred[b] THEN (g.succ[p] \ {b}) \cup ({target} \ {b}) ELSE g.succ[p]]
      /\ \A x \in CfBlocks :
           h.pred[x] = IF x = b THEN {} ELSE IF x = target THEN (g.pred[x] \cup g.pred[b]) \ {b} ELSE g.pred[x]
      /\ h.phi = [x \in DOMAIN g.phi |-> g.phi[x]] /\ b \notin DOMAIN g.phi /\ target \notin DOMAIN g.phi
      /\ CfGraphOK(h)
  BY ThreadShape DEF CfThreads
<1>2. g.pred[b] \subseteq CfBlocks /\ \A p \in CfBlocks : g.term[p] \in CfTerms(CfBlocks) BY DEF CfGraphOK
<1>3. \A p \in g.pred[b] : b \in CfTargets(g.term[p]) BY DEF CfExact
<1>4. \A p \in g.pred[b] : CfTargets(h.term[p]) = (CfTargets(g.term[p]) \ {b}) \cup {target}
  <2> SUFFICES ASSUME NEW p \in g.pred[b] PROVE CfTargets(h.term[p]) = (CfTargets(g.term[p]) \ {b}) \cup {target}
    OBVIOUS
  <2>1. h.term[p] = Redirected(g.term[p], b, target)
    BY <1>1
  <2>2. g.term[p] \in CfTerms(CfBlocks) /\ target \in CfBlocks BY <1>1, <1>2
  <2> HIDE DEF target, h
  <2> QED BY <1>3, <2>1, <2>2, RedirectType
<1>5. b \notin g.pred[b] BY <1>1, <1>3
<1>6. b # 0 BY DEF IsForwarder
<1>7. 0 \in CfBlocks BY OrigType
<1>8. /\ CfEdges(g.term) \in [CfBlocks -> SUBSET CfBlocks]
      /\ \A p \in CfBlocks : CfEdges(g.term)[p] = CfTargets(g.term[p])
  BY EdgesType DEF CfGraphOK
<1>9. /\ CfEdges(h.term) \in [CfBlocks -> SUBSET CfBlocks]
      /\ \A p \in CfBlocks : CfEdges(h.term)[p] = CfTargets(h.term[p])
  BY <1>1, EdgesType DEF CfGraphOK
<1> HIDE DEF target, h
<1>10. live \subseteq CfBlocks /\ 0 \in live /\ \A p \in live : CfTargets(g.term[p]) \subseteq live
  <2>1. live \subseteq CfBlocks BY DEF CfReach
  <2> QED BY <2>1, <1>7, <1>8, ReachSelf, ReachStep
<1>11. \A p \in live : b \in CfTargets(g.term[p]) => p \in g.pred[b] BY DEF CfExact
<1>12. left \subseteq live \ {b}
  <2>1. ASSUME NEW p \in live \ {b} PROVE CfEdges(h.term)[p] \subseteq live \ {b}
    <3>1. p \in CfBlocks BY <1>10
    <3>2. CASE p \in g.pred[b]
      <4>1. b \in live BY <1>3, <1>10, <3>2
      <4>2. target \in live /\ target # b BY <1>1, <1>10, <4>1 DEF target
      <4>3. CfTargets(h.term[p]) = (CfTargets(g.term[p]) \ {b}) \cup {target} BY <1>4, <3>2
      <4>4. CfTargets(g.term[p]) \subseteq live BY <1>10
      <4> QED BY <1>9, <3>1, <4>2, <4>3, <4>4
    <3>3. CASE p \notin g.pred[b]
      <4>1. b \notin CfTargets(g.term[p]) BY <1>11, <3>3
      <4> QED BY <1>1, <1>9, <1>10, <3>1, <3>3, <4>1
    <3> QED BY <3>2, <3>3
  <2>2. 0 \in live \ {b} /\ live \ {b} \in SUBSET CfBlocks BY <1>6, <1>10
  <2> HIDE DEF live
  <2> QED BY <2>1, <2>2, ReachLeast
<1> HIDE DEF live, left
<1>13. ASSUME NEW x \in CfBlocks PROVE h.succ[x] = CfTargets(h.term[x])
  <2>1. g.succ[x] = CfTargets(g.term[x]) BY DEF CfExact
  <2>2. CASE x \in g.pred[b]
    <3>1. target # b BY DEF target
    <3>2. h.succ[x] = (g.succ[x] \ {b}) \cup ({target} \ {b}) BY <1>1, <2>2
    <3>3. CfTargets(h.term[x]) = (CfTargets(g.term[x]) \ {b}) \cup {target} BY <1>4, <2>2
    <3> QED BY <2>1, <3>1, <3>2, <3>3
  <2>3. CASE x \notin g.pred[b] BY <1>1, <2>1, <2>3
  <2> QED BY <2>2, <2>3
<1>14. ASSUME NEW x \in CfBlocks, NEW p \in h.pred[x] PROVE x \in CfTargets(h.term[p])
  <2>1. x # b /\ p \in CfBlocks BY <1>1, <1>14 DEF CfGraphOK
  <2>2. CASE p \in g.pred[x]
    <3>1. x \in CfTargets(g.term[p]) BY <2>2 DEF CfExact
    <3> QED BY <1>1, <1>4, <2>1, <3>1
  <2>3. CASE p \notin g.pred[x]
    <3>1. x = target /\ p \in g.pred[b] BY <1>1, <1>14, <2>1, <2>3
    <3> QED BY <1>4, <3>1
  <2> QED BY <2>2, <2>3
<1>15. ASSUME NEW p \in left, NEW x \in CfTargets(h.term[p]) PROVE p \in h.pred[x]
  <2>1. p \in live /\ p # b /\ p \in CfBlocks BY <1>12, <1>10
  <2>2. CASE x \in CfTargets(g.term[p])
    <3>1. x \in CfBlocks /\ p \in g.pred[x] BY <1>2, <2>1, <2>2, TermType DEF CfExact, live
    <3>2. x # b
      <4> SUFFICES ASSUME x = b PROVE FALSE
        OBVIOUS
      <4>1. p \in g.pred[b] BY <3>1
      <4> QED BY <1>1, <1>4, <1>15, <4>1 DEF target
    <3> QED BY <1>1, <2>1, <3>1, <3>2
  <2>3. CASE x \notin CfTargets(g.term[p])
    <3>1. p \in g.pred[b] BY <1>1, <1>15, <2>1, <2>3
    <3>2. x = target BY <1>4, <1>15, <2>3, <3>1
    <3> QED BY <1>1, <2>1, <3>1, <3>2 DEF target
  <2> QED BY <2>2, <2>3
<1>16. ASSUME NEW x \in DOMAIN h.phi PROVE h.phi[x] = h.pred[x]
  <2>1. x \in DOMAIN g.phi /\ h.phi[x] = g.phi[x] /\ x # b /\ x # target BY <1>1
  <2>2. x \in CfBlocks BY <2>1 DEF CfGraphOK
  <2>3. g.phi[x] = g.pred[x] BY <2>1 DEF CfExact
  <2> QED BY <1>1, <2>1, <2>2, <2>3
<1> QED BY <1>13, <1>14, <1>15, <1>16 DEF CfExact, h, left

-----------------------------------------------------------------------------
(* The paths of the program. *)

(* A branch has the target that a choice takes. *)
LEMMA ChoiceIndex ==
  ASSUME CfTypeOK, NEW g, CfGraphOK(g), CfFollows(g), NEW b \in CfBlocks, NEW c \in CfChoices(b)
  PROVE  (IF g.term[b].k = "br" THEN 1 ELSE c) \in DOMAIN g.term[b].to /\ cf_orig[b].to[c] \in CfBlocks
<1>1. g.term[b] \in CfTerms(CfBlocks) /\ cf_orig[b] \in CfTerms(CfBlocks) BY OrigType DEF CfGraphOK
<1>2. \/ cf_orig[b].k = "br" /\ c = 1
      \/ cf_orig[b].k = "condbr" /\ c \in {1, 2}
  BY <1>1, TermType DEF CfChoices, Taken
<1>3. g.term[b].k = "br" \/ (g.term[b].k = "condbr" /\ cf_orig[b].k = "condbr") BY <1>2 DEF CfFollows
<1> QED BY <1>1, <1>2, <1>3, TermType

(* The same blocks are skipped as in the program, and where one is skipped the
   branch leads to a block behind it. *)
LEMMA SkipSame ==
  ASSUME CfTypeOK, NEW g, CfGraphOK(g), CfFollows(g), NEW b \in CfBlocks
  PROVE  /\ CfSkips(g.term, b) <=> CfSkips(cf_orig, b)
         /\ CfSkips(cf_orig, b) =>
              \E n \in CfOnward(cf_orig)[b] : \E m \in CfReach(CfClosed(CfOnward(cf_orig)), n) :
                CfOnward(g.term)[b] = {m} /\ CfOnward(cf_orig)[b] = {n} /\ n \in CfBlocks /\ m \in CfBlocks
<1>1. g.term[b] \in CfTerms(CfBlocks) /\ cf_orig[b] \in CfTerms(CfBlocks) BY OrigType DEF CfGraphOK
<1>2. \/ g.term[b].k = cf_orig[b].k
      \/ cf_orig[b].k = "condbr" /\ g.term[b].k = "br" /\ cf_known[b] # 2
  BY DEF CfFollows
<1>3. CfSkips(g.term, b) <=> CfSkips(cf_orig, b) BY <1>2 DEF CfSkips
<1>4. ASSUME CfSkips(cf_orig, b)
      PROVE  \E n \in CfOnward(cf_orig)[b] : \E m \in CfReach(CfClosed(CfOnward(cf_orig)), n) :
               CfOnward(g.term)[b] = {m} /\ CfOnward(cf_orig)[b] = {n} /\ n \in CfBlocks /\ m \in CfBlocks
  <2> DEFINE c == IF cf_orig[b].k = "br" THEN 1 ELSE Taken(b)
             n == cf_orig[b].to[c]
             m == g.term[b].to[IF g.term[b].k = "br" THEN 1 ELSE c]
  <2>1. c \in CfChoices(b) BY <1>4 DEF CfChoices, CfSkips
  <2>2. m \in CfReach(CfClosed(CfOnward(cf_orig)), n) BY <2>1 DEF CfFollows
  <2>4. CfOnward(cf_orig)[b] = {n} BY <1>4 DEF CfOnward
  <2>5. m = g.term[b].to[IF g.term[b].k = "br" THEN 1 ELSE Taken(b)]
    BY <1>2
  <2>6. CfOnward(g.term)[b] = {m} BY <1>3, <1>4, <2>5 DEF CfOnward
  <2>7. n \in CfBlocks BY <2>1, ChoiceIndex
  <2>8. m \in CfBlocks BY <2>2 DEF CfReach
  <2> HIDE DEF n, m
  <2> QED BY <2>2, <2>4, <2>6, <2>7, <2>8
<1> QED BY <1>3, <1>4

(* The program's ways on, as an edge relation. *)
LEMMA BeforeType ==
  ASSUME CfTypeOK
  PROVE  /\ CfOnward(cf_orig) \in [CfBlocks -> SUBSET CfBlocks]
         /\ \A b \in CfBlocks : ~CfSkips(cf_orig, b) => CfOnward(cf_orig)[b] = {}
BY OrigType, OnwardType

(* A block where a path stops leads nowhere. *)
LEMMA StopsThere ==
  ASSUME CfTypeOK, NEW r \in CfBlocks, ~CfSkips(cf_orig, r), NEW x \in CfReach(CfClosed(CfOnward(cf_orig)), r)
  PROVE  x = r
BY BeforeType, ReachFirst

(* In the program, a path that comes through y goes on from y. *)
LEMMA RealThrough ==
  ASSUME CfTypeOK, NEW x \in CfBlocks, NEW y \in CfReach(CfClosed(CfOnward(cf_orig)), x)
  PROVE  CfReal(CfClosed(CfOnward(cf_orig)), cf_orig, x) = CfReal(CfClosed(CfOnward(cf_orig)), cf_orig, y)
<1> DEFINE on == CfOnward(cf_orig)
           R(z) == CfReach(CfClosed(on), z)
<1>1. on \in [CfBlocks -> SUBSET CfBlocks] /\ y \in CfBlocks BY BeforeType DEF CfReach
<1>2. R(y) \subseteq R(x) BY ReachTrans
<1>3. ASSUME NEW r \in R(x), ~CfSkips(cf_orig, r) PROVE r \in R(y)
  <2> DEFINE S == {z \in CfBlocks : y \in R(z)} \cup R(y)
  <2>1. R(y) \subseteq CfBlocks BY DEF CfReach
  <2>2. x \in S /\ S \in SUBSET CfBlocks BY <2>1
  <2>3. ASSUME NEW z \in S, NEW n \in on[z] PROVE n \in S
    <3>1. z \in CfBlocks /\ n \in CfBlocks BY <1>1, <2>1
    <3>2. CASE z \in R(y) BY <1>1, <3>2, ReachStep
    <3>3. CASE z \notin R(y)
      <4>1. y \in R(z) BY <3>3
      <4>2. y # z BY <1>1, <3>3, ReachSelf
      <4>3. PICK d \in on[z] : y \in R(d) BY <1>1, <3>1, <4>1, <4>2, ReachFirst
      <4>4. d = n BY <2>3, <3>1, <4>3 DEF CfOnward
      <4> QED BY <3>1, <4>3, <4>4
    <3> QED BY <3>2, <3>3
  <2>4. R(x) \subseteq S
    <3> HIDE DEF S
    <3> QED BY <2>2, <2>3, ReachLeast
  <2>5. CASE r \in R(y) BY <2>5
  <2>6. CASE r \notin R(y)
    <3>1. y \in R(r) /\ r \in CfBlocks BY <2>4, <2>6, <1>3
    <3>2. y = r BY <1>3, <3>1, StopsThere
    <3> QED BY <1>1, <3>2, ReachSelf
  <2> QED BY <2>5, <2>6
<1> QED BY <1>2, <1>3 DEF CfReal

(* The branches as they are now stop where the program's stop. *)
LEMMA RealNow ==
  ASSUME CfTypeOK, NEW g, CfGraphOK(g), CfFollows(g), NEW y \in CfBlocks
  PROVE  CfReal(CfClosed(CfOnward(g.term)), g.term, y) = CfReal(CfClosed(CfOnward(cf_orig)), cf_orig, y)
<1> DEFINE on == CfOnward(cf_orig)
           now == CfOnward(g.term)
           R(z) == CfReach(CfClosed(on), z)
           N(z) == CfReach(CfClosed(now), z)
<1>1. on \in [CfBlocks -> SUBSET CfBlocks] BY BeforeType
<1>2. now \in [CfBlocks -> SUBSET CfBlocks] /\ \A b \in CfBlocks : ~CfSkips(g.term, b) => now[b] = {}
  BY OnwardType DEF CfGraphOK
<1>3. \A b \in CfBlocks : CfSkips(g.term, b) <=> CfSkips(cf_orig, b) BY SkipSame
<1>4. ASSUME NEW b \in CfBlocks, CfSkips(cf_orig, b)
      PROVE  \E n \in on[b] : \E m \in R(n) : now[b] = {m} /\ on[b] = {n} /\ n \in CfBlocks /\ m \in CfBlocks
  BY <1>4, SkipSame
<1>5. N(y) \subseteq R(y)
  <2>1. ASSUME NEW z \in R(y), NEW w \in now[z] PROVE w \in R(y)
    <3>1. z \in CfBlocks BY DEF CfReach
    <3>2. CfSkips(cf_orig, z) BY <1>2, <1>3, <2>1, <3>1
    <3>3. PICK n \in on[z] : \E m \in R(n) : now[z] = {m} /\ on[z] = {n} /\ n \in CfBlocks /\ m \in CfBlocks BY <1>4, <3>1, <3>2
    <3>4. w \in R(n) BY <2>1, <3>3
    <3>5. n \in R(y) BY <1>1, <2>1, <3>3, ReachStep
    <3> QED BY <3>4, <3>5, ReachTrans
  <2>2. y \in R(y) BY ReachSelf
  <2>3. R(y) \in SUBSET CfBlocks BY DEF CfReach
  <2> HIDE DEF R, now, on
  <2>4. CfReach(CfClosed(now), y) \subseteq R(y) BY <2>1, <2>2, <2>3, ReachLeast
  <2> QED BY <2>4 DEF N
<1>6. ASSUME NEW r \in R(y), ~CfSkips(cf_orig, r) PROVE r \in N(y)
  <2> SUFFICES ASSUME r \notin N(y) PROVE FALSE
    OBVIOUS
  <2> DEFINE A == {z \in CfBlocks : r \notin N(z)}
             C == {z \in CfBlocks : \E w \in A : w \in R(z)}
  <2>1. r \in CfBlocks BY DEF CfReach
  <2>2. r \notin A BY <2>1, ReachSelf
  <2>3. r \notin C BY <1>6, <2>1, <2>2, StopsThere
  <2>4. y \in C BY ReachSelf
  <2>5. ASSUME NEW z \in A, NEW w \in now[z] PROVE w \in A
    <3>1. w \in CfBlocks /\ z \in CfBlocks BY <1>2
    <3>2. CASE r \in N(w)
      <4>1. w \in N(z) BY <1>2, <3>1, ReachSelf, ReachStep
      <4>2. r \in N(z) BY <3>2, <4>1, ReachTrans
      <4> QED BY <4>2
    <3> QED BY <3>1, <3>2
  <2>6. ASSUME NEW z \in C, NEW n \in on[z] PROVE n \in C
    <3>1. z \in CfBlocks /\ n \in CfBlocks BY <1>1
    <3>2. PICK w \in A : w \in R(z) BY <2>6
    <3>3. CASE w # z
      <4>1. PICK d \in on[z] : w \in R(d) BY <1>1, <3>1, <3>2, <3>3, ReachFirst
      <4>2. d = n BY DEF CfOnward
      <4> QED BY <3>1, <3>2, <4>1, <4>2
    <3>4. CASE w = z
      <4>1. CfSkips(cf_orig, z) BY <2>6, <3>1, BeforeType
      <4>2. PICK k \in on[z] : \E m \in R(k) : now[z] = {m} /\ on[z] = {k} /\ k \in CfBlocks /\ m \in CfBlocks
        BY <1>4, <3>1, <4>1
      <4>3. PICK m \in R(k) : now[z] = {m} /\ on[z] = {k} BY <4>2
      <4>4. k = n /\ m \in A BY <2>5, <2>6, <3>2, <3>4, <4>3
      <4> QED BY <3>1, <4>3, <4>4
    <3> QED BY <3>3, <3>4
  <2>7. C \in SUBSET CfBlocks OBVIOUS
  <2>8. R(y) \subseteq C
    <3> HIDE DEF C, A
    <3> QED BY <2>4, <2>6, <2>7, ReachLeast
  <2> QED BY <1>6, <2>3, <2>8
<1> HIDE DEF on, now
<1>7. N(y) \subseteq CfBlocks BY DEF CfReach
<1>8. {r \in N(y) : ~CfSkips(g.term, r)} = {r \in R(y) : ~CfSkips(cf_orig, r)} BY <1>3, <1>5, <1>6, <1>7
<1> QED BY <1>8 DEF CfReal, on, now

(* Whatever a condition chooses, the next block that does something is the one
   of the program. *)
LEMMA FollowsKeepsPaths ==
  ASSUME CfTypeOK, CfFollows(cf_g)
  PROVE  CfPathsKept
<1> SUFFICES ASSUME NEW b \in CfBlocks, NEW c \in CfChoices(b)
             PROVE  CfReal(CfClosed(CfOnward(cf_g.term)), cf_g.term, CfGoes(b, c))
                      = CfReal(CfClosed(CfOnward(cf_orig)), cf_orig, cf_orig[b].to[c])
  BY DEF CfPathsKept
<1>1. CfGraphOK(cf_g) BY DEF CfTypeOK
<1>2. cf_orig[b].to[c] \in CfBlocks BY <1>1, ChoiceIndex
<1>3. CfGoes(b, c) \in CfReach(CfClosed(CfOnward(cf_orig)), cf_orig[b].to[c]) BY DEF CfFollows, CfGoes
<1>4. CfGoes(b, c) \in CfBlocks BY <1>3 DEF CfReach
<1> QED BY <1>1, <1>2, <1>3, <1>4, RealThrough, RealNow

(* Threading a forwarder leads a branch on along its path. *)
LEMMA ThreadFollows ==
  ASSUME CfTypeOK, NEW g, CfGraphOK(g), NEW b \in CfBlocks, IsForwarder(g, b), CfFollows(g)
  PROVE  CfFollows(ThreadForwarder(g, b))
<1> DEFINE target == g.term[b].to[1]
           h == ThreadForwarder(g, b)
           R(z) == CfReach(CfClosed(CfOnward(cf_orig)), z)
<1>1. /\ target \in CfBlocks
      /\ \A p \in g.pred[b] : h.term[p] = Redirected(g.term[p], b, target)
      /\ \A p \in CfBlocks : p \notin g.pred[b] => h.term[p] = g.term[p]
  <2>1. CfThreads(g, b, target, h) BY ThreadShape
  <2> HIDE DEF target, h
  <2> QED BY <2>1 DEF CfThreads
<1>2. target \in R(b)
  <2>1. cf_body[b] = "empty" /\ g.term[b].k = "br" BY DEF IsForwarder
  <2>2. CfSkips(g.term, b) BY <2>1 DEF CfSkips
  <2>3. CfOnward(g.term)[b] = {target} BY <2>1, <2>2 DEF CfOnward
  <2>4. PICK n \in CfOnward(cf_orig)[b] : \E m \in R(n) : CfOnward(g.term)[b] = {m}
    BY <2>2, SkipSame
  <2>5. target \in R(n) BY <2>3, <2>4
  <2>6. n \in R(b) BY <2>4, BeforeType, ReachSelf, ReachStep
  <2> QED BY <2>5, <2>6, ReachTrans
<1> HIDE DEF target, h
<1>3. ASSUME NEW p \in CfBlocks
      PROVE  /\ h.term[p].k = g.term[p].k
             /\ \A c \in CfChoices(p) :
                  h.term[p].to[IF h.term[p].k = "br" THEN 1 ELSE c] \in R(cf_orig[p].to[c])
  <2>1. CASE p \notin g.pred[b] BY <1>1, <2>1 DEF CfFollows
  <2>2. CASE p \in g.pred[b]
    <3>1. g.term[p] \in CfTerms(CfBlocks) BY DEF CfGraphOK
    <3>2. /\ h.term[p].k = g.term[p].k
          /\ \A i \in DOMAIN g.term[p].to : h.term[p].to[i] = IF g.term[p].to[i] = b THEN target ELSE g.term[p].to[i]
      BY <1>1, <2>2, <3>1, RedirectType
    <3>3. ASSUME NEW c \in CfChoices(p)
          PROVE  h.term[p].to[IF h.term[p].k = "br" THEN 1 ELSE c] \in R(cf_orig[p].to[c])
      <4> DEFINE i == IF g.term[p].k = "br" THEN 1 ELSE c
      <4>1. i \in DOMAIN g.term[p].to BY ChoiceIndex
      <4>2. g.term[p].to[i] \in R(cf_orig[p].to[c]) BY DEF CfFollows
      <4>3. h.term[p].to[i] = IF g.term[p].to[i] = b THEN target ELSE g.term[p].to[i] BY <3>2, <4>1
      <4>4. h.term[p].to[i] \in R(cf_orig[p].to[c])
        <5> HIDE DEF i
        <5>1. CASE g.term[p].to[i] = b BY <1>2, <4>2, <4>3, <5>1, ReachTrans
        <5>2. CASE g.term[p].to[i] # b BY <4>2, <4>3, <5>2
        <5> QED BY <5>1, <5>2
      <4> QED BY <3>2, <4>4
    <3> QED BY <3>2, <3>3
  <2> QED BY <2>1, <2>2
<1> QED BY <1>3 DEF CfFollows, h

-----------------------------------------------------------------------------
(* One block of the pass. *)

(* Both rewritings keep the lists and the paths. *)
LEMMA SimplifyKeeps ==
  ASSUME CfTypeOK, NEW g, CfGraphOK(g), CfFollows(g), ~g.odd => CfExact(g), NEW b \in CfBlocks,
         NEW h, h = SimplifyBlock(g, b)
  PROVE  CfGraphOK(h) /\ CfFollows(h) /\ (~h.odd => CfExact(h))
<1> DEFINE folded == FoldBranch(g, b)
           same == CfFolds(g, b) /\ g.term[b].to[1] = g.term[b].to[2]
           self == IsForwarder(folded, b) /\ folded.term[b].to[1] = b
           threaded == ThreadForwarder(folded, b)
<1>1. CfGraphOK(folded) /\ CfFollows(folded) /\ folded.odd = g.odd /\ (~g.odd /\ ~same => CfExact(folded))
  <2>1. CASE CfFolds(g, b)
    <3>1. CfGraphOK(folded) /\ folded.odd = g.odd BY <2>1, FoldShape DEF CfFolded
    <3>2. CfFollows(folded) BY <2>1, FoldFollows
    <3>3. ~g.odd /\ ~same => CfExact(folded) BY <2>1, FoldExact
    <3> QED BY <3>1, <3>2, <3>3
  <2>2. CASE ~CfFolds(g, b)
    <3>1. folded = g BY <2>2 DEF FoldBranch
    <3> QED BY <3>1
  <2> QED BY <2>1, <2>2
<1> HIDE DEF folded, same
<1>2. CfGraphOK(threaded) /\ CfFollows(threaded) /\ threaded.odd = folded.odd
      /\ (CfExact(folded) /\ ~self => CfExact(threaded))
  <2>1. CASE IsForwarder(folded, b)
    <3>1. CfGraphOK(threaded) /\ threaded.odd = folded.odd BY <1>1, <2>1, ThreadShape DEF CfThreads
    <3>2. CfFollows(threaded) BY <1>1, <2>1, ThreadFollows
    <3>3. CfExact(folded) /\ ~self => CfExact(threaded) BY <1>1, <2>1, ThreadExact
    <3> QED BY <3>1, <3>2, <3>3
  <2>2. CASE ~IsForwarder(folded, b)
    <3>1. threaded = folded BY <2>2 DEF ThreadForwarder
    <3> QED BY <1>1, <3>1
  <2> QED BY <2>1, <2>2
<1> HIDE DEF threaded, self
<1>3. h = [threaded EXCEPT !.odd = @ \/ same \/ self]
  BY DEF SimplifyBlock, folded, same, self, threaded
<1>4. /\ h = [term |-> h.term, succ |-> h.succ, pred |-> h.pred, phi |-> h.phi, odd |-> h.odd]
      /\ h.term = threaded.term /\ h.succ = threaded.succ /\ h.pred = threaded.pred /\ h.phi = threaded.phi
      /\ h.odd = (threaded.odd \/ same \/ self)
  <2>1. threaded = [term |-> threaded.term, succ |-> threaded.succ, pred |-> threaded.pred, phi |-> threaded.phi, odd |-> threaded.odd]
    BY <1>2 DEF CfGraphOK
  <2> QED BY <1>3, <2>1
<1>5. CfGraphOK(h) BY <1>2, <1>4 DEF CfGraphOK
<1>6. CfFollows(h) BY <1>2, <1>4 DEF CfFollows
<1>7. CfExact(threaded) => CfExact(h) BY <1>4 DEF CfExact
<1>8. ~h.odd => CfExact(h) BY <1>1, <1>2, <1>4, <1>7
<1> QED BY <1>5, <1>6, <1>8

-----------------------------------------------------------------------------
(* The steps. *)

(* The invariant holds where the passes begin. *)
LEMMA CfInitInv == CfInit => CfInv
<1> SUFFICES ASSUME CfInit PROVE CfInv
  OBVIOUS
<1> DEFINE preds == [b \in CfBlocks |-> {p \in CfBlocks : b \in CfTargets(cf_orig[p])}]
<1>1. PICK phis \in SUBSET {b \in CfBlocks : Cardinality(preds[b]) > 1} :
        cf_g = [term |-> cf_orig, succ |-> CfEdges(cf_orig), pred |-> preds,
                phi |-> [b \in phis |-> preds[b]], odd |-> FALSE]
  BY DEF CfInit
<1>2. cf_orig \in [CfBlocks -> CfTerms(CfBlocks)] /\ 0 \in CfBlocks
  BY CfAssumption DEF CfInit, CfBlocks
<1>3. CfEdges(cf_orig) \in [CfBlocks -> SUBSET CfBlocks] /\ \A b \in CfBlocks : CfEdges(cf_orig)[b] = CfTargets(cf_orig[b])
  BY <1>2, EdgesType
<1>4. preds \in [CfBlocks -> SUBSET CfBlocks] OBVIOUS
<1>5. CfGraphOK(cf_g)
  <2> HIDE DEF preds
  <2> QED BY <1>1, <1>2, <1>3, <1>4 DEF CfGraphOK
<1>6. CfTypeOK BY <1>5 DEF CfTypeOK, CfInit
<1>7. CfExact(cf_g)
  <2>1. \A p \in CfReach(CfClosed(CfEdges(cf_orig)), 0) : p \in CfBlocks BY DEF CfReach
  <2>2. \A p \in CfBlocks : CfTargets(cf_orig[p]) \subseteq CfBlocks BY <1>2, TermType
  <2>3. \A p \in CfBlocks : \A b \in CfTargets(cf_orig[p]) : p \in preds[b] BY <2>2
  <2>4. \A b \in CfBlocks : \A p \in preds[b] : b \in CfTargets(cf_orig[p]) OBVIOUS
  <2> HIDE DEF preds
  <2> QED BY <1>1, <1>3, <2>1, <2>3, <2>4 DEF CfExact
<1>8. CfFollows(cf_g)
  <2>1. cf_g.term = cf_orig BY <1>1
  <2> SUFFICES ASSUME NEW b \in CfBlocks, NEW c \in CfChoices(b)
               PROVE  cf_orig[b].to[IF cf_orig[b].k = "br" THEN 1 ELSE c]
                        \in CfReach(CfClosed(CfOnward(cf_orig)), cf_orig[b].to[c])
    BY <2>1 DEF CfFollows
  <2>2. cf_orig[b] \in CfTerms(CfBlocks) BY <1>2
  <2>3. \/ cf_orig[b].k = "br" /\ c = 1
        \/ cf_orig[b].k = "condbr" /\ c \in {1, 2}
    BY <2>2, TermType DEF CfChoices, Taken
  <2>4. cf_orig[b].to[c] \in CfBlocks BY <2>2, <2>3, TermType
  <2> QED BY <2>3, <2>4, ReachSelf
<1> QED BY <1>6, <1>7, <1>8 DEF CfInv, CfInit

(* After a step, branches follow the paths of the program if they do by what
   is known then. *)
LEMMA FollowsNext ==
  ASSUME cf_orig' = cf_orig,
         NEW wider,
         wider = [x \in CfBlocks |->
                    IF ~(cf_body'[x] # "code" /\ (cf_orig[x].k = "br" \/ (cf_orig[x].k = "condbr" /\ cf_known'[x] # 2)))
                      THEN {}
                      ELSE {cf_orig[x].to[IF cf_orig[x].k = "br" THEN 1 ELSE IF cf_known'[x] = 1 THEN 1 ELSE 2]}],
         \A b \in CfBlocks :
           /\ \/ cf_g'.term[b].k = cf_orig[b].k
              \/ cf_orig[b].k = "condbr" /\ cf_g'.term[b].k = "br" /\ cf_known'[b] # 2
           /\ \A c \in IF cf_orig[b].k = "ret" THEN {} ELSE IF cf_orig[b].k = "br" THEN {1}
                      ELSE IF cf_known'[b] = 2 THEN {1, 2} ELSE {IF cf_known'[b] = 1 THEN 1 ELSE 2} :
                cf_g'.term[b].to[IF cf_g'.term[b].k = "br" THEN 1 ELSE c] \in CfReach(CfClosed(wider), cf_orig[b].to[c])
  PROVE  CfFollows(cf_g)'
<1> DEFINE on == [x \in DOMAIN cf_orig' |->
                    IF ~(cf_body'[x] # "code" /\ (cf_orig'[x].k = "br" \/ (cf_orig'[x].k = "condbr" /\ cf_known'[x] # 2)))
                      THEN {}
                      ELSE {cf_orig'[x].to[IF cf_orig'[x].k = "br" THEN 1 ELSE IF cf_known'[x] = 1 THEN 1 ELSE 2]}]
           closed == {S \in SUBSET DOMAIN cf_orig' : \A b \in S : on[b] \subseteq S}
           through(x) == {r \in DOMAIN cf_orig' : \A S \in closed : x \in S => r \in S}
<1>1. on = wider BY DEF CfBlocks
<1>2. closed = CfClosed(wider)
  <2> HIDE DEF on
  <2> QED BY <1>1 DEF CfClosed, CfBlocks
<1>3. \A x : through(x) = CfReach(CfClosed(wider), x)
  <2> HIDE DEF closed
  <2> QED BY <1>2 DEF CfReach, CfBlocks
<1>4. \A b \in DOMAIN cf_orig' :
        /\ \/ cf_g'.term[b].k = cf_orig'[b].k
           \/ cf_orig'[b].k = "condbr" /\ cf_g'.term[b].k = "br" /\ cf_known'[b] # 2
        /\ \A c \in IF cf_orig'[b].k = "ret" THEN {} ELSE IF cf_orig'[b].k = "br" THEN {1}
                   ELSE IF cf_known'[b] = 2 THEN {1, 2} ELSE {IF cf_known'[b] = 1 THEN 1 ELSE 2} :
             cf_g'.term[b].to[IF cf_g'.term[b].k = "br" THEN 1 ELSE c] \in through(cf_orig'[b].to[c])
  <2> HIDE DEF through
  <2> QED BY <1>3 DEF CfBlocks
<1> QED BY <1>4 DEF CfFollows, CfChoices, Taken, CfOnward, CfSkips, CfReach, CfClosed, CfBlocks

(* The parts of the invariant depend on the graph and on what the value passes
   know; a pass that leaves both alone is judged by the graph. *)
LEMMA SameKnowledge ==
  ASSUME UNCHANGED <<cf_orig, cf_body, cf_known>>
  PROVE  /\ CfGraphOK(cf_g') => CfGraphOK(cf_g)'
         /\ CfExact(cf_g') => CfExact(cf_g)'
         /\ CfFollows(cf_g') => CfFollows(cf_g)'
         /\ CfTypeOK /\ CfGraphOK(cf_g') => CfTypeOK'
<1>1. CfBlocks' = CfBlocks BY DEF CfBlocks
<1>2. CfGraphOK(cf_g') => CfGraphOK(cf_g)' BY <1>1 DEF CfGraphOK
<1>3. CfExact(cf_g') => CfExact(cf_g)' BY <1>1 DEF CfExact, CfReach, CfClosed
<1>4. CfFollows(cf_g') => CfFollows(cf_g)'
  <2> DEFINE on == CfOnward(cf_orig)
  <2> SUFFICES ASSUME CfFollows(cf_g') PROVE CfFollows(cf_g)'
    OBVIOUS
  <2>1. on = [x \in CfBlocks |->
                IF ~(cf_body'[x] # "code" /\ (cf_orig[x].k = "br" \/ (cf_orig[x].k = "condbr" /\ cf_known'[x] # 2)))
                  THEN {}
                  ELSE {cf_orig[x].to[IF cf_orig[x].k = "br" THEN 1 ELSE IF cf_known'[x] = 1 THEN 1 ELSE 2]}]
    BY DEF CfOnward, CfSkips, Taken
  <2>2. \A b \in CfBlocks :
          /\ \/ cf_g'.term[b].k = cf_orig[b].k
             \/ cf_orig[b].k = "condbr" /\ cf_g'.term[b].k = "br" /\ cf_known'[b] # 2
          /\ \A c \in IF cf_orig[b].k = "ret" THEN {} ELSE IF cf_orig[b].k = "br" THEN {1}
                     ELSE IF cf_known'[b] = 2 THEN {1, 2} ELSE {IF cf_known'[b] = 1 THEN 1 ELSE 2} :
               cf_g'.term[b].to[IF cf_g'.term[b].k = "br" THEN 1 ELSE c] \in CfReach(CfClosed(on), cf_orig[b].to[c])
    BY DEF CfFollows, CfChoices, Taken
  <2> HIDE DEF on
  <2> QED BY <2>1, <2>2, FollowsNext
<1>5. CfTypeOK /\ CfGraphOK(cf_g') => CfTypeOK' BY <1>1, <1>2 DEF CfTypeOK
<1> QED BY <1>2, <1>3, <1>4, <1>5

(* A block of the pass. *)
LEMMA CfSimplifyInv == CfInv /\ CfSimplify => CfInv'
<1> SUFFICES ASSUME CfInv, CfSimplify PROVE CfInv'
  OBVIOUS
<1>1. PICK b \in CfBlocks : cf_g' = SimplifyBlock(cf_g, b) BY DEF CfSimplify
<1>2. CfTypeOK /\ CfGraphOK(cf_g) /\ CfFollows(cf_g) /\ (~cf_g.odd => CfExact(cf_g)) BY DEF CfInv, CfTypeOK
<1>3. CfGraphOK(cf_g') /\ CfFollows(cf_g') /\ (~cf_g'.odd => CfExact(cf_g')) BY <1>1, <1>2, SimplifyKeeps
<1>4. UNCHANGED <<cf_orig, cf_body, cf_known, cf_pc, cf_list>> /\ cf_pc = "simplify" BY DEF CfSimplify
<1>5. CfTypeOK' /\ CfFollows(cf_g)' /\ (~cf_g.odd => CfExact(cf_g))' BY <1>2, <1>3, <1>4, SameKnowledge
<1>6. cf_list' = CfBlocks' BY <1>4 DEF CfInv, CfBlocks
<1> QED BY <1>4, <1>5, <1>6 DEF CfInv

(* The end of the pass. *)
LEMMA CfSimplifiedInv == CfInv /\ CfSimplified => CfInv'
<1> SUFFICES ASSUME CfInv, CfSimplified PROVE CfInv'
  OBVIOUS
<1>1. UNCHANGED <<cf_orig, cf_body, cf_known, cf_g, cf_list>> /\ cf_pc = "simplify" /\ cf_pc' = "values" BY DEF CfSimplified
<1>2. CfTypeOK /\ CfGraphOK(cf_g') /\ CfFollows(cf_g') /\ (~cf_g'.odd => CfExact(cf_g')) BY <1>1 DEF CfInv, CfTypeOK
<1>3. CfTypeOK' /\ CfFollows(cf_g)' /\ (~cf_g.odd => CfExact(cf_g))' BY <1>1, <1>2, SameKnowledge
<1>4. cf_list' = CfBlocks' BY <1>1 DEF CfInv, CfBlocks
<1> QED BY <1>1, <1>3, <1>4 DEF CfInv

(* The value passes: more is known of conditions, phis go. *)
LEMMA CfValuePassesInv == CfInv /\ CfValuePasses => CfInv'
<1> SUFFICES ASSUME CfInv, CfValuePasses PROVE CfInv'
  OBVIOUS
<1> DEFINE skips(x) == cf_body'[x] # "code" /\ (cf_orig[x].k = "br" \/ (cf_orig[x].k = "condbr" /\ cf_known'[x] # 2))
           taken(x) == IF cf_known'[x] = 1 THEN 1 ELSE 2
           wider == [x \in CfBlocks |-> IF ~skips(x) THEN {}
                                       ELSE {cf_orig[x].to[IF cf_orig[x].k = "br" THEN 1 ELSE taken(x)]}]
           choices(x) == IF cf_orig[x].k = "ret" THEN {} ELSE IF cf_orig[x].k = "br" THEN {1}
                         ELSE IF cf_known'[x] = 2 THEN {1, 2} ELSE {taken(x)}
<1>1. /\ cf_orig' = cf_orig /\ cf_list' = cf_list /\ cf_pc = "values" /\ cf_pc' = "simplify" /\ CfBlocks' = CfBlocks
      /\ cf_body' = [b \in CfBlocks |-> IF cf_body[b] = "const" /\ cf_g.term[b].k = "br" THEN "empty" ELSE cf_body[b]]
  BY DEF CfValuePasses, CfBlocks
<1>2. /\ cf_known' \in [CfBlocks -> 0 .. 2]
      /\ \A b \in CfBlocks : cf_known[b] # 2 => cf_known'[b] = cf_known[b]
  BY DEF CfValuePasses
<1>3. PICK gone \in SUBSET DOMAIN cf_g.phi :
        cf_g' = [cf_g EXCEPT !.phi = [b \in DOMAIN cf_g.phi \ gone |-> cf_g.phi[b]]]
  BY DEF CfValuePasses
<1>4. CfTypeOK /\ CfGraphOK(cf_g) /\ CfFollows(cf_g) /\ (~cf_g.odd => CfExact(cf_g)) BY DEF CfInv, CfTypeOK
<1>5. /\ cf_g' = [term |-> cf_g'.term, succ |-> cf_g'.succ, pred |-> cf_g'.pred, phi |-> cf_g'.phi, odd |-> cf_g'.odd]
      /\ cf_g'.term = cf_g.term /\ cf_g'.succ = cf_g.succ /\ cf_g'.pred = cf_g.pred /\ cf_g'.odd = cf_g.odd
      /\ cf_g'.phi = [b \in DOMAIN cf_g.phi \ gone |-> cf_g.phi[b]]
  BY <1>3, <1>4 DEF CfGraphOK
<1>6. CfTypeOK'
  <2>1. CfGraphOK(cf_g)' BY <1>1, <1>4, <1>5 DEF CfGraphOK
  <2>2. cf_body' \in [CfBlocks -> {"code", "empty", "const"}] BY <1>1, <1>4 DEF CfTypeOK
  <2> QED BY <1>1, <1>2, <1>4, <2>1, <2>2 DEF CfTypeOK
<1>7. (~cf_g.odd => CfExact(cf_g))'
  BY <1>1, <1>4, <1>5 DEF CfExact, CfReach, CfClosed
<1>8. \A x \in CfBlocks : CfOnward(cf_orig)[x] \subseteq wider[x]
  <2> SUFFICES ASSUME NEW x \in CfBlocks, CfSkips(cf_orig, x) PROVE CfOnward(cf_orig)[x] = wider[x]
    BY BeforeType, <1>4
  <2>1. skips(x) /\ (cf_orig[x].k # "br" => Taken(x) = taken(x)) BY <1>1, <1>2 DEF CfSkips, Taken
  <2> QED BY <2>1 DEF CfOnward
<1>9. ASSUME NEW x PROVE CfReach(CfClosed(CfOnward(cf_orig)), x) \subseteq CfReach(CfClosed(wider), x)
  <2> HIDE DEF wider
  <2> QED BY <1>8, ReachMono
<1>10. \A b \in CfBlocks : choices(b) \subseteq CfChoices(b)
  BY <1>2 DEF CfChoices, Taken
<1>11. ASSUME NEW b \in CfBlocks
       PROVE  /\ \/ cf_g'.term[b].k = cf_orig[b].k
                 \/ cf_orig[b].k = "condbr" /\ cf_g'.term[b].k = "br" /\ cf_known'[b] # 2
              /\ \A c \in choices(b) :
                   cf_g'.term[b].to[IF cf_g'.term[b].k = "br" THEN 1 ELSE c] \in CfReach(CfClosed(wider), cf_orig[b].to[c])
  <2> HIDE DEF wider, choices
  <2> QED BY <1>1, <1>2, <1>4, <1>5, <1>9, <1>10 DEF CfFollows
<1>12. CfFollows(cf_g)'
  <2>1. \A b \in CfBlocks :
          /\ \/ cf_g'.term[b].k = cf_orig[b].k
             \/ cf_orig[b].k = "condbr" /\ cf_g'.term[b].k = "br" /\ cf_known'[b] # 2
          /\ \A c \in IF cf_orig[b].k = "ret" THEN {} ELSE IF cf_orig[b].k = "br" THEN {1}
                     ELSE IF cf_known'[b] = 2 THEN {1, 2} ELSE {IF cf_known'[b] = 1 THEN 1 ELSE 2} :
               cf_g'.term[b].to[IF cf_g'.term[b].k = "br" THEN 1 ELSE c] \in CfReach(CfClosed(wider), cf_orig[b].to[c])
    <3> HIDE DEF wider
    <3> QED BY <1>11 DEF choices, taken
  <2>2. wider = [x \in CfBlocks |->
                   IF ~(cf_body'[x] # "code" /\ (cf_orig[x].k = "br" \/ (cf_orig[x].k = "condbr" /\ cf_known'[x] # 2)))
                     THEN {}
                     ELSE {cf_orig[x].to[IF cf_orig[x].k = "br" THEN 1 ELSE IF cf_known'[x] = 1 THEN 1 ELSE 2]}]
    OBVIOUS
  <2> HIDE DEF wider
  <2> QED BY <1>1, <2>1, <2>2, FollowsNext
<1>13. cf_list' = CfBlocks' BY <1>1 DEF CfInv
<1> QED BY <1>1, <1>6, <1>7, <1>12, <1>13 DEF CfInv

(* The blocks that nothing reaches go, from the list and from the lists of
   the others. *)
LEMMA CfRemoveUnreachableInv == CfInv /\ CfRemoveUnreachable => CfInv'
<1> SUFFICES ASSUME CfInv, CfRemoveUnreachable PROVE CfInv'
  OBVIOUS
<1> DEFINE kept == CfReach(CfClosed(cf_g.succ), 0)
           dead == CfBlocks \ kept
           Off(b) == {d \in dead : b \in cf_g.succ[d]}
           live == CfReach(CfClosed(CfEdges(cf_g.term)), 0)
<1>1. /\ UNCHANGED <<cf_orig, cf_body, cf_known>> /\ cf_pc' = "done" /\ CfBlocks' = CfBlocks
      /\ cf_list' = CfBlocks \ dead
      /\ cf_g' = [cf_g EXCEPT !.pred = [b \in CfBlocks |-> @[b] \ Off(b)], !.phi = [b \in DOMAIN @ |-> @[b] \ Off(b)]]
  BY DEF CfRemoveUnreachable, CfBlocks
<1>2. CfTypeOK /\ CfGraphOK(cf_g) /\ CfFollows(cf_g) /\ (~cf_g.odd => CfExact(cf_g)) BY DEF CfInv, CfTypeOK
<1>3. /\ cf_g' = [term |-> cf_g'.term, succ |-> cf_g'.succ, pred |-> cf_g'.pred, phi |-> cf_g'.phi, odd |-> cf_g'.odd]
      /\ cf_g'.term = cf_g.term /\ cf_g'.succ = cf_g.succ /\ cf_g'.odd = cf_g.odd
      /\ cf_g'.pred = [b \in CfBlocks |-> cf_g.pred[b] \ Off(b)]
      /\ cf_g'.phi = [b \in DOMAIN cf_g.phi |-> cf_g.phi[b] \ Off(b)]
  BY <1>1, <1>2 DEF CfGraphOK
<1>4. CfGraphOK(cf_g')
  <2> HIDE DEF Off, dead, kept
  <2> QED BY <1>2, <1>3 DEF CfGraphOK
<1>5. CfFollows(cf_g') BY <1>2, <1>3 DEF CfFollows
<1>6. ASSUME ~cf_g.odd
      PROVE  kept = live /\ CfExact(cf_g') /\ \A b \in CfBlocks : cf_g'.pred[b] \subseteq live
  <2>1. CfExact(cf_g) BY <1>2, <1>6
  <2>2. cf_g.succ = CfEdges(cf_g.term)
    <3>1. cf_g.succ \in [CfBlocks -> SUBSET CfBlocks] /\ \A b \in CfBlocks : cf_g.succ[b] = CfTargets(cf_g.term[b])
      BY <1>2, <2>1 DEF CfGraphOK, CfExact
    <3>2. CfEdges(cf_g.term) \in [CfBlocks -> SUBSET CfBlocks] /\ \A b \in CfBlocks : CfEdges(cf_g.term)[b] = CfTargets(cf_g.term[b])
      BY <1>2, EdgesType DEF CfGraphOK
    <3> QED BY <3>1, <3>2
  <2>3. kept = live BY <2>2
  <2>4. live \subseteq CfBlocks BY DEF CfReach
  <2>5. ASSUME NEW b \in CfBlocks PROVE cf_g'.pred[b] \subseteq live
    <3> SUFFICES ASSUME NEW p \in cf_g'.pred[b], p \notin live PROVE FALSE
      OBVIOUS
    <3>1. p \in cf_g.pred[b] /\ p \notin Off(b) BY <1>3
    <3>2. p \in CfBlocks BY <1>2, <3>1 DEF CfGraphOK
    <3>3. b \in cf_g.succ[p] BY <2>1, <3>1, <3>2 DEF CfExact
    <3>4. p \in dead BY <2>3, <3>2
    <3> QED BY <3>1, <3>3, <3>4
  <2>6. \A p \in live : \A b \in CfTargets(cf_g.term[p]) : b \in CfBlocks /\ p \in cf_g.pred[b] /\ p \notin dead
    BY <1>2, <2>1, <2>3, <2>4, TermType DEF CfExact, CfGraphOK
  <2>7. \A b \in DOMAIN cf_g.phi : b \in CfBlocks /\ cf_g.phi[b] = cf_g.pred[b] BY <1>2, <2>1 DEF CfExact, CfGraphOK
  <2>8. \A b \in CfBlocks : \A p \in cf_g'.pred[b] : b \in CfTargets(cf_g.term[p]) BY <1>3, <2>1 DEF CfExact
  <2>9. \A b \in CfBlocks : cf_g.succ[b] = CfTargets(cf_g.term[b]) BY <2>1 DEF CfExact
  <2>10. \A p \in live : \A b \in CfTargets(cf_g.term[p]) : p \in cf_g'.pred[b] BY <1>3, <2>6
  <2>11. \A b \in DOMAIN cf_g'.phi : cf_g'.phi[b] = cf_g'.pred[b] 
    <3> SUFFICES ASSUME NEW b \in DOMAIN cf_g'.phi PROVE cf_g'.phi[b] = cf_g'.pred[b]
      OBVIOUS
    <3>1. b \in DOMAIN cf_g.phi /\ cf_g'.phi[b] = cf_g.phi[b] \ Off(b) BY <1>3
    <3>2. b \in CfBlocks /\ cf_g.phi[b] = cf_g.pred[b] BY <2>7, <3>1
    <3>3. cf_g'.pred[b] = cf_g.pred[b] \ Off(b) BY <1>3, <3>2
    <3> HIDE DEF Off
    <3> QED BY <3>1, <3>2, <3>3
  <2>12. CfExact(cf_g')
    <3> HIDE DEF Off, dead, kept
    <3> QED BY <1>3, <2>8, <2>9, <2>10, <2>11 DEF CfExact
  <2> QED BY <2>3, <2>5, <2>12
<1>7. CfTypeOK' /\ CfFollows(cf_g)' /\ (~cf_g.odd => CfExact(cf_g))'
  BY <1>1, <1>2, <1>3, <1>4, <1>5, <1>6, SameKnowledge
<1>8. CfLive' = live BY <1>1, <1>3 DEF CfLive, CfReach, CfClosed
<1>9. ASSUME ~cf_g'.odd PROVE CfLive' \subseteq cf_list' /\ \A b \in CfLive' : cf_g'.pred[b] \subseteq CfLive'
  <2>1. live \subseteq CfBlocks BY DEF CfReach
  <2> QED BY <1>1, <1>3, <1>6, <1>8, <1>9, <2>1
<1> QED BY <1>1, <1>7, <1>9 DEF CfInv

(* The invariant holds throughout the passes. *)
THEOREM CfInvariant == CfSpec => []CfInv
<1>1. CfInv /\ [CfNext]_cfVars => CfInv'
  <2> SUFFICES ASSUME CfInv, [CfNext]_cfVars PROVE CfInv'
    OBVIOUS
  <2>1. CASE CfValuePasses BY <2>1, CfValuePassesInv
  <2>2. CASE CfSimplify BY <2>2, CfSimplifyInv
  <2>3. CASE CfSimplified BY <2>3, CfSimplifiedInv
  <2>4. CASE CfRemoveUnreachable BY <2>4, CfRemoveUnreachableInv
  <2>5. CASE UNCHANGED cfVars
    <3>1. UNCHANGED <<cf_orig, cf_body, cf_known, cf_g, cf_list, cf_pc>> BY <2>5 DEF cfVars
    <3>2. CfTypeOK /\ CfGraphOK(cf_g') /\ CfFollows(cf_g') /\ (~cf_g'.odd => CfExact(cf_g')) BY <3>1 DEF CfInv, CfTypeOK
    <3>3. CfTypeOK' /\ CfFollows(cf_g)' /\ (~cf_g.odd => CfExact(cf_g))' BY <3>1, <3>2, SameKnowledge
    <3>4. CfBlocks' = CfBlocks /\ CfLive' = CfLive BY <3>1 DEF CfBlocks, CfLive, CfReach, CfClosed
    <3> QED BY <3>1, <3>3, <3>4 DEF CfInv
  <2> QED BY <2>1, <2>2, <2>3, <2>4, <2>5 DEF CfNext
<1> QED BY CfInitInv, <1>1, PTL DEF CfSpec

(* The lists that the invariant keeps are the ones that match. *)
LEMMA CfInvListsMatch == CfInv => CfListsMatch
<1> SUFFICES ASSUME CfInv, ~cf_g.odd, NEW b \in CfLive
             PROVE  /\ b \in cf_list /\ cf_g.succ[b] = CfTargets(cf_g.term[b])
                    /\ cf_g.pred[b] \cap CfLive = {p \in CfLive : b \in CfTargets(cf_g.term[p])}
                    /\ cf_pc = "done" => cf_g.pred[b] \subseteq CfLive
                    /\ CfHasPhi(cf_g, b) => cf_g.phi[b] = cf_g.pred[b]
  BY DEF CfListsMatch
<1>1. CfExact(cf_g) BY DEF CfInv
<1>2. b \in CfBlocks BY DEF CfLive, CfReach
<1>3. b \in cf_list /\ (cf_pc = "done" => cf_g.pred[b] \subseteq CfLive) BY <1>2 DEF CfInv
<1>4. \A p \in CfLive : b \in CfTargets(cf_g.term[p]) => p \in cf_g.pred[b] BY <1>1 DEF CfExact, CfLive
<1>5. \A p \in cf_g.pred[b] : b \in CfTargets(cf_g.term[p]) BY <1>1, <1>2 DEF CfExact
<1>6. cf_g.succ[b] = CfTargets(cf_g.term[b]) /\ (CfHasPhi(cf_g, b) => cf_g.phi[b] = cf_g.pred[b])
  BY <1>1, <1>2 DEF CfExact, CfHasPhi
<1> QED BY <1>3, <1>4, <1>5, <1>6

(* The control-flow passes leave lists that match the branches, and every path
   of the function. *)
THEOREM CfGraphCorrect == CfSpec => []CfCorrect
<1>1. CfInv => CfCorrect
  <2>1. CfInv => CfPathsKept BY FollowsKeepsPaths DEF CfInv
  <2> QED BY <2>1, CfInvListsMatch DEF CfCorrect
<1> QED BY <1>1, CfInvariant, PTL
=============================================================================
