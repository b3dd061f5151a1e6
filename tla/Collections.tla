----------------------------- MODULE Collections -----------------------------
(***************************************************************************)
(* Three containers of stdlib/collections.c: NuwanMap, open addressing with *)
(* Robin Hood insertion; NuwanQueue, a ring that is laid out anew when it   *)
(* grows; NuwanPQ, a binary heap in two arrays.  A behaviour works on one.  *)
(*                                                                         *)
(* A call whose loop changes the container runs through it one iteration a  *)
(* step; cl_at says in which loop it is, and a call begins only when it is  *)
(* "idle".  Keys are compared as their hash and their string together.      *)
(* Growing the map does not fail here; growing the other two may, and they  *)
(* return false.  Arrays are functions from 0; cells that were never        *)
(* written hold Null.                                                       *)
(***************************************************************************)
EXTENDS Integers, FiniteSets, Sequences

CONSTANTS
    ClKeys, ClHashes,           \* keys, and functions that may be their hash
    ClVals,                     \* values of the map, other than 0
    ClMapCap,                   \* MAP_INIT_CAP
    ClLoadNum, ClLoadDen,       \* MAP_LOAD_NUM, MAP_LOAD_DEN
    ClReserves,                 \* sizes that the map may be asked to have room for
    ClQueueCap,                 \* QUEUE_INIT_CAP and PQ_INIT_CAP
    ClPrios, ClMaxCalls         \* priorities; bound: values put into a queue

Null == 0
NoKey == "-"

\* The load limit leaves at least one slot of the first table empty, as 7/8 of
\* 16 slots do.
ASSUME ClAssumption ==
    /\ NoKey \notin ClKeys /\ ClHashes # {} /\ ClHashes \subseteq [ClKeys -> Nat]
    /\ ClVals \subseteq Int \ {0} /\ ClReserves \subseteq Nat /\ ClPrios \subseteq Int /\ ClMaxCalls \in Nat
    /\ ClMapCap \in Nat \ {0, 1} /\ ClQueueCap \in Nat \ {0}
    /\ ClLoadNum \in Nat \ {0} /\ ClLoadDen \in Nat /\ ClLoadDen <= ClMapCap * (ClLoadDen - ClLoadNum)

VARIABLES
    cl_which, cl_at,                                \* the container; the loop that its call is in
    map_hash, map_slots, map_cap, map_size,         \* NuwanMap
    map_old, map_i, map_put,                        \* map_grow: the old slots, the loop; the put that waits
    map_e, map_idx,                                 \* map_insert_raw: the entry in hand, the slot
    map_want, map_target,                           \* nuwan_map_reserve: expected_size, target_cap
    map_spec, map_broken,                           \* history: what was put, see MapRemove
    q_data, q_cap, q_head, q_tail, q_size, q_spec,  \* NuwanQueue; history: what it holds
    pq_heap, pq_size, pq_cap, pq_i, pq_spec,        \* NuwanPQ: the first size entries; i of its loops; history
    cl_n                                            \* calls that put something into a queue

growVars == <<map_old, map_i, map_put>>
insertVars == <<map_e, map_idx>>
reserveVars == <<map_want, map_target>>
mapVars == <<map_hash, map_slots, map_cap, map_size, growVars, insertVars, reserveVars, map_spec, map_broken>>
qVars == <<q_data, q_cap, q_head, q_tail, q_size, q_spec>>
pqVars == <<pq_heap, pq_size, pq_cap, pq_i, pq_spec>>
clVars == <<cl_which, cl_at, mapVars, qVars, pqVars, cl_n>>

MapEmpty == [key |-> NoKey, val |-> 0, dib |-> 0]
MapSlots(cap) == [i \in 0 .. cap - 1 |-> MapEmpty]
NoPut == <<NoKey, 0>>

ClInit ==
    /\ cl_which \in {"map", "queue", "pq"} /\ cl_at = "idle" /\ cl_n = 0
    /\ map_hash \in IF cl_which = "map" THEN ClHashes ELSE {CHOOSE h \in ClHashes : TRUE}
    /\ map_slots = MapSlots(ClMapCap) /\ map_cap = ClMapCap /\ map_size = 0
    /\ map_old = MapSlots(0) /\ map_i = 0 /\ map_put = NoPut /\ map_e = MapEmpty /\ map_idx = 0
    /\ map_want = 0 /\ map_target = 0
    /\ map_spec = [k \in ClKeys |-> 0] /\ map_broken = FALSE
    /\ q_data = [i \in 0 .. ClQueueCap - 1 |-> Null] /\ q_cap = ClQueueCap
    /\ q_head = 0 /\ q_tail = 0 /\ q_size = 0 /\ q_spec = <<>>
    /\ pq_heap = [i \in 0 .. -1 |-> Null] /\ pq_size = 0 /\ pq_cap = ClQueueCap /\ pq_i = 0 /\ pq_spec = {}

Idle(which) == cl_which = which /\ cl_at = "idle"

-----------------------------------------------------------------------------
(* NuwanMap.                                                                *)

\* map_insert_raw begins at the ideal slot of the key.
BeginInsert(k, v) == map_e' = [key |-> k, val |-> v, dib |-> 0] /\ map_idx' = map_hash[k] % map_cap

\* The second half of nuwan_map_put.
PutEntry(k, v) ==
    /\ BeginInsert(k, v) /\ cl_at' = "insert"
    /\ map_spec' = [map_spec EXCEPT ![k] = v]

\* map_grow and nuwan_map_reserve allocate empty slots and move the entries
\* over.  Here the new slots are the map's from the beginning of the loop: no
\* one looks before its end.
BeginRehash(cap, put) ==
    /\ map_slots' = MapSlots(cap) /\ map_cap' = cap
    /\ map_old' = map_slots /\ map_i' = 0 /\ map_put' = put /\ cl_at' = "rehash"

\* Mutation: the map grows one entry too late.
MapIsFullLate == map_size * ClLoadDen > map_cap * ClLoadNum

MapIsFull == map_size * ClLoadDen >= map_cap * ClLoadNum

\* nuwan_map_put grows before it looks whether the key is there already.
MapPut(k, v) ==
    /\ Idle("map")
    /\ \/ MapIsFull /\ BeginRehash(2 * map_cap, <<k, v>>) /\ UNCHANGED <<insertVars, map_spec>>
       \/ ~MapIsFull /\ PutEntry(k, v) /\ UNCHANGED <<map_slots, map_cap, growVars>>
    /\ UNCHANGED <<cl_which, map_hash, map_size, reserveVars, map_broken, qVars, pqVars, cl_n>>

\* An iteration of the loop over the old slots.
MapRehash ==
    /\ cl_at = "rehash" /\ map_i \in DOMAIN map_old
    /\ map_i' = map_i + 1
    /\ LET s == map_old[map_i] IN
         \/ s = MapEmpty /\ UNCHANGED <<insertVars, cl_at>>
         \/ s # MapEmpty /\ BeginInsert(s.key, s.val) /\ cl_at' = "reinsert"
    /\ UNCHANGED <<cl_which, map_hash, map_slots, map_cap, map_size, map_old, map_put, reserveVars, map_spec, map_broken, qVars, pqVars, cl_n>>

\* Its end, after which nuwan_map_put goes on.
MapRehashed ==
    /\ cl_at = "rehash" /\ map_i \notin DOMAIN map_old
    /\ map_old' = MapSlots(0) /\ map_i' = 0 /\ map_put' = NoPut
    /\ \/ map_put = NoPut /\ cl_at' = "idle" /\ UNCHANGED <<insertVars, map_spec>>
       \/ map_put # NoPut /\ PutEntry(map_put[1], map_put[2])
    /\ UNCHANGED <<cl_which, map_hash, map_slots, map_cap, map_size, reserveVars, map_broken, qVars, pqVars, cl_n>>

\* map_insert_raw returns, to nuwan_map_put or to the loop over the old slots.
InsertReturns(added) ==
    /\ cl_at' = IF cl_at = "insert" THEN "idle" ELSE "rehash"
    /\ map_size' = IF cl_at = "insert" THEN map_size + added ELSE map_size
    /\ map_e' = MapEmpty /\ map_idx' = 0

Inserting == cl_at \in {"insert", "reinsert"}

\* An iteration of map_insert_raw that finds an empty slot,
InsertFree ==
    /\ Inserting /\ map_slots[map_idx] = MapEmpty
    /\ map_slots' = [map_slots EXCEPT ![map_idx] = map_e] /\ InsertReturns(1)
    /\ UNCHANGED <<cl_which, map_hash, map_cap, growVars, reserveVars, map_spec, map_broken, qVars, pqVars, cl_n>>

\* one that finds the key,
InsertSame ==
    /\ Inserting /\ map_slots[map_idx] # MapEmpty /\ map_slots[map_idx].key = map_e.key
    /\ map_slots' = [map_slots EXCEPT ![map_idx] = [@ EXCEPT !.val = map_e.val]] /\ InsertReturns(0)
    /\ UNCHANGED <<cl_which, map_hash, map_cap, growVars, reserveVars, map_spec, map_broken, qVars, pqVars, cl_n>>

\* and one that goes on: the entry that is farther from its ideal slot stays,
\* the other is carried to the next slot.
InsertCarry ==
    /\ Inserting /\ map_slots[map_idx] # MapEmpty /\ map_slots[map_idx].key # map_e.key
    /\ LET s == map_slots[map_idx]
           swap == s.dib < map_e.dib
           next(e) == [e EXCEPT !.dib = @ + 1]
       IN /\ map_slots' = IF swap THEN [map_slots EXCEPT ![map_idx] = map_e] ELSE map_slots
          /\ map_e' = IF swap THEN next(s) ELSE next(map_e)
    /\ map_idx' = (map_idx + 1) % map_cap
    /\ UNCHANGED <<cl_which, cl_at, map_hash, map_cap, map_size, growVars, reserveVars, map_spec, map_broken, qVars, pqVars, cl_n>>

\* The probe of get, has and remove goes from the ideal slot of k to the first
\* that is empty or has the key.
Probe(k, j) == (map_hash[k] + j) % map_cap
Stops(k) == {j \in 0 .. map_cap - 1 : map_slots[Probe(k, j)] = MapEmpty \/ map_slots[Probe(k, j)].key = k}
Stop(k) == LET S == Stops(k) IN Probe(k, CHOOSE j \in S : \A i \in S : j <= i)
MapHas(k) == map_slots[Stop(k)] # MapEmpty
MapGet(k) == IF MapHas(k) THEN map_slots[Stop(k)].val ELSE 0

\* nuwan_map_remove empties the slot and shifts nothing back: an entry behind
\* it that was carried past the slot is cut off.
MapRemove(k) ==
    /\ Idle("map") /\ MapHas(k)
    /\ map_slots' = [map_slots EXCEPT ![Stop(k)] = MapEmpty] /\ map_size' = map_size - 1
    /\ map_spec' = [map_spec EXCEPT ![k] = 0]
    /\ map_broken' = (map_broken \/ map_slots[(Stop(k) + 1) % map_cap].dib > 0)
    /\ UNCHANGED <<cl_which, cl_at, map_hash, map_cap, growVars, insertVars, reserveVars, qVars, pqVars, cl_n>>

\* nuwan_map_reserve doubles the initial capacity until it is above the load
\* for n entries.
MapReserve(n) ==
    /\ Idle("map")
    /\ cl_at' = "target" /\ map_want' = n /\ map_target' = ClMapCap
    /\ UNCHANGED <<cl_which, map_hash, map_slots, map_cap, map_size, growVars, insertVars, map_spec, map_broken, qVars, pqVars, cl_n>>

ReserveDouble ==
    /\ cl_at = "target" /\ map_want * ClLoadDen >= map_target * ClLoadNum
    /\ map_target' = 2 * map_target
    /\ UNCHANGED <<cl_which, cl_at, map_hash, map_slots, map_cap, map_size, growVars, insertVars, map_want, map_spec, map_broken, qVars, pqVars, cl_n>>

ReserveRehash ==
    /\ cl_at = "target" /\ map_want * ClLoadDen < map_target * ClLoadNum
    /\ \/ map_target > map_cap /\ BeginRehash(map_target, NoPut)
       \/ map_target <= map_cap /\ cl_at' = "idle" /\ UNCHANGED <<map_slots, map_cap, growVars>>
    /\ map_want' = 0 /\ map_target' = 0
    /\ UNCHANGED <<cl_which, map_hash, map_size, insertVars, map_spec, map_broken, qVars, pqVars, cl_n>>

MapClear ==
    /\ Idle("map")
    /\ map_slots' = MapSlots(map_cap) /\ map_size' = 0
    /\ map_spec' = [k \in ClKeys |-> 0] /\ map_broken' = FALSE
    /\ UNCHANGED <<cl_which, cl_at, map_hash, map_cap, growVars, insertVars, reserveVars, qVars, pqVars, cl_n>>

-----------------------------------------------------------------------------
(* NuwanQueue.                                                              *)

\* nuwan_queue_enqueue: a full ring is laid out from 0 in one of twice the
\* size first, or there is no memory for it.
QEnqueue ==
    /\ Idle("queue") /\ cl_n < ClMaxCalls
    /\ cl_n' = cl_n + 1
    /\ \/ /\ q_size # q_cap
          /\ q_data' = [q_data EXCEPT ![q_tail] = cl_n + 1] /\ q_tail' = (q_tail + 1) % q_cap
          /\ q_size' = q_size + 1 /\ q_spec' = Append(q_spec, cl_n + 1)
          /\ UNCHANGED <<q_cap, q_head>>
       \/ /\ q_size = q_cap /\ q_cap' = 2 * q_cap
          /\ q_data' = [i \in 0 .. 2 * q_cap - 1 |->
                          IF i < q_size THEN q_data[(q_head + i) % q_cap] ELSE IF i = q_size THEN cl_n + 1 ELSE Null]
          /\ q_head' = 0 /\ q_tail' = (q_size + 1) % (2 * q_cap)
          /\ q_size' = q_size + 1 /\ q_spec' = Append(q_spec, cl_n + 1)
       \/ q_size = q_cap /\ UNCHANGED qVars
    /\ UNCHANGED <<cl_which, cl_at, mapVars, pqVars>>

QDequeue ==
    /\ Idle("queue") /\ q_size > 0
    /\ q_head' = (q_head + 1) % q_cap /\ q_size' = q_size - 1
    /\ q_spec' = Tail(q_spec)
    /\ UNCHANGED <<cl_which, cl_at, mapVars, q_data, q_cap, q_tail, pqVars, cl_n>>

QClear ==
    /\ Idle("queue") /\ cl_n > 0
    /\ q_head' = 0 /\ q_tail' = 0 /\ q_size' = 0 /\ q_spec' = <<>>
    /\ UNCHANGED <<cl_which, cl_at, mapVars, q_data, q_cap, pqVars, cl_n>>

-----------------------------------------------------------------------------
(* NuwanPQ.  An entry is a priority and a value.                            *)

Prio(i) == pq_heap[i][1]
Parent(i) == (i - 1) \div 2
PqSwap(i, j) == [pq_heap EXCEPT ![i] = pq_heap[j], ![j] = pq_heap[i]]

\* nuwan_pq_push, with nuwan_pq_reserve when the arrays are full.
PqPush(p) ==
    /\ Idle("pq") /\ cl_n < ClMaxCalls
    /\ cl_n' = cl_n + 1
    /\ \/ /\ pq_heap' = [i \in 0 .. pq_size |-> IF i = pq_size THEN <<p, cl_n + 1>> ELSE pq_heap[i]]
          /\ pq_size' = pq_size + 1 /\ pq_i' = pq_size /\ cl_at' = "up"
          /\ pq_cap' = IF pq_size = pq_cap THEN 2 * pq_cap ELSE pq_cap
          /\ pq_spec' = pq_spec \cup {<<p, cl_n + 1>>}
       \/ pq_size = pq_cap /\ UNCHANGED <<cl_at, pqVars>>
    /\ UNCHANGED <<cl_which, mapVars, qVars>>

PqUp ==
    /\ cl_at = "up"
    /\ IF pq_i > 0 /\ Prio(Parent(pq_i)) > Prio(pq_i)
         THEN pq_heap' = PqSwap(Parent(pq_i), pq_i) /\ pq_i' = Parent(pq_i) /\ UNCHANGED cl_at
         ELSE cl_at' = "idle" /\ pq_i' = 0 /\ UNCHANGED pq_heap
    /\ UNCHANGED <<cl_which, mapVars, qVars, pq_size, pq_cap, pq_spec, cl_n>>

\* nuwan_pq_pop: the last entry takes the place of the first.
PqPop ==
    /\ Idle("pq") /\ pq_size > 0
    /\ pq_heap' = [i \in 0 .. pq_size - 2 |-> IF i = 0 THEN pq_heap[pq_size - 1] ELSE pq_heap[i]]
    /\ pq_size' = pq_size - 1 /\ pq_i' = 0 /\ cl_at' = "down"
    /\ pq_spec' = pq_spec \ {pq_heap[0]}
    /\ UNCHANGED <<cl_which, mapVars, qVars, pq_cap, cl_n>>

PqSmallest ==
    LET l == 2 * pq_i + 1
        r == 2 * pq_i + 2
        least == IF l < pq_size /\ Prio(l) < Prio(pq_i) THEN l ELSE pq_i
    IN IF r < pq_size /\ Prio(r) < Prio(least) THEN r ELSE least

PqDown ==
    /\ cl_at = "down"
    /\ IF PqSmallest # pq_i
         THEN pq_heap' = PqSwap(pq_i, PqSmallest) /\ pq_i' = PqSmallest /\ UNCHANGED cl_at
         ELSE cl_at' = "idle" /\ pq_i' = 0 /\ UNCHANGED pq_heap
    /\ UNCHANGED <<cl_which, mapVars, qVars, pq_size, pq_cap, pq_spec, cl_n>>

ClNext ==
    \/ \E k \in ClKeys : MapRemove(k) \/ \E v \in ClVals : MapPut(k, v)
    \/ MapRehash \/ MapRehashed \/ InsertFree \/ InsertSame \/ InsertCarry
    \/ ReserveDouble \/ ReserveRehash \/ MapClear \/ \E n \in ClReserves : MapReserve(n)
    \/ QEnqueue \/ QDequeue \/ QClear
    \/ PqUp \/ PqPop \/ PqDown \/ \E p \in ClPrios : PqPush(p)

ClSpec == ClInit /\ [][ClNext]_clVars

-----------------------------------------------------------------------------
(* Properties.                                                              *)

\* Every probe ends: a slot is empty, after any growth, removal and update.
MapProbesEnd == \E i \in DOMAIN map_slots : map_slots[i] = MapEmpty

\* The map returns what was put last, has no key it should not have and counts
\* its keys, whatever collides and however it grew.  The exception is a map
\* from which an entry inside a chain was removed (collections.c:321): the
\* entries behind it are not found any more.
MapAgrees ==
    ~map_broken => /\ \A k \in ClKeys : MapGet(k) = map_spec[k]
                   /\ map_size = Cardinality({k \in ClKeys : map_spec[k] # 0})

\* The queue holds what was enqueued, in its order, across the end of the ring
\* and the new layout of a ring that was full with its head anywhere.
QAgrees == q_spec = [i \in 1 .. q_size |-> q_data[(q_head + i - 1) % q_cap]]

\* The heap holds what was pushed and not popped, a least priority first: what
\* the next pop returns is one of the least, after any pushes and pops.
PqAgrees ==
    /\ pq_size = Cardinality(pq_spec) /\ {pq_heap[i] : i \in 0 .. pq_size - 1} = pq_spec
    /\ \A i \in 0 .. pq_size - 1 : Prio(0) <= Prio(i)

\* Between two calls the containers are what they stand for: a map, a queue, a
\* priority queue.
ClAgree == cl_at = "idle" => MapProbesEnd /\ MapAgrees /\ QAgrees /\ PqAgrees
-----------------------------------------------------------------------------
(* The inductive invariant.                                                 *)

MapEntries == [key : ClKeys, val : ClVals, dib : Nat]
MapSlot == MapEntries \cup {MapEmpty}
ClLoops == {"idle", "target", "rehash", "reinsert", "insert", "up", "down"}

MapType ==
    /\ map_hash \in [ClKeys -> Nat] /\ map_cap \in Nat /\ map_cap >= ClMapCap
    /\ map_slots \in [0 .. map_cap - 1 -> MapSlot] /\ map_size \in Nat
    /\ \E n \in 0 .. map_cap : map_old \in [0 .. n - 1 -> MapSlot]
    /\ map_i \in Nat /\ map_put \in {NoPut} \cup (ClKeys \X ClVals)
    /\ map_e \in MapSlot /\ map_idx \in 0 .. map_cap - 1
    /\ map_want \in Nat /\ map_target \in Nat
    /\ map_spec \in [ClKeys -> ClVals \cup {0}] /\ map_broken \in BOOLEAN

\* The slots that are taken, and the old slots that are still to be moved.
MapTaken == {x \in DOMAIN map_slots : map_slots[x] # MapEmpty}
MapPending == {j \in DOMAIN map_old : j >= map_i /\ map_old[j] # MapEmpty}

\* What the locals of the map hold outside of the loops they belong to.
MapControl ==
    /\ Inserting <=> map_e # MapEmpty
    /\ cl_at \notin {"rehash", "reinsert"} => map_old = MapSlots(0) /\ map_put = NoPut
    /\ cl_at = "target" => map_target >= ClMapCap

\* The table has room for what is in it, in hand and still to be moved.
MapCount ==
    /\ LET n == Cardinality(MapTaken) + Cardinality(MapPending) + (IF cl_at = "reinsert" THEN 1 ELSE 0)
       IN n <= map_size /\ (~map_broken => n = map_size)
    /\ map_size < map_cap
    /\ cl_at = "insert" \/ map_put # NoPut => map_size + 1 < map_cap

MapNext(x) == (x + 1) % map_cap

\* Robin Hood: an entry is where its distance says, and one that is away from
\* its ideal slot has an entry before it that is at most one slot closer.
MapTable ==
    /\ \A x \in MapTaken : x = Probe(map_slots[x].key, map_slots[x].dib)
    /\ \A x \in DOMAIN map_slots :
         map_slots[MapNext(x)].dib > 0 => x \in MapTaken /\ map_slots[MapNext(x)].dib <= map_slots[x].dib + 1
    /\ \A x, y \in MapTaken : map_slots[x].key = map_slots[y].key => x = y

\* The entry in hand fits where it is carried, and has not passed its key.
MapHand ==
    map_e # MapEmpty =>
      /\ map_idx = Probe(map_e.key, map_e.dib)
      /\ \A x \in DOMAIN map_slots :
           MapNext(x) = map_idx /\ map_e.dib > 0 => x \in MapTaken /\ map_e.dib <= map_slots[x].dib + 1
      /\ \A x \in MapTaken : map_slots[x].key = map_e.key => cl_at = "insert" /\ map_e.dib <= map_slots[x].dib

\* Table, entry in hand and the old slots hold what was put, once.
MapContent ==
    /\ \A x \in MapTaken : map_slots[x].key # map_e.key => map_spec[map_slots[x].key] = map_slots[x].val
    /\ map_e # MapEmpty => map_spec[map_e.key] = map_e.val
    /\ \A j \in MapPending : map_spec[map_old[j].key] = map_old[j].val
    /\ \A j \in MapPending : map_old[j].key # map_e.key /\ \A x \in MapTaken : map_slots[x].key # map_old[j].key
    /\ \A j, l \in MapPending : map_old[j].key = map_old[l].key => j = l
    /\ \A k \in ClKeys : map_spec[k] # 0 =>
         \/ \E x \in MapTaken : map_slots[x].key = k
         \/ map_e.key = k
         \/ \E j \in MapPending : map_old[j].key = k

QInv ==
    /\ q_cap \in Nat \ {0} /\ q_data \in [0 .. q_cap - 1 -> Nat]
    /\ q_head \in 0 .. q_cap - 1 /\ q_size \in 0 .. q_cap
    /\ q_tail = (q_head + q_size) % q_cap
    /\ QAgrees

PqType ==
    /\ pq_size \in Nat /\ pq_heap \in [0 .. pq_size - 1 -> ClPrios \X (1 .. cl_n)]
    /\ pq_i \in Nat

\* The heap has each entry once.
PqHolds ==
    /\ {pq_heap[i] : i \in 0 .. pq_size - 1} = pq_spec /\ IsFiniteSet(pq_spec) /\ pq_size = Cardinality(pq_spec)
    /\ \A i, j \in 0 .. pq_size - 1 : pq_heap[i] = pq_heap[j] => i = j

\* It is ordered but where a loop is at work; what is below that place is not
\* less than what is above it.
PqOrder ==
    /\ \A j \in 1 .. pq_size - 1 :
         \/ Prio(Parent(j)) <= Prio(j)
         \/ cl_at = "up" /\ j = pq_i
         \/ cl_at = "down" /\ Parent(j) = pq_i
    /\ \A j \in 1 .. pq_size - 1 : cl_at \in {"up", "down"} /\ Parent(j) = pq_i /\ pq_i > 0 => Prio(Parent(pq_i)) <= Prio(j)
    /\ cl_at = "up" => pq_i < pq_size
    /\ cl_at = "down" => pq_i < pq_size \/ pq_i = 0

MapInv == MapType /\ MapControl /\ MapCount /\ (~map_broken => MapTable /\ MapHand /\ MapContent)
PqInv == PqType /\ PqHolds /\ PqOrder

ClInv == cl_at \in ClLoops /\ cl_n \in Nat /\ MapInv /\ QInv /\ PqInv
=============================================================================
