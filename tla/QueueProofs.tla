---------------------------- MODULE QueueProofs ----------------------------
(***************************************************************************)
(* The two queues with many producers, and the pool behind one of them.    *)
(*                                                                         *)
(* For every number of producers, every batch size and every capacity but  *)
(* one, what the log queue writes is what was claimed, in order; a slot    *)
(* has one owner at a time; and a record is dropped only by a full ring.   *)
(* cpx_logq_init accepts a capacity of one too, for which all of this is   *)
(* false: there the seq of a published slot is that of a free one.         *)
(*                                                                         *)
(* For every number of workers, clients and tasks, the network thread pool *)
(* runs a task once, and neither a wait nor the sleeping workers overlook  *)
(* one, up to the races that NetClean and net_early name.                  *)
(***************************************************************************)
EXTENDS LogQueue, NetPool, SequenceTheorems, FiniteSetTheorems, TLAPS

-----------------------------------------------------------------------------
(* Positions and slots.                                                     *)

(* Quotient and remainder by a positive number. *)
LEMMA DivModFacts ==
  ASSUME NEW n \in Nat \ {0}, NEW i \in Int
  PROVE  /\ i % n \in 0 .. n - 1
         /\ i \div n \in Int
         /\ i = n * (i \div n) + (i % n)
OBVIOUS

(* Every position has a slot. *)
LEMMA SlotInRange ==
  ASSUME NEW i \in Nat
  PROVE  LogSlot(i) \in 0 .. LogCap - 1
BY LogCapAssumption, DivModFacts DEF LogSlot

(* A multiple of the capacity and an index of a slot determine each other. *)
LEMMA SlotOfSum ==
  ASSUME NEW q \in Int, NEW m \in 0 .. LogCap - 1
  PROVE  LogSlot(LogCap * q + m) = m
<1> USE LogCapAssumption
<1> DEFINE j == LogCap * q + m
           r == j \div LogCap
           n == j % LogCap
<1>1. j \in Int /\ r \in Int /\ n \in 0 .. LogCap - 1 /\ j = LogCap * r + n
  BY DivModFacts
<1>2. j = LogCap * q + m /\ LogSlot(j) = n
  BY DEF LogSlot
<1> HIDE DEF j, r, n
<1>3. LogCap * q - LogCap * r = n - m
  BY <1>1, <1>2
<1>4. LogCap * q - LogCap * r = LogCap * (q - r)
  BY <1>1
<1>5. CASE q - r <= -1
  <2>1. LogCap * (q - r) <= -LogCap
    BY <1>1, <1>5
  <2> QED BY <1>1, <1>3, <1>4, <2>1
<1>6. CASE q - r >= 1
  <2>1. LogCap * (q - r) >= LogCap
    BY <1>1, <1>6
  <2> QED BY <1>1, <1>3, <1>4, <2>1
<1>7. CASE q - r = 0
  BY <1>1, <1>2, <1>3, <1>4, <1>7 DEF j
<1> QED BY <1>1, <1>5, <1>6, <1>7

(* Positions less than one round apart lie in different slots. *)
LEMMA SlotDistinct ==
  ASSUME NEW i \in Nat, NEW j \in Nat, i < j, j - i < LogCap
  PROVE  LogSlot(i) # LogSlot(j)
<1> USE LogCapAssumption
<1>1. SUFFICES ASSUME i % LogCap = j % LogCap PROVE FALSE
  BY DEF LogSlot
<1> DEFINE q == i \div LogCap
           r == j \div LogCap
           m == i % LogCap
<1>2. /\ q \in Int /\ r \in Int /\ m \in Int
      /\ i = LogCap * q + m
      /\ j = LogCap * r + m
  BY <1>1, DivModFacts
<1> HIDE DEF q, r, m
<1>3. j - i = LogCap * r - LogCap * q
  BY <1>2
<1>4. LogCap * r - LogCap * q = LogCap * (r - q)
  BY <1>2
<1>5. CASE r - q <= 0
  <2>1. LogCap * (r - q) <= 0
    BY <1>2, <1>5
  <2> QED BY <2>1, <1>3, <1>4
<1>6. CASE r - q >= 1
  <2>1. LogCap * (r - q) >= LogCap
    BY <1>2, <1>6
  <2> QED BY <2>1, <1>3, <1>4
<1> QED BY <1>2, <1>5, <1>6

(* One round later the slot is the same. *)
LEMMA SlotNextRound ==
  ASSUME NEW i \in Nat
  PROVE  LogSlot(i + LogCap) = LogSlot(i)
<1> USE LogCapAssumption
<1> DEFINE q == i \div LogCap
           m == i % LogCap
<1>1. q \in Int /\ m \in 0 .. LogCap - 1 /\ i = LogCap * q + m /\ LogSlot(i) = m
  BY DivModFacts DEF LogSlot
<1> DEFINE r == q + 1
<1>2. r \in Int /\ i + LogCap = LogCap * r + m
  BY <1>1
<1> HIDE DEF q, m, r
<1>3. LogSlot(LogCap * r + m) = m
  BY <1>1, <1>2, SlotOfSum
<1> QED BY <1>1, <1>2, <1>3

(* A round that starts anywhere meets every slot. *)
LEMMA SlotInRound ==
  ASSUME NEW g \in Nat, NEW k \in Nat
  PROVE  \E i \in g .. g + LogCap - 1 : LogSlot(i) = LogSlot(k)
<1> USE LogCapAssumption
<1> DEFINE q == g \div LogCap
           r == g % LogCap
           m == k % LogCap
<1>1. /\ q \in Int /\ r \in 0 .. LogCap - 1 /\ g = LogCap * q + r
      /\ m \in 0 .. LogCap - 1 /\ LogSlot(k) = m
  BY DivModFacts DEF LogSlot
<1> HIDE DEF q, r, m
<1>2. CASE m >= r
  <2> DEFINE i == LogCap * q + m
  <2>1. i \in g .. g + LogCap - 1
    <3>1. i \in Int /\ i = g + (m - r)
      BY <1>1
    <3> HIDE DEF i
    <3> QED BY <1>1, <1>2, <3>1
  <2>2. LogSlot(i) = m
    BY <1>1, SlotOfSum
  <2> QED BY <1>1, <2>1, <2>2
<1>3. CASE m < r
  <2> DEFINE n == q + 1
             i == LogCap * n + m
  <2>1. i \in g .. g + LogCap - 1
    <3>1. LogCap * n = LogCap * q + LogCap
      BY <1>1
    <3>2. i \in Int /\ i = g + LogCap + (m - r)
      BY <1>1, <3>1
    <3> HIDE DEF i
    <3> QED BY <1>1, <1>3, <3>2
  <2>2. n \in Int
    BY <1>1
  <2> HIDE DEF n
  <2>3. LogSlot(i) = m
    BY <1>1, <2>2, SlotOfSum
  <2> QED BY <1>1, <2>1, <2>3
<1> QED BY <1>1, <1>2, <1>3

-----------------------------------------------------------------------------
(* Consequences of the invariant.                                           *)

(* The positions and the ring, as the steps use them. *)
LEMMA RingTypes ==
  ASSUME LogInv
  PROVE  /\ LogCap \in Nat /\ LogCap > 0
         /\ enqueue_pos \in Nat /\ dequeue_pos \in Nat /\ LogGivenBack \in Nat
         /\ LogGivenBack <= dequeue_pos /\ dequeue_pos <= enqueue_pos
         /\ enqueue_pos <= LogGivenBack + LogCap
         /\ picked \in Seq(Nat) /\ Len(picked) \in Nat
         /\ LogGivenBack = dequeue_pos - Len(picked)
         /\ slot_seq \in [0 .. LogCap - 1 -> Nat]
         /\ slot_msg \in [0 .. LogCap - 1 -> LogRecords \cup {NoRecord}]
         /\ log_claims \in Seq(LogRecords) /\ Len(log_claims) = enqueue_pos
         /\ log_out \in Seq(LogRecords)
<1>1. /\ enqueue_pos \in Nat /\ dequeue_pos \in Nat /\ picked \in Seq(Nat)
      /\ enqueue_pos - dequeue_pos \in 0 .. LogCap
      /\ slot_seq \in [0 .. LogCap - 1 -> Nat]
      /\ slot_msg \in [0 .. LogCap - 1 -> LogRecords \cup {NoRecord}]
      /\ log_claims \in Seq(LogRecords) /\ log_out \in Seq(LogRecords)
  BY DEF LogInv, LogTypeOK
<1>2. Len(picked) \in Nat
  BY <1>1, LenProperties
<1>3. /\ LogGivenBack \in Nat /\ enqueue_pos <= LogGivenBack + LogCap
      /\ Len(log_claims) = enqueue_pos
  BY DEF LogInv, LogRingInv, LogContentInv
<1>4. LogGivenBack = dequeue_pos - Len(picked)
  BY DEF LogGivenBack
<1> QED BY <1>1, <1>2, <1>3, <1>4, LogCapAssumption

(* A position whose slot is free for it lies in the round that begins with *)
(* the oldest slot in use.  With a single slot this would be false.        *)
LEMMA RoomAtFreeSlot ==
  ASSUME LogInv, LogCap > 1, slot_seq[LogSlot(enqueue_pos)] = enqueue_pos
  PROVE  enqueue_pos < LogGivenBack + LogCap
<1>1. /\ LogCap \in Nat /\ enqueue_pos \in Nat /\ dequeue_pos \in Nat
      /\ LogGivenBack \in Nat /\ LogGivenBack <= dequeue_pos
      /\ dequeue_pos <= enqueue_pos /\ enqueue_pos <= LogGivenBack + LogCap
  BY RingTypes
<1>2. SUFFICES ASSUME enqueue_pos = LogGivenBack + LogCap PROVE FALSE
  BY <1>1
<1>3. LogSlot(enqueue_pos) = LogSlot(LogGivenBack)
  BY <1>1, <1>2, SlotNextRound
<1>4. slot_seq[LogSlot(LogGivenBack)] \in {LogGivenBack, LogGivenBack + 1}
  <2>1. CASE LogGivenBack < dequeue_pos
    BY <1>1, <2>1 DEF LogInv, LogRingInv
  <2>2. CASE LogGivenBack = dequeue_pos
    BY <1>1, <1>2, <2>2 DEF LogInv, LogRingInv
  <2> QED BY <1>1, <2>1, <2>2
<1> QED BY <1>1, <1>2, <1>3, <1>4

(* Two positions of the round in use have different slots. *)
LEMMA RoundDistinct ==
  ASSUME LogInv,
         NEW i \in LogGivenBack .. LogGivenBack + LogCap - 1,
         NEW j \in LogGivenBack .. LogGivenBack + LogCap - 1, i # j
  PROVE  LogSlot(i) # LogSlot(j)
<1>1. i \in Nat /\ j \in Nat
  BY RingTypes
<1>2. CASE i < j
  <2>1. j - i < LogCap
    BY <1>1, RingTypes
  <2> QED BY <1>1, <1>2, <2>1, SlotDistinct
<1>3. CASE j < i
  <2>1. i - j < LogCap
    BY <1>1, RingTypes
  <2> QED BY <1>1, <1>3, <2>1, SlotDistinct
<1> QED BY <1>1, <1>2, <1>3

(* The positions of that round, the ones in use among them. *)
LEMMA RoundSlots ==
  ASSUME LogInv
  PROVE  /\ \A i \in LogGivenBack .. LogGivenBack + LogCap - 1 :
              i \in Nat /\ LogSlot(i) \in 0 .. LogCap - 1
         /\ \A i \in LogGivenBack .. enqueue_pos - 1 :
              i \in LogGivenBack .. LogGivenBack + LogCap - 1
         /\ \A i \in dequeue_pos .. enqueue_pos - 1 : i \in LogGivenBack .. enqueue_pos - 1
<1>1. /\ LogCap \in Nat /\ enqueue_pos \in Nat /\ dequeue_pos \in Nat
      /\ LogGivenBack \in Nat /\ LogGivenBack <= dequeue_pos
      /\ enqueue_pos <= LogGivenBack + LogCap
  BY RingTypes
<1>2. \A i \in LogGivenBack .. LogGivenBack + LogCap - 1 : i \in Nat
  BY <1>1
<1>3. \A i \in LogGivenBack .. LogGivenBack + LogCap - 1 : LogSlot(i) \in 0 .. LogCap - 1
  BY <1>2, SlotInRange
<1> QED BY <1>1, <1>2, <1>3

(* The positions two producers fill are different. *)
LEMMA FillersDistinct ==
  ASSUME LogInv, NEW p \in LogProducers, NEW q \in LogProducers,
         log_pc[p] \in {"copy", "publish"}, log_pc[q] \in {"copy", "publish"},
         log_pos[p] = log_pos[q]
  PROVE  p = q
BY DEF LogInv, LogProducerInv, LogRecord

(* A prefix, element by element. *)
LEMMA PrefixElements ==
  ASSUME NEW S, NEW s \in Seq(S), NEW t \in Seq(S), Len(s) <= Len(t)
  PROVE  s = SubSeq(t, 1, Len(s)) <=> \A i \in 1 .. Len(s) : s[i] = t[i]
<1> DEFINE u == SubSeq(t, 1, Len(s))
<1>1. Len(s) \in Nat /\ Len(t) \in Nat
  BY LenProperties
<1>2. u \in Seq(S) /\ Len(u) = Len(s) /\ \A i \in 1 .. Len(s) : u[i] = t[i]
  BY <1>1
<1> HIDE DEF u
<1>3. (\A i \in 1 .. Len(s) : s[i] = t[i]) => s = u
  BY <1>1, <1>2, SeqEqual
<1>4. s = u => \A i \in 1 .. Len(s) : s[i] = t[i]
  BY <1>2
<1> QED BY <1>3, <1>4 DEF u

(* What is written is no more than what is claimed. *)
LEMMA WrittenLength ==
  ASSUME LogInv
  PROVE  Len(log_out) \in Nat /\ Len(log_out) <= enqueue_pos
BY RingTypes DEF LogInv, LogDrainInv

(* What is written is what was claimed, element by element. *)
LEMMA WrittenElements ==
  ASSUME LogInv
  PROVE  \A i \in 1 .. Len(log_out) : log_out[i] = log_claims[i]
<1>1. Len(log_out) <= Len(log_claims)
  BY WrittenLength, RingTypes
<1> QED BY <1>1, RingTypes, PrefixElements DEF LogInv, LogWrittenInOrder

-----------------------------------------------------------------------------
(* Steps of the producers.                                                  *)

LogLabels == {"idle", "seq", "cas", "copy", "publish", "fault"}

(* Only the locals of one producer, outside its slot, and the number of    *)
(* dropped records change.                                                 *)
LEMMA QuietProducer ==
  ASSUME LogInv, NEW p \in LogProducers,
         UNCHANGED <<enqueue_pos, dequeue_pos, log_running, slot_seq, slot_msg,
                     log_slots, logDrain, log_stop, logHistory>>,
         dropped' \in Nat,
         log_pc' \in [LogProducers -> LogLabels],
         log_pos' \in [LogProducers -> Nat],
         log_calls' \in [LogProducers -> 0 .. LogMaxPush],
         \A q \in LogProducers : q # p => /\ log_pc'[q] = log_pc[q]
                                          /\ log_pos'[q] = log_pos[q]
                                          /\ log_calls'[q] = log_calls[q],
         log_pc'[p] \in {"idle", "seq", "cas", "fault"},
         log_pc'[p] # "idle" => log_calls'[p] > 0,
         log_pc'[p] \in {"seq", "cas"} => log_pos'[p] <= enqueue_pos,
         log_pc'[p] = "cas" => slot_seq[LogSlot(log_pos'[p])] = log_pos'[p],
         log_calls'[p] \in {log_calls[p], log_calls[p] + 1},
         log_pc'[p] \in {"seq", "cas"} =>
           log_pc[p] \in {"seq", "cas"} \/ log_calls'[p] = log_calls[p] + 1
  PROVE  LogInv'
<1>1. LogTypeOK'
  BY DEF LogInv, LogTypeOK, LogLabels, logDrain, logHistory
<1>2. LogGivenBack' = LogGivenBack
  BY DEF LogGivenBack, logDrain
<1>3. LogWrittenInOrder' /\ LogRingInv' /\ LogContentInv' /\ LogDrainInv'
  BY <1>2 DEF LogInv, LogWrittenInOrder, LogRingInv, LogContentInv, LogDrainInv,
              logDrain, logHistory
<1>4. LogProducerInv'
  BY ZenonT(60) DEF LogInv, LogProducerInv, LogRecord, logDrain, logHistory
<1>5. LogClaimsInv'
  <2>1. UNCHANGED <<log_claims, log_early>>
    BY DEF logHistory
  <2>2. ASSUME NEW q \in LogProducers, NEW i \in 1 .. enqueue_pos,
               log_claims[i][1] = q
        PROVE  /\ log_claims[i][2] <= log_calls'[q]
               /\ log_pc'[q] \in {"seq", "cas"} => log_claims[i][2] # log_calls'[q]
    <3>1. /\ log_claims[i][2] <= log_calls[q]
          /\ log_pc[q] \in {"seq", "cas"} => log_claims[i][2] # log_calls[q]
      BY <2>2 DEF LogInv, LogClaimsInv
    <3>2. log_claims[i][2] \in Int /\ log_calls[q] \in Int
      <4>1. log_claims[i] \in LogRecords
        BY RingTypes, ElementOfSeq
      <4>2. log_calls \in [LogProducers -> 0 .. LogMaxPush]
        BY DEF LogInv, LogTypeOK
      <4> QED BY <4>1, <4>2, LogMaxPushAssumption DEF LogRecords
    <3>3. CASE q # p
      BY <3>1, <3>3
    <3>4. CASE q = p
      BY <3>1, <3>2, <3>4
    <3> QED BY <3>3, <3>4
  <2> QED BY <2>1, <2>2 DEF LogInv, LogClaimsInv
<1> QED BY <1>1, <1>3, <1>4, <1>5 DEF LogInv

(* A call that begins, a load of the slot's seq, a failed exchange and the *)
(* end of a call whose slots were freed.                                   *)
LEMMA QuietSteps ==
  ASSUME LogInv, NEW p \in LogProducers,
         \/ LogPush(p) \/ LogLoadSeq(p) \/ LogFault(p)
         \/ LogClaim(p) /\ log_claims' = log_claims /\ enqueue_pos' = enqueue_pos
  PROVE  LogInv'
<1>1. /\ enqueue_pos \in Nat /\ dropped \in Nat
      /\ log_pc \in [LogProducers -> LogLabels]
      /\ log_pos \in [LogProducers -> Nat]
      /\ log_calls \in [LogProducers -> 0 .. LogMaxPush]
      /\ log_claims \in Seq(LogRecords)
  BY DEF LogInv, LogTypeOK, LogLabels
<1>2. /\ log_pc[p] # "idle" => log_calls[p] > 0
      /\ log_pc[p] \in {"seq", "cas"} => log_pos[p] <= enqueue_pos
  BY DEF LogInv, LogProducerInv
<1> USE LogMaxPushAssumption DEF LogGoto
<1>3. CASE LogPush(p)
  <2>1. /\ UNCHANGED <<enqueue_pos, dequeue_pos, dropped, log_running, slot_seq,
                       slot_msg, log_slots, logDrain, log_stop, logHistory>>
        /\ log_calls' = [log_calls EXCEPT ![p] = @ + 1] /\ log_calls[p] < LogMaxPush
        /\ log_pc[p] = "idle"
    BY <1>3 DEF LogPush, logShared
  <2>2. /\ log_calls' \in [LogProducers -> 0 .. LogMaxPush]
        /\ log_calls'[p] = log_calls[p] + 1 /\ log_calls'[p] > 0
        /\ \A q \in LogProducers : q # p => log_calls'[q] = log_calls[q]
    BY <1>1, <2>1
  <2>3. /\ log_pc' \in [LogProducers -> LogLabels] /\ log_pos' \in [LogProducers -> Nat]
        /\ log_pc'[p] \in {"idle", "seq"}
        /\ log_pc'[p] = "seq" => log_pos'[p] <= enqueue_pos
        /\ \A q \in LogProducers : q # p => log_pc'[q] = log_pc[q] /\ log_pos'[q] = log_pos[q]
    <3>1. CASE log_slots = "live"
      <4>1. /\ log_pc' = [log_pc EXCEPT ![p] = "seq"]
            /\ log_pos' = [log_pos EXCEPT ![p] = enqueue_pos]
        BY <1>3, <3>1 DEF LogPush
      <4> QED BY <1>1, <4>1 DEF LogLabels
    <3>2. CASE log_slots # "live"
      <4>1. log_pc' = log_pc /\ log_pos' = log_pos
        BY <1>3, <3>2 DEF LogPush
      <4> QED BY <1>1, <2>1, <4>1
    <3> QED BY <3>1, <3>2
  <2> QED BY <1>1, <2>1, <2>2, <2>3, QuietProducer
<1>4. CASE LogLoadSeq(p)
  <2>1. /\ UNCHANGED <<enqueue_pos, dequeue_pos, log_running, slot_seq, slot_msg,
                       log_slots, log_calls, logDrain, log_stop, logHistory>>
        /\ log_pc[p] = "seq" /\ dropped' \in {dropped, dropped + 1}
    BY <1>4 DEF LogLoadSeq
  <2>2. slot_seq[LogSlot(log_pos[p])] \in Nat
    BY <1>1, RingTypes, SlotInRange
  <2>3. /\ log_pc' \in [LogProducers -> LogLabels] /\ log_pos' \in [LogProducers -> Nat]
        /\ log_pc'[p] \in {"idle", "seq", "cas"}
        /\ log_pos'[p] <= enqueue_pos
        /\ log_pc'[p] = "cas" => slot_seq[LogSlot(log_pos'[p])] = log_pos'[p]
        /\ \A q \in LogProducers : q # p => log_pc'[q] = log_pc[q] /\ log_pos'[q] = log_pos[q]
    <3>1. CASE log_pc' = [log_pc EXCEPT ![p] = "cas"] /\ log_pos' = log_pos
               /\ slot_seq[LogSlot(log_pos[p])] - log_pos[p] = 0
      BY <1>1, <1>2, <2>1, <2>2, <3>1 DEF LogLabels
    <3>2. CASE log_pc' = [log_pc EXCEPT ![p] = "idle"] /\ log_pos' = log_pos
      BY <1>1, <1>2, <2>1, <3>2 DEF LogLabels
    <3>3. CASE log_pc' = log_pc /\ log_pos' = [log_pos EXCEPT ![p] = enqueue_pos]
      BY <1>1, <2>1, <3>3
    <3> QED BY <1>4, <3>1, <3>2, <3>3 DEF LogLoadSeq
  <2>4. dropped' \in Nat /\ log_calls' = log_calls
    BY <1>1, <2>1
  <2> QED BY <1>1, <1>2, <2>1, <2>3, <2>4, QuietProducer
<1>5. CASE LogFault(p)
  <2>1. /\ UNCHANGED <<enqueue_pos, dequeue_pos, dropped, log_running, slot_seq,
                       slot_msg, log_slots, log_pos, log_calls, logDrain, log_stop,
                       logHistory>>
        /\ log_pc[p] # "idle" /\ log_pc' = [log_pc EXCEPT ![p] = "fault"]
    BY <1>5 DEF LogFault, logShared
  <2>2. /\ log_pc' \in [LogProducers -> LogLabels] /\ log_pc'[p] = "fault"
        /\ \A q \in LogProducers : q # p => log_pc'[q] = log_pc[q]
    BY <1>1, <2>1 DEF LogLabels
  <2> QED BY <1>1, <1>2, <2>1, <2>2, QuietProducer
<1>6. CASE LogClaim(p) /\ log_claims' = log_claims /\ enqueue_pos' = enqueue_pos
  <2>1. /\ UNCHANGED <<enqueue_pos, dequeue_pos, dropped, log_running, slot_seq,
                       slot_msg, log_slots, log_calls, logDrain, log_stop, logHistory>>
        /\ log_pc[p] = "cas"
    BY <1>6 DEF LogClaim, logHistory
  <2>2. log_pc' = [log_pc EXCEPT ![p] = "seq"]
        /\ log_pos' = [log_pos EXCEPT ![p] = enqueue_pos]
    BY <1>1, <1>6 DEF LogClaim
  <2>3. /\ log_pc' \in [LogProducers -> LogLabels] /\ log_pos' \in [LogProducers -> Nat]
        /\ log_pc'[p] = "seq" /\ log_pos'[p] <= enqueue_pos
        /\ \A q \in LogProducers : q # p => log_pc'[q] = log_pc[q] /\ log_pos'[q] = log_pos[q]
    BY <1>1, <2>2 DEF LogLabels
  <2> QED BY <1>1, <1>2, <2>1, <2>3, QuietProducer
<1> QED BY <1>3, <1>4, <1>5, <1>6

(* The exchange that claims a position: its slot is free, and its record   *)
(* was never claimed before.                                               *)
LEMMA ClaimStep ==
  ASSUME LogInv, LogCap > 1, NEW p \in LogProducers, LogClaim(p),
         enqueue_pos = log_pos[p], enqueue_pos' = enqueue_pos + 1,
         log_claims' = Append(log_claims, LogRecord(p)),
         log_pc' = [log_pc EXCEPT ![p] = "copy"], log_pos' = log_pos
  PROVE  LogInv'
<1> DEFINE E == enqueue_pos
           G == LogGivenBack
           rec == LogRecord(p)
<1>1. /\ log_pc[p] = "cas"
      /\ UNCHANGED <<dequeue_pos, dropped, log_running, slot_seq, slot_msg, log_slots,
                     log_calls, drain_pc, drain_final, picked, log_stop, log_out,
                     log_early, log_pass>>
  BY DEF LogClaim, logDrain
<1>2. /\ log_pc \in [LogProducers -> LogLabels]
      /\ log_calls \in [LogProducers -> 0 .. LogMaxPush]
      /\ log_pos \in [LogProducers -> Nat]
      /\ log_calls[p] > 0
  BY <1>1 DEF LogInv, LogTypeOK, LogLabels, LogProducerInv
<1>3. /\ log_pc' \in [LogProducers -> LogLabels] /\ log_pc'[p] = "copy"
      /\ \A q \in LogProducers : q # p => log_pc'[q] = log_pc[q]
  BY <1>2 DEF LogLabels
<1>4. /\ rec \in LogRecords /\ rec[1] = p /\ rec[2] = log_calls[p] /\ LogRecord(p)' = rec
      /\ \A q \in LogProducers : LogRecord(q)' = LogRecord(q)
  BY <1>1, <1>2, LogMaxPushAssumption DEF LogRecord, LogRecords
<1>5. /\ E \in Nat /\ dequeue_pos \in Nat /\ G \in Nat /\ LogCap \in Nat
      /\ G <= dequeue_pos /\ dequeue_pos <= E
      /\ log_claims \in Seq(LogRecords) /\ Len(log_claims) = E
  BY RingTypes
<1>6. slot_seq[LogSlot(E)] = E /\ E < G + LogCap
  <2>1. slot_seq[LogSlot(E)] = E
    BY <1>1 DEF LogInv, LogProducerInv
  <2> QED BY <2>1, RoomAtFreeSlot
<1>7. G' = G
  BY <1>1 DEF LogGivenBack
<1>8. /\ log_claims' \in Seq(LogRecords) /\ Len(log_claims') = E + 1
      /\ \A i \in 1 .. E : log_claims'[i] = log_claims[i]
      /\ log_claims'[E + 1] = rec
  BY <1>4, <1>5, AppendProperties
<1>9. \A i \in 1 .. E : log_claims[i] # rec
  BY <1>1, <1>4 DEF LogInv, LogClaimsInv
<1>10. rec \notin log_early
  BY <1>9 DEF LogInv, LogClaimsInv
<1> HIDE DEF E, G, rec
<1>11. LogTypeOK'
  <2>1. enqueue_pos' \in Nat /\ enqueue_pos' - dequeue_pos \in 0 .. LogCap
    BY SMTT(30), <1>5, <1>6 DEF E
  <2> QED BY <1>1, <1>3, <1>8, <2>1 DEF LogInv, LogTypeOK, LogLabels
<1>12. LogRingInv'
  <2>1. \A i \in dequeue_pos .. E : slot_seq[LogSlot(i)] \in {i, i + 1}
    BY <1>5, <1>6 DEF LogInv, LogRingInv, E
  <2>2. \A i \in E + 1 .. G + LogCap - 1 : slot_seq[LogSlot(i)] = i
    BY <1>5 DEF LogInv, LogRingInv, E, G
  <2>3. /\ \A i \in dequeue_pos .. (E + 1) - 1 : slot_seq[LogSlot(i)] \in {i, i + 1}
        /\ E + 1 <= G + LogCap
    BY <1>5, <1>6, <2>1
  <2> QED BY <1>1, <1>5, <1>7, <2>2, <2>3 DEF LogInv, LogRingInv, E, G
<1>13. LogContentInv'
  <2>1. ASSUME NEW i \in G .. (E + 1) - 1, slot_seq[LogSlot(i)] = i + 1
        PROVE  slot_msg[LogSlot(i)] = log_claims'[i + 1]
    <3>1. i \in G .. E - 1 /\ i + 1 \in 1 .. E
      BY <1>5, <1>6, <2>1
    <3>2. slot_msg[LogSlot(i)] = log_claims[i + 1]
      BY <2>1, <3>1 DEF LogInv, LogContentInv, E, G
    <3> QED BY <1>8, <3>1, <3>2
  <2> QED BY <1>1, <1>7, <1>8, <2>1 DEF LogContentInv, E, G
<1>14. LogProducerInv'
  <2>1. ASSUME NEW q \in LogProducers
        PROVE  /\ log_pc'[q] # "idle" => log_calls[q] > 0
               /\ log_pc'[q] \in {"seq", "cas"} => log_pos[q] <= E + 1
               /\ ~(log_pc'[q] = "cas" /\ log_pos[q] = E + 1)
               /\ log_pc'[q] \in {"copy", "publish"} =>
                    /\ log_pos[q] \in dequeue_pos .. (E + 1) - 1
                    /\ slot_seq[LogSlot(log_pos[q])] = log_pos[q]
                    /\ log_claims'[log_pos[q] + 1] = LogRecord(q)
               /\ log_pc'[q] = "publish" => slot_msg[LogSlot(log_pos[q])] = LogRecord(q)
    <3>1. CASE q = p
      BY <1>2, <1>3, <1>5, <1>6, <1>8, <3>1 DEF E, rec
    <3>2. CASE q # p
      <4>1. /\ log_pc[q] # "idle" => log_calls[q] > 0
            /\ log_pc[q] \in {"seq", "cas"} => log_pos[q] <= E
            /\ log_pc[q] \in {"copy", "publish"} =>
                 /\ log_pos[q] \in dequeue_pos .. E - 1
                 /\ slot_seq[LogSlot(log_pos[q])] = log_pos[q]
                 /\ log_claims[log_pos[q] + 1] = LogRecord(q)
            /\ log_pc[q] = "publish" => slot_msg[LogSlot(log_pos[q])] = LogRecord(q)
        BY DEF LogInv, LogProducerInv, E
      <4>2. log_pos[q] \in Nat /\ log_pc'[q] = log_pc[q]
        BY <1>2, <1>3, <3>2
      <4>3. log_pos[q] \in dequeue_pos .. E - 1 =>
              /\ log_pos[q] + 1 \in 1 .. E
              /\ log_pos[q] \in dequeue_pos .. (E + 1) - 1
        BY <1>5, <4>2
      <4> QED BY <1>5, <1>8, <4>1, <4>2, <4>3
    <3> QED BY <3>1, <3>2
  <2> QED BY <1>1, <1>4, <2>1 DEF LogProducerInv, E
<1>15. LogClaimsInv'
  <2>1. \A i, j \in 1 .. E + 1 : log_claims'[i] = log_claims'[j] => i = j
    <3>1. \A i, j \in 1 .. E : log_claims[i] = log_claims[j] => i = j
      BY DEF LogInv, LogClaimsInv, E
    <3>2. \A i \in 1 .. E + 1 : i \in 1 .. E \/ i = E + 1
      BY <1>5
    <3> QED BY <1>8, <1>9, <3>1, <3>2
  <2>2. ASSUME NEW q \in LogProducers, NEW i \in 1 .. E + 1, log_claims'[i][1] = q
        PROVE  /\ log_claims'[i][2] <= log_calls[q]
               /\ log_pc'[q] \in {"seq", "cas"} => log_claims'[i][2] # log_calls[q]
    <3>1. CASE i = E + 1
      <4>1. q = p /\ log_claims'[i][2] = log_calls[p]
        BY <1>4, <1>8, <2>2, <3>1 DEF rec
      <4> QED BY <1>2, <1>3, <4>1, LogMaxPushAssumption
    <3>2. CASE i # E + 1
      <4>1. i \in 1 .. E /\ log_claims'[i] = log_claims[i]
        BY <1>5, <1>8, <3>2
      <4>2. log_pc'[q] \in {"seq", "cas"} => log_pc[q] \in {"seq", "cas"}
        BY <1>3
      <4> QED BY <2>2, <4>1, <4>2 DEF LogInv, LogClaimsInv, E
    <3> QED BY <3>1, <3>2
  <2>3. ASSUME NEW r \in log_early PROVE \E i \in 1 .. E + 1 : log_claims'[i] = r
    <3>1. PICK i \in 1 .. E : log_claims[i] = r
      BY <2>3 DEF LogInv, LogClaimsInv, E
    <3>2. i \in 1 .. E + 1 /\ log_claims'[i] = r
      BY <1>5, <1>8, <3>1
    <3> QED BY <3>2
  <2>4. ASSUME NEW i \in dequeue_pos .. (E + 1) - 1, slot_seq[LogSlot(i)] = i
        PROVE  log_claims'[i + 1] \notin log_early
    <3>1. CASE i = E
      BY <1>8, <1>10, <3>1
    <3>2. CASE i # E
      <4>1. i \in dequeue_pos .. E - 1 /\ i + 1 \in 1 .. E
        BY <1>5, <3>2
      <4> QED BY <1>8, <2>4, <4>1 DEF LogInv, LogClaimsInv, E
    <3> QED BY <3>1, <3>2
  <2> QED BY <1>1, <2>1, <2>2, <2>3, <2>4 DEF LogClaimsInv, E
<1>16. LogDrainInv'
  <2>1. ASSUME drain_final, drain_pc \in {"write", "free", "done"}, log_pass < LogBatch
        PROVE  log_claims'[dequeue_pos + 1] \notin log_early
    <3>1. CASE dequeue_pos = E
      BY <1>8, <1>10, <3>1
    <3>2. CASE dequeue_pos < E
      <4>1. dequeue_pos + 1 \in 1 .. E
        BY <1>5, <3>2
      <4> QED BY <1>8, <2>1, <3>2, <4>1 DEF LogInv, LogDrainInv, E
    <3> QED BY <1>5, <3>1, <3>2
  <2> QED BY <1>1, <1>7, <2>1 DEF LogInv, LogDrainInv, G
<1>17. LogWrittenInOrder'
  <2>1. Len(log_out) \in Nat /\ Len(log_out) <= E
    BY WrittenLength DEF E
  <2>2. \A i \in 1 .. Len(log_out) : log_out[i] = log_claims'[i]
    <3>1. \A i \in 1 .. Len(log_out) : i \in 1 .. E
      BY <1>5, <2>1
    <3> QED BY <1>8, <3>1, WrittenElements
  <2>3. Len(log_out) <= Len(log_claims')
    BY <1>5, <1>8, <2>1
  <2>4. log_out = SubSeq(log_claims', 1, Len(log_out))
    BY <1>8, <2>2, <2>3, RingTypes, PrefixElements
  <2> QED BY <1>1, <2>4 DEF LogWrittenInOrder
<1> QED BY <1>11, <1>12, <1>13, <1>14, <1>15, <1>16, <1>17 DEF LogInv

(* The copy of the message: only the slot of this producer's position. *)
LEMMA CopyStep ==
  ASSUME LogInv, NEW p \in LogProducers, LogCopy(p)
  PROVE  LogInv'
<1> DEFINE k == log_pos[p]
<1>1. /\ log_pc[p] = "copy" /\ log_pc' = [log_pc EXCEPT ![p] = "publish"]
      /\ slot_msg' = [slot_msg EXCEPT ![LogSlot(k)] = LogRecord(p)]
      /\ UNCHANGED <<enqueue_pos, dequeue_pos, dropped, log_running, slot_seq, log_slots,
                     log_pos, log_calls, drain_pc, drain_final, picked, log_stop,
                     log_out, log_claims, log_early, log_pass>>
  BY DEF LogCopy, LogGoto, logDrain, logHistory
<1>2. /\ log_pc \in [LogProducers -> LogLabels]
      /\ log_calls \in [LogProducers -> 0 .. LogMaxPush]
      /\ log_pos \in [LogProducers -> Nat]
  BY DEF LogInv, LogTypeOK, LogLabels
<1>3. /\ log_pc' \in [LogProducers -> LogLabels] /\ log_pc'[p] = "publish"
      /\ \A q \in LogProducers : q # p => log_pc'[q] = log_pc[q]
  BY <1>1, <1>2 DEF LogLabels
<1>4. \A q \in LogProducers : LogRecord(q)' = LogRecord(q)
  BY <1>1 DEF LogRecord
<1>5. /\ k \in dequeue_pos .. enqueue_pos - 1 /\ slot_seq[LogSlot(k)] = k
      /\ log_calls[p] > 0
  BY <1>1 DEF LogInv, LogProducerInv
<1>6. /\ k \in LogGivenBack .. LogGivenBack + LogCap - 1 /\ k \in Nat
      /\ LogSlot(k) \in 0 .. LogCap - 1
  BY <1>5, RoundSlots
<1>7. /\ slot_msg'[LogSlot(k)] = LogRecord(p)
      /\ \A i \in LogGivenBack .. LogGivenBack + LogCap - 1 :
           i # k => slot_msg'[LogSlot(i)] = slot_msg[LogSlot(i)]
  <2>1. slot_msg \in [0 .. LogCap - 1 -> LogRecords \cup {NoRecord}]
    BY RingTypes
  <2>2. \A i \in LogGivenBack .. LogGivenBack + LogCap - 1 :
          i # k => LogSlot(i) # LogSlot(k) /\ LogSlot(i) \in 0 .. LogCap - 1
    BY <1>6, RoundDistinct, RoundSlots
  <2> QED BY <1>1, <1>6, <2>1, <2>2
<1>8. LogGivenBack' = LogGivenBack
  BY <1>1 DEF LogGivenBack
<1> HIDE DEF k
<1>9. LogTypeOK'
  <2>1. LogRecord(p) \in LogRecords
    BY <1>2, <1>5, LogMaxPushAssumption DEF LogRecord, LogRecords
  <2>2. slot_msg' \in [0 .. LogCap - 1 -> LogRecords \cup {NoRecord}]
    BY <1>1, <2>1, RingTypes
  <2> QED BY <1>1, <1>3, <2>2 DEF LogInv, LogTypeOK, LogLabels
<1>10. LogRingInv' /\ LogDrainInv' /\ LogWrittenInOrder'
  BY <1>1, <1>8 DEF LogInv, LogRingInv, LogDrainInv, LogWrittenInOrder
<1>11. LogContentInv'
  <2>1. ASSUME NEW i \in LogGivenBack .. enqueue_pos - 1, slot_seq[LogSlot(i)] = i + 1
        PROVE  slot_msg'[LogSlot(i)] = log_claims[i + 1]
    <3>1. i # k
      BY <1>5, <1>6, <2>1
    <3> QED BY <1>7, <2>1, <3>1, RoundSlots DEF LogInv, LogContentInv
  <2> QED BY <1>1, <1>8, <2>1 DEF LogInv, LogContentInv
<1>12. LogProducerInv'
  <2>1. ASSUME NEW q \in LogProducers, q # p, log_pc[q] \in {"copy", "publish"}
        PROVE  slot_msg'[LogSlot(log_pos[q])] = slot_msg[LogSlot(log_pos[q])]
    <3>1. log_pos[q] # k
      BY <1>1, <2>1, FillersDistinct DEF k
    <3>2. log_pos[q] \in LogGivenBack .. LogGivenBack + LogCap - 1
      BY <2>1, RoundSlots DEF LogInv, LogProducerInv
    <3> QED BY <1>7, <3>1, <3>2
  <2> QED BY <1>1, <1>3, <1>4, <1>7, <2>1 DEF LogInv, LogProducerInv, k
<1>13. LogClaimsInv'
  BY <1>1, <1>3 DEF LogInv, LogClaimsInv
<1> QED BY <1>9, <1>10, <1>11, <1>12, <1>13 DEF LogInv

(* The store that publishes a slot: of the claimed positions only this     *)
(* producer's is published by it.                                          *)
LEMMA PublishStep ==
  ASSUME LogInv, LogCap > 1, NEW p \in LogProducers, LogPublish(p)
  PROVE  LogInv'
<1> DEFINE k == log_pos[p]
<1>1. /\ log_pc[p] = "publish" /\ log_pc' = [log_pc EXCEPT ![p] = "idle"]
      /\ slot_seq' = [slot_seq EXCEPT ![LogSlot(k)] = k + 1]
      /\ log_early' = IF log_stop = "no" THEN log_early \cup {LogRecord(p)} ELSE log_early
      /\ UNCHANGED <<enqueue_pos, dequeue_pos, dropped, log_running, slot_msg, log_slots,
                     log_pos, log_calls, drain_pc, drain_final, picked, log_stop,
                     log_out, log_claims, log_pass>>
  BY DEF LogPublish, LogGoto, logDrain
<1>2. /\ log_pc \in [LogProducers -> LogLabels]
      /\ log_calls \in [LogProducers -> 0 .. LogMaxPush]
      /\ log_pos \in [LogProducers -> Nat]
  BY DEF LogInv, LogTypeOK, LogLabels
<1>3. /\ log_pc' \in [LogProducers -> LogLabels] /\ log_pc'[p] = "idle"
      /\ \A q \in LogProducers : q # p => log_pc'[q] = log_pc[q]
  BY <1>1, <1>2 DEF LogLabels
<1>4. \A q \in LogProducers : LogRecord(q)' = LogRecord(q)
  BY <1>1 DEF LogRecord
<1>5. /\ k \in dequeue_pos .. enqueue_pos - 1 /\ slot_seq[LogSlot(k)] = k
      /\ log_claims[k + 1] = LogRecord(p) /\ slot_msg[LogSlot(k)] = LogRecord(p)
      /\ log_calls[p] > 0
  BY <1>1 DEF LogInv, LogProducerInv
<1>6. /\ k \in LogGivenBack .. LogGivenBack + LogCap - 1 /\ k \in Nat
      /\ LogSlot(k) \in 0 .. LogCap - 1
  BY <1>5, RoundSlots
<1>7. /\ slot_seq'[LogSlot(k)] = k + 1
      /\ \A i \in LogGivenBack .. LogGivenBack + LogCap - 1 :
           i # k => slot_seq'[LogSlot(i)] = slot_seq[LogSlot(i)]
      /\ slot_seq' \in [0 .. LogCap - 1 -> Nat]
  <2>1. slot_seq \in [0 .. LogCap - 1 -> Nat]
    BY RingTypes
  <2>2. \A i \in LogGivenBack .. LogGivenBack + LogCap - 1 :
          i # k => LogSlot(i) # LogSlot(k) /\ LogSlot(i) \in 0 .. LogCap - 1
    BY <1>6, RoundDistinct, RoundSlots
  <2> QED BY <1>1, <1>6, <2>1, <2>2
<1>8. LogGivenBack' = LogGivenBack
  BY <1>1 DEF LogGivenBack
<1>9. LogRecord(p) \in LogRecords
  BY <1>2, <1>5, LogMaxPushAssumption DEF LogRecord, LogRecords
<1>10. /\ enqueue_pos \in Nat /\ dequeue_pos \in Nat /\ LogGivenBack \in Nat
       /\ LogCap \in Nat /\ LogGivenBack <= dequeue_pos
       /\ enqueue_pos <= LogGivenBack + LogCap
  BY RingTypes
<1> HIDE DEF k
<1>11. LogTypeOK'
  BY <1>1, <1>3, <1>7, <1>9 DEF LogInv, LogTypeOK, LogLabels
<1>12. LogRingInv'
  <2>1. \A i \in LogGivenBack .. dequeue_pos - 1 : slot_seq'[LogSlot(i)] = i + 1
    <3>1. \A i \in LogGivenBack .. dequeue_pos - 1 :
             i \in LogGivenBack .. LogGivenBack + LogCap - 1 /\ i # k
      BY <1>5, <1>10
    <3> QED BY <1>7, <3>1 DEF LogInv, LogRingInv
  <2>2. \A i \in dequeue_pos .. enqueue_pos - 1 : slot_seq'[LogSlot(i)] \in {i, i + 1}
    BY <1>7, RoundSlots DEF LogInv, LogRingInv
  <2>3. \A i \in enqueue_pos .. LogGivenBack + LogCap - 1 : slot_seq'[LogSlot(i)] = i
    <3>1. \A i \in enqueue_pos .. LogGivenBack + LogCap - 1 :
             i \in LogGivenBack .. LogGivenBack + LogCap - 1 /\ i # k
      BY <1>5, <1>10
    <3> QED BY <1>7, <3>1 DEF LogInv, LogRingInv
  <2> QED BY <1>1, <1>8, <2>1, <2>2, <2>3 DEF LogInv, LogRingInv
<1>13. LogContentInv'
  <2>1. ASSUME NEW i \in LogGivenBack .. enqueue_pos - 1, slot_seq'[LogSlot(i)] = i + 1
        PROVE  slot_msg[LogSlot(i)] = log_claims[i + 1]
    BY <1>5, <1>7, <2>1, RoundSlots DEF LogInv, LogContentInv
  <2> QED BY <1>1, <1>8, <2>1 DEF LogInv, LogContentInv
<1>14. LogProducerInv'
  <2>1. ASSUME NEW q \in LogProducers, q # p, log_pc[q] \in {"copy", "publish"}
        PROVE  slot_seq'[LogSlot(log_pos[q])] = slot_seq[LogSlot(log_pos[q])]
    <3>1. log_pos[q] # k
      BY <1>1, <2>1, FillersDistinct DEF k
    <3>2. log_pos[q] \in LogGivenBack .. LogGivenBack + LogCap - 1
      BY <2>1, RoundSlots DEF LogInv, LogProducerInv
    <3> QED BY <1>7, <3>1, <3>2
  <2>2. ASSUME slot_seq[LogSlot(enqueue_pos)] = enqueue_pos
        PROVE  slot_seq'[LogSlot(enqueue_pos)] = enqueue_pos
    <3>1. enqueue_pos < LogGivenBack + LogCap
      BY <2>2, RoomAtFreeSlot
    <3>2. enqueue_pos \in LogGivenBack .. LogGivenBack + LogCap - 1 /\ enqueue_pos # k
      BY <1>5, <1>10, <3>1, RingTypes
    <3> QED BY <1>7, <2>2, <3>2
  <2> QED BY <1>1, <1>3, <1>4, <2>1, <2>2 DEF LogInv, LogProducerInv
<1>15. LogClaimsInv'
  <2>1. k + 1 \in 1 .. enqueue_pos
    BY <1>5, <1>6, <1>10
  <2>2. \A r \in log_early' : \E i \in 1 .. enqueue_pos : log_claims[i] = r
    BY <1>1, <1>5, <2>1 DEF LogInv, LogClaimsInv
  <2>3. ASSUME NEW i \in dequeue_pos .. enqueue_pos - 1, slot_seq'[LogSlot(i)] = i
        PROVE  log_claims[i + 1] \notin log_early'
    <3>1. i \in Nat /\ i # k
      BY <1>6, <1>7, <2>3, RoundSlots
    <3>2. slot_seq[LogSlot(i)] = i
      BY <1>7, <2>3, <3>1, RoundSlots
    <3>3. log_claims[i + 1] \notin log_early
      BY <3>2 DEF LogInv, LogClaimsInv
    <3>4. i + 1 \in 1 .. enqueue_pos /\ i + 1 # k + 1
      BY <1>6, <1>10, <3>1
    <3>5. log_claims[i + 1] # log_claims[k + 1]
      BY <2>1, <3>4 DEF LogInv, LogClaimsInv
    <3> QED BY <1>1, <1>5, <3>3, <3>5
  <2>4. \A q \in LogProducers : log_pc'[q] \in {"seq", "cas"} => log_pc[q] = log_pc'[q]
    BY <1>3
  <2> QED BY <1>1, <2>2, <2>3, <2>4 DEF LogInv, LogClaimsInv
<1>16. LogDrainInv'
  <2>1. drain_final => log_early' = log_early
    BY <1>1 DEF LogInv, LogDrainInv
  <2> QED BY <1>1, <1>8, <2>1 DEF LogInv, LogDrainInv
<1>17. LogWrittenInOrder'
  BY <1>1 DEF LogInv, LogWrittenInOrder
<1> QED BY <1>11, <1>12, <1>13, <1>14, <1>15, <1>16, <1>17 DEF LogInv

-----------------------------------------------------------------------------
(* Steps of the drain thread and of the shutdown.                           *)

(* The ring, the producers and what was claimed and written stay. *)
LEMMA RingUnchanged ==
  ASSUME LogInv,
         UNCHANGED <<enqueue_pos, dequeue_pos, slot_seq, slot_msg, log_pc, log_pos,
                     log_calls, picked, log_out, log_claims, log_early>>
  PROVE  /\ LogGivenBack' = LogGivenBack
         /\ LogWrittenInOrder' /\ LogRingInv' /\ LogContentInv'
         /\ LogProducerInv' /\ LogClaimsInv'
<1>1. LogGivenBack' = LogGivenBack
  BY DEF LogGivenBack
<1>2. LogWrittenInOrder' /\ LogRingInv' /\ LogContentInv'
  BY <1>1 DEF LogInv, LogWrittenInOrder, LogRingInv, LogContentInv
<1>3. LogProducerInv'
  BY DEF LogInv, LogProducerInv, LogRecord
<1>4. LogClaimsInv'
  BY DEF LogInv, LogClaimsInv
<1> QED BY <1>1, <1>2, <1>3, <1>4

(* Steps that only move the drain thread or the shutdown along. *)
LEMMA ControlStep ==
  ASSUME LogInv, DrainLoop \/ LogShutdown \/ LogFreeSlots
  PROVE  LogInv'
<1>1. UNCHANGED <<enqueue_pos, dequeue_pos, dropped, slot_seq, slot_msg, log_pc, log_pos,
                  log_calls, picked, log_out, log_claims, log_early, log_pass>>
  BY DEF DrainLoop, LogShutdown, LogFreeSlots, logShared, logProducer, logDrain, logHistory
<1>2. LogGivenBack' = LogGivenBack
  BY <1>1, RingUnchanged
<1>3. LogWrittenInOrder' /\ LogRingInv' /\ LogContentInv' /\ LogProducerInv' /\ LogClaimsInv'
  BY <1>1, RingUnchanged
<1>4. CASE DrainLoop
  <2>1. /\ drain_pc = "loop" /\ drain_pc' = "pick" /\ drain_final' = ~log_running
        /\ UNCHANGED <<log_running, log_slots, log_stop>>
    BY <1>4 DEF DrainLoop, logShared
  <2>2. LogTypeOK'
    BY <1>1, <2>1 DEF LogInv, LogTypeOK
  <2>3. LogDrainInv'
    BY <1>1, <1>2, <2>1 DEF LogInv, LogDrainInv
  <2> QED BY <1>3, <2>2, <2>3 DEF LogInv
<1>5. CASE LogShutdown
  <2>1. /\ log_running' = FALSE /\ log_stop' = "join"
        /\ UNCHANGED <<log_slots, drain_pc, drain_final>>
    BY <1>5 DEF LogShutdown, logDrain
  <2>2. LogTypeOK'
    BY <1>1, <2>1 DEF LogInv, LogTypeOK
  <2>3. LogDrainInv'
    BY <1>1, <1>2, <2>1 DEF LogInv, LogDrainInv
  <2> QED BY <1>3, <2>2, <2>3 DEF LogInv
<1>6. CASE LogFreeSlots
  <2>1. /\ log_slots' = "freed" /\ log_stop' = "stopped"
        /\ UNCHANGED <<log_running, drain_pc, drain_final>>
    BY <1>6 DEF LogFreeSlots, logDrain
  <2>2. LogTypeOK'
    BY <1>1, <2>1 DEF LogInv, LogTypeOK
  <2>3. LogDrainInv'
    BY <1>1, <1>2, <2>1 DEF LogInv, LogDrainInv
  <2> QED BY <1>3, <2>2, <2>3 DEF LogInv
<1> QED BY <1>4, <1>5, <1>6

(* pop_one takes a published position: it was claimed, and nobody fills it *)
(* any more.                                                               *)
LEMMA PickStep ==
  ASSUME LogInv, DrainPick
  PROVE  LogInv'
<1> DEFINE D == dequeue_pos
           E == enqueue_pos
           G == LogGivenBack
<1>1. /\ drain_pc = "pick" /\ Len(picked) < LogBatch
      /\ slot_seq[LogSlot(D)] = D + 1
      /\ dequeue_pos' = D + 1 /\ picked' = Append(picked, D)
      /\ UNCHANGED <<enqueue_pos, dropped, log_running, slot_seq, slot_msg, log_slots,
                     log_pc, log_pos, log_calls, drain_pc, drain_final, log_stop,
                     log_out, log_claims, log_early, log_pass>>
  BY DEF DrainPick, logProducer, logHistory
<1>2. /\ E \in Nat /\ D \in Nat /\ G \in Nat /\ LogCap \in Nat /\ LogCap > 0
      /\ G <= D /\ D <= E /\ E <= G + LogCap /\ G = D - Len(picked)
      /\ picked \in Seq(Nat) /\ Len(picked) \in Nat
  BY RingTypes
<1>3. D < E
  <2>1. SUFFICES ASSUME D = E PROVE FALSE
    BY <1>2
  <2>2. CASE E < G + LogCap
    <3>1. slot_seq[LogSlot(D)] = D
      BY <1>2, <2>1, <2>2 DEF LogInv, LogRingInv
    <3> QED BY <1>1, <1>2, <3>1
  <2>3. CASE E = G + LogCap
    <3>1. LogSlot(D) = LogSlot(G)
      BY <1>2, <2>1, <2>3, SlotNextRound
    <3>2. slot_seq[LogSlot(G)] = G + 1
      BY <1>2, <2>1, <2>3 DEF LogInv, LogRingInv
    <3> QED BY <1>1, <1>2, <2>1, <2>3, <3>1, <3>2
  <2> QED BY <1>2, <2>2, <2>3
<1>4. /\ picked' \in Seq(Nat) /\ Len(picked') = Len(picked) + 1
      /\ \A i \in 1 .. Len(picked) : picked'[i] = picked[i]
      /\ picked'[Len(picked) + 1] = D
      /\ DOMAIN picked' = 1 .. Len(picked) + 1 /\ DOMAIN picked = 1 .. Len(picked)
  <2>1. picked' \in Seq(Nat)
    BY <1>1, <1>2, AppendProperties
  <2> QED BY <1>1, <1>2, <2>1, AppendProperties, LenProperties
<1>5. LogGivenBack' = G
  <2>1. LogGivenBack' = dequeue_pos' - Len(picked')
    BY DEF LogGivenBack
  <2> QED BY <1>1, <1>2, <1>4, <2>1
<1> HIDE DEF D, E, G
<1>6. LogTypeOK'
  <2>1. dequeue_pos' \in Nat /\ E - dequeue_pos' \in 0 .. LogCap
    BY <1>1, <1>2, <1>3
  <2> QED BY <1>1, <1>4, <2>1 DEF LogInv, LogTypeOK, E
<1>7. LogRingInv'
  <2>1. \A i \in 1 .. Len(picked) + 1 : picked'[i] = G + i - 1
    <3>1. \A i \in 1 .. Len(picked) : picked[i] = G + i - 1
      BY <1>4 DEF LogInv, LogRingInv, G
    <3>2. \A i \in 1 .. Len(picked) + 1 : i \in 1 .. Len(picked) \/ i = Len(picked) + 1
      BY <1>2
    <3>3. D = G + (Len(picked) + 1) - 1
      BY <1>2
    <3> QED BY <1>4, <3>1, <3>2, <3>3
  <2>2. \A i \in G .. (D + 1) - 1 : slot_seq[LogSlot(i)] = i + 1
    <3>1. \A i \in G .. D - 1 : slot_seq[LogSlot(i)] = i + 1
      BY DEF LogInv, LogRingInv, G, D
    <3>2. \A i \in G .. (D + 1) - 1 : i \in G .. D - 1 \/ i = D
      BY <1>2
    <3> QED BY <1>1, <3>1, <3>2 DEF D
  <2>3. \A i \in D + 1 .. E - 1 : slot_seq[LogSlot(i)] \in {i, i + 1}
    <3>1. \A i \in D + 1 .. E - 1 : i \in D .. E - 1
      BY <1>2
    <3> QED BY <3>1 DEF LogInv, LogRingInv, D, E
  <2>4. \A i \in E .. G + LogCap - 1 : slot_seq[LogSlot(i)] = i
    BY DEF LogInv, LogRingInv, E, G
  <2> QED BY <1>1, <1>2, <1>4, <1>5, <2>1, <2>2, <2>3, <2>4 DEF LogRingInv, E, D
<1>8. LogContentInv'
  BY <1>1, <1>5 DEF LogInv, LogContentInv, G
<1>9. LogProducerInv'
  <2>1. ASSUME NEW q \in LogProducers, log_pc[q] \in {"copy", "publish"}
        PROVE  log_pos[q] \in D + 1 .. E - 1
    <3>1. log_pos[q] \in D .. E - 1 /\ slot_seq[LogSlot(log_pos[q])] = log_pos[q]
      BY <2>1 DEF LogInv, LogProducerInv, D, E
    <3>2. log_pos[q] # D
      BY <1>1, <1>2, <3>1
    <3> QED BY <1>2, <3>1, <3>2
  <2> QED BY <1>1, <2>1 DEF LogInv, LogProducerInv, LogRecord, D, E
<1>10. LogClaimsInv'
  <2>1. \A i \in D + 1 .. E - 1 : i \in D .. E - 1
    BY <1>2
  <2>2. \A i \in D + 1 .. E - 1 : slot_seq[LogSlot(i)] = i => log_claims[i + 1] \notin log_early
    BY <2>1 DEF LogInv, LogClaimsInv, D, E
  <2> QED BY <1>1, <2>2 DEF LogInv, LogClaimsInv, D, E
<1>11. LogDrainInv'
  <2>1. Len(picked') <= LogBatch
    BY <1>1, <1>2, <1>4, LogBatchAssumption
  <2> QED BY <1>1, <1>5, <2>1 DEF LogInv, LogDrainInv, G
<1>12. LogWrittenInOrder'
  BY <1>1 DEF LogInv, LogWrittenInOrder
<1> QED BY <1>6, <1>7, <1>8, <1>9, <1>10, <1>11, <1>12 DEF LogInv

(* The pass has all it takes.  If it is not a whole batch, the position it *)
(* stops at is not published, so that its record is not early.             *)
LEMMA PickedStep ==
  ASSUME LogInv, DrainPicked
  PROVE  LogInv'
<1>1. /\ drain_pc = "pick"
      /\ Len(picked) = LogBatch \/ slot_seq[LogSlot(dequeue_pos)] < dequeue_pos + 1
      /\ drain_pc' = IF picked = <<>> THEN (IF drain_final THEN "done" ELSE "loop") ELSE "write"
      /\ log_pass' = Len(picked)
      /\ UNCHANGED <<enqueue_pos, dequeue_pos, dropped, log_running, slot_seq, slot_msg,
                     log_slots, log_pc, log_pos, log_calls, drain_final, picked, log_stop,
                     log_out, log_claims, log_early>>
  BY DEF DrainPicked, EndPass, logShared, logProducer
<1>2. LogGivenBack' = LogGivenBack
  BY <1>1, RingUnchanged
<1>3. LogWrittenInOrder' /\ LogRingInv' /\ LogContentInv' /\ LogProducerInv' /\ LogClaimsInv'
  BY <1>1, RingUnchanged
<1>4. Len(picked) \in 0 .. LogBatch
  BY RingTypes, LogBatchAssumption DEF LogInv, LogDrainInv
<1>5. LogTypeOK'
  BY <1>1, <1>4 DEF LogInv, LogTypeOK
<1>6. ASSUME Len(picked) < LogBatch, dequeue_pos < enqueue_pos
      PROVE  log_claims[dequeue_pos + 1] \notin log_early
  <2>1. dequeue_pos \in dequeue_pos .. enqueue_pos - 1 /\ dequeue_pos \in Nat
    BY <1>6, RingTypes
  <2>2. slot_seq[LogSlot(dequeue_pos)] \in {dequeue_pos, dequeue_pos + 1}
    BY <2>1 DEF LogInv, LogRingInv
  <2>3. slot_seq[LogSlot(dequeue_pos)] < dequeue_pos + 1
    BY <1>1, <1>4, <1>6, LogBatchAssumption
  <2>4. slot_seq[LogSlot(dequeue_pos)] = dequeue_pos
    BY <2>1, <2>2, <2>3
  <2> QED BY <2>1, <2>4 DEF LogInv, LogClaimsInv
<1>7. LogDrainInv'
  BY <1>1, <1>2, <1>6 DEF LogInv, LogDrainInv
<1> QED BY <1>3, <1>5, <1>7 DEF LogInv

(* writev gets the records of the pass: those claimed next. *)
LEMMA WriteStep ==
  ASSUME LogInv, DrainWrite
  PROVE  LogInv'
<1> DEFINE G == LogGivenBack
           n == Len(picked)
           pass == [i \in 1 .. n |-> slot_msg[LogSlot(picked[i])]]
<1>1. /\ drain_pc = "write" /\ drain_pc' = "free" /\ log_out' = log_out \o pass
      /\ UNCHANGED <<enqueue_pos, dequeue_pos, dropped, log_running, slot_seq, slot_msg,
                     log_slots, log_pc, log_pos, log_calls, drain_final, picked, log_stop,
                     log_claims, log_early, log_pass>>
  BY DEF DrainWrite, logShared, logProducer
<1>2. /\ enqueue_pos \in Nat /\ dequeue_pos \in Nat /\ G \in Nat /\ n \in Nat
      /\ dequeue_pos <= enqueue_pos /\ G = dequeue_pos - n
      /\ log_claims \in Seq(LogRecords) /\ Len(log_claims) = enqueue_pos
      /\ log_out \in Seq(LogRecords) /\ Len(log_out) = G /\ DOMAIN picked = 1 .. n
  <2>1. Len(log_out) = G
    BY <1>1 DEF LogInv, LogDrainInv
  <2> QED BY <2>1, RingTypes, LenProperties
<1>3. \A i \in 1 .. n : pass[i] = log_claims[G + i] /\ G + i \in 1 .. enqueue_pos
  <2>1. ASSUME NEW i \in 1 .. n
        PROVE  pass[i] = log_claims[G + i] /\ G + i \in 1 .. enqueue_pos
    <3>1. picked[i] = G + i - 1
      BY <1>2 DEF LogInv, LogRingInv
    <3>2. /\ G + i - 1 \in G .. dequeue_pos - 1 /\ G + i - 1 \in G .. enqueue_pos - 1
          /\ (G + i - 1) + 1 = G + i /\ G + i \in 1 .. enqueue_pos
      BY <1>2
    <3>3. slot_seq[LogSlot(G + i - 1)] = (G + i - 1) + 1
      BY <3>2 DEF LogInv, LogRingInv
    <3>4. slot_msg[LogSlot(G + i - 1)] = log_claims[(G + i - 1) + 1]
      BY <3>2, <3>3 DEF LogInv, LogContentInv
    <3> QED BY <3>1, <3>2, <3>4
  <2> QED BY <2>1
<1>4. pass \in Seq(LogRecords) /\ Len(pass) = n
  <2>1. \A i \in 1 .. n : log_claims[G + i] \in LogRecords
    BY <1>2, <1>3, ElementOfSeq
  <2>2. pass \in [1 .. n -> LogRecords]
    BY <1>3, <2>1
  <2>3. pass \in Seq(LogRecords)
    BY <1>2, <2>2, SeqDef
  <2>4. DOMAIN pass = 1 .. n /\ DOMAIN pass = 1 .. Len(pass) /\ Len(pass) \in Nat
    BY <2>2, <2>3, LenProperties
  <2> QED BY <1>2, <2>3, <2>4
<1>5. \A i \in 1 .. G : log_out[i] = log_claims[i]
  BY <1>2, WrittenElements
<1> HIDE DEF pass, G, n
<1>6. /\ log_out' \in Seq(LogRecords) /\ Len(log_out') = G + n
      /\ \A i \in 1 .. G + n :
           log_out'[i] = IF i <= G THEN log_out[i] ELSE pass[i - G]
  BY <1>1, <1>2, <1>4, ConcatProperties
<1>7. \A i \in 1 .. Len(log_out') : log_out'[i] = log_claims[i]
  <2>1. ASSUME NEW i \in 1 .. G + n PROVE log_out'[i] = log_claims[i]
    <3>1. CASE i <= G
      <4>1. i \in 1 .. G
        BY <1>2, <3>1
      <4> QED BY <1>5, <1>6, <3>1, <4>1
    <3>2. CASE i > G
      <4>1. i - G \in 1 .. n /\ G + (i - G) = i /\ ~(i <= G)
        BY <1>2, <3>2
      <4>2. pass[i - G] = log_claims[G + (i - G)]
        BY <1>3, <4>1
      <4> QED BY <1>6, <4>1, <4>2
    <3> QED BY <1>2, <3>1, <3>2
  <2> QED BY <1>6, <2>1
<1>8. LogWrittenInOrder'
  <2>1. Len(log_out') <= Len(log_claims)
    BY <1>2, <1>6
  <2>2. log_out' = SubSeq(log_claims, 1, Len(log_out'))
    BY <1>2, <1>6, <1>7, <2>1, PrefixElements
  <2> QED BY <1>1, <2>2 DEF LogWrittenInOrder
<1>9. LogGivenBack' = G
  BY <1>1 DEF LogGivenBack, G
<1>10. LogRingInv' /\ LogContentInv'
  BY <1>1, <1>9 DEF LogInv, LogRingInv, LogContentInv, G
<1>11. LogProducerInv'
  BY <1>1 DEF LogInv, LogProducerInv, LogRecord
<1>12. LogClaimsInv'
  BY <1>1 DEF LogInv, LogClaimsInv
<1>13. LogTypeOK'
  BY <1>1, <1>6 DEF LogInv, LogTypeOK
<1>14. LogDrainInv'
  <2>1. Len(log_out') = dequeue_pos
    BY <1>2, <1>6
  <2> QED BY <1>1, <2>1 DEF LogInv, LogDrainInv
<1> QED BY <1>8, <1>10, <1>11, <1>12, <1>13, <1>14 DEF LogInv

(* The oldest slot in use is given back for the position one round later. *)
LEMMA FreeStep ==
  ASSUME LogInv, LogCap > 1, DrainFree
  PROVE  LogInv'
<1> DEFINE G == LogGivenBack
           n == Len(picked)
<1>1. /\ drain_pc = "free" /\ picked # <<>>
      /\ slot_seq' = [slot_seq EXCEPT ![LogSlot(Head(picked))] = Head(picked) + LogCap]
      /\ picked' = Tail(picked)
      /\ drain_pc' = IF n = 1 THEN (IF drain_final THEN "done" ELSE "loop") ELSE "free"
      /\ UNCHANGED <<enqueue_pos, dequeue_pos, dropped, log_running, slot_msg, log_slots,
                     log_pc, log_pos, log_calls, drain_final, log_stop, log_out,
                     log_claims, log_early, log_pass>>
  BY DEF DrainFree, EndPass, logProducer, logHistory, LogInv, LogDrainInv
<1>2. /\ enqueue_pos \in Nat /\ dequeue_pos \in Nat /\ G \in Nat /\ n \in Nat
      /\ LogCap \in Nat /\ dequeue_pos <= enqueue_pos /\ enqueue_pos <= G + LogCap
      /\ G = dequeue_pos - n /\ picked \in Seq(Nat)
      /\ slot_seq \in [0 .. LogCap - 1 -> Nat]
  BY RingTypes
<1>3. /\ n >= 1 /\ DOMAIN picked = 1 .. n /\ Head(picked) = picked[1]
      /\ picked' \in Seq(Nat) /\ Len(picked') = n - 1 /\ DOMAIN picked' = 1 .. n - 1
      /\ \A i \in 1 .. n - 1 : picked'[i] = picked[i + 1]
  <2>1. n >= 1
    BY <1>1, <1>2, EmptySeq
  <2>2. /\ Head(picked) = picked[1] /\ Tail(picked) \in Seq(Nat)
        /\ Len(Tail(picked)) = n - 1
        /\ \A i \in 1 .. n - 1 : Tail(picked)[i] = picked[i + 1]
    BY <1>1, <1>2, HeadTailProperties
  <2> QED BY <1>1, <1>2, <2>1, <2>2, LenProperties
<1>4. \A i \in 1 .. n : picked[i] = G + i - 1
  BY <1>3 DEF LogInv, LogRingInv
<1>5. Head(picked) = G
  BY <1>2, <1>3, <1>4
<1>6. LogGivenBack' = G + 1
  <2>1. LogGivenBack' = dequeue_pos' - Len(picked')
    BY DEF LogGivenBack
  <2> QED BY <1>1, <1>2, <1>3, <2>1
<1>7. /\ slot_seq' \in [0 .. LogCap - 1 -> Nat]
      /\ slot_seq'[LogSlot(G + LogCap)] = G + LogCap
      /\ \A i \in G + 1 .. G + LogCap - 1 : slot_seq'[LogSlot(i)] = slot_seq[LogSlot(i)]
  <2>1. LogSlot(G) \in 0 .. LogCap - 1 /\ LogSlot(G + LogCap) = LogSlot(G)
    BY <1>2, SlotInRange, SlotNextRound
  <2>2. ASSUME NEW i \in G + 1 .. G + LogCap - 1
        PROVE  LogSlot(i) \in 0 .. LogCap - 1 /\ LogSlot(G) # LogSlot(i)
    <3>1. i \in Nat /\ G < i /\ i - G < LogCap
      BY <1>2
    <3> QED BY <1>2, <3>1, SlotInRange, SlotDistinct
  <2> QED BY SMTT(30), <1>1, <1>2, <1>5, <2>1, <2>2
<1>8. G < dequeue_pos
  BY <1>2, <1>3
<1> HIDE DEF G, n
<1>9. LogTypeOK'
  BY <1>1, <1>3, <1>7 DEF LogInv, LogTypeOK
<1>10. LogRingInv'
  <2>1. \A i \in 1 .. n - 1 : picked'[i] = (G + 1) + i - 1
    <3>1. \A i \in 1 .. n - 1 : i + 1 \in 1 .. n /\ G + (i + 1) - 1 = (G + 1) + i - 1
      BY <1>2
    <3> QED BY <1>3, <1>4, <3>1
  <2>2. \A i \in G + 1 .. dequeue_pos - 1 : slot_seq'[LogSlot(i)] = i + 1
    <3>1. \A i \in G + 1 .. dequeue_pos - 1 :
             i \in G + 1 .. G + LogCap - 1 /\ i \in G .. dequeue_pos - 1
      BY <1>2
    <3> QED BY <1>7, <3>1 DEF LogInv, LogRingInv, G
  <2>3. \A i \in dequeue_pos .. enqueue_pos - 1 : slot_seq'[LogSlot(i)] \in {i, i + 1}
    <3>1. \A i \in dequeue_pos .. enqueue_pos - 1 : i \in G + 1 .. G + LogCap - 1
      BY <1>2, <1>8
    <3> QED BY <1>7, <3>1 DEF LogInv, LogRingInv
  <2>4. \A i \in enqueue_pos .. (G + 1) + LogCap - 1 : slot_seq'[LogSlot(i)] = i
    <3>1. \A i \in enqueue_pos .. (G + 1) + LogCap - 1 :
             \/ i \in G + 1 .. G + LogCap - 1 /\ i \in enqueue_pos .. G + LogCap - 1
             \/ i = G + LogCap
      BY <1>2, <1>8
    <3>2. \A i \in enqueue_pos .. G + LogCap - 1 : slot_seq[LogSlot(i)] = i
      BY DEF LogInv, LogRingInv, G
    <3> QED BY <1>7, <3>1, <3>2
  <2>5. G + 1 \in Nat /\ enqueue_pos <= (G + 1) + LogCap
    BY <1>2
  <2> QED BY <1>1, <1>3, <1>6, <2>1, <2>2, <2>3, <2>4, <2>5 DEF LogRingInv
<1>11. LogContentInv'
  <2>1. \A i \in G + 1 .. enqueue_pos - 1 :
           i \in G + 1 .. G + LogCap - 1 /\ i \in G .. enqueue_pos - 1
    BY <1>2
  <2> QED BY <1>1, <1>6, <1>7, <2>1 DEF LogInv, LogContentInv, G
<1>12. \A i \in dequeue_pos .. enqueue_pos - 1 : slot_seq'[LogSlot(i)] = slot_seq[LogSlot(i)]
  <2>1. \A i \in dequeue_pos .. enqueue_pos - 1 : i \in G + 1 .. G + LogCap - 1
    BY <1>2, <1>8
  <2> QED BY <1>7, <2>1
<1>13. LogProducerInv'
  <2>1. ASSUME slot_seq[LogSlot(enqueue_pos)] = enqueue_pos
        PROVE  slot_seq'[LogSlot(enqueue_pos)] = enqueue_pos
    <3>1. enqueue_pos < G + LogCap
      BY <2>1, RoomAtFreeSlot DEF G
    <3>2. enqueue_pos \in G + 1 .. G + LogCap - 1
      BY <1>2, <1>8, <3>1
    <3> QED BY <1>7, <2>1, <3>2
  <2> QED BY <1>1, <1>12, <2>1 DEF LogInv, LogProducerInv, LogRecord
<1>14. LogClaimsInv'
  BY <1>1, <1>12 DEF LogInv, LogClaimsInv
<1>15. LogDrainInv'
  <2>1. Len(log_out) = dequeue_pos /\ n <= LogBatch
    BY <1>1 DEF LogInv, LogDrainInv, n
  <2>2. /\ n = 1 => picked' = <<>> /\ G + 1 = dequeue_pos
        /\ n # 1 => picked' # <<>>
        /\ Len(picked') <= LogBatch
    BY <1>2, <1>3, <2>1, EmptySeq, LogBatchAssumption
  <2> QED BY <1>1, <1>6, <2>1, <2>2 DEF LogInv, LogDrainInv
<1>16. LogWrittenInOrder'
  BY <1>1 DEF LogInv, LogWrittenInOrder
<1> QED BY <1>9, <1>10, <1>11, <1>13, <1>14, <1>15, <1>16 DEF LogInv

-----------------------------------------------------------------------------
(* cpx_logq_init establishes the invariant. *)
LEMMA InitInv ==
  ASSUME LogInit
  PROVE  LogInv
<1> USE DEF LogInit
<1>1. LogCap \in Nat /\ LogCap > 0 /\ LogBatch \in Nat
  BY LogCapAssumption, LogBatchAssumption
<1>2. Len(<<>>) = 0 /\ << >> \in Seq(Nat) /\ << >> \in Seq(LogRecords)
  OBVIOUS
<1>3. picked = << >> /\ Len(picked) = 0 /\ dequeue_pos = 0 /\ drain_pc = "loop"
  BY <1>2
<1>4. LogGivenBack = 0
  <2>1. \A d, n : d = 0 /\ n = 0 => d - n = 0
    OBVIOUS
  <2> QED BY <1>3, <2>1 DEF LogGivenBack
<1>5. LogTypeOK
  <2>1. /\ enqueue_pos \in Nat /\ dequeue_pos \in Nat /\ dropped \in Nat
        /\ enqueue_pos - dequeue_pos \in 0 .. LogCap
        /\ log_pass \in 0 .. LogBatch
    BY <1>1
  <2>2. slot_seq \in [0 .. LogCap - 1 -> Nat]
    BY <1>1
  <2>3. /\ slot_msg \in [0 .. LogCap - 1 -> LogRecords \cup {NoRecord}]
        /\ log_pc \in [LogProducers -> {"idle", "seq", "cas", "copy", "publish", "fault"}]
    OBVIOUS
  <2>4. log_pos \in [LogProducers -> Nat] /\ log_calls \in [LogProducers -> 0 .. LogMaxPush]
    BY LogMaxPushAssumption
  <2>5. /\ picked \in Seq(Nat) /\ log_out \in Seq(LogRecords)
        /\ log_claims \in Seq(LogRecords) /\ log_early \subseteq LogRecords
    BY <1>2
  <2>6. /\ log_running \in BOOLEAN /\ log_slots \in {"live", "freed"}
        /\ drain_pc \in {"loop", "pick", "write", "free", "done"}
        /\ drain_final \in BOOLEAN /\ log_stop \in {"no", "join", "stopped"}
    OBVIOUS
  <2> HIDE DEF LogInit
  <2> QED BY <2>1, <2>2, <2>3, <2>4, <2>5, <2>6 DEF LogTypeOK
<1>6. \A i \in 0 .. LogCap - 1 : LogSlot(i) = i
  BY <1>1 DEF LogSlot
<1>7. LogRingInv
  BY <1>1, <1>2, <1>4, <1>6 DEF LogRingInv
<1>8. LogContentInv /\ LogProducerInv /\ LogClaimsInv
  BY <1>1, <1>2, <1>4 DEF LogContentInv, LogProducerInv, LogClaimsInv
<1>9. LogDrainInv
  BY <1>1, <1>2, <1>4 DEF LogDrainInv
<1>10. LogWrittenInOrder
  BY <1>2 DEF LogWrittenInOrder
<1> QED BY <1>5, <1>7, <1>8, <1>9, <1>10 DEF LogInv

(* Every step keeps the invariant. *)
LEMMA StepInv ==
  ASSUME LogCap > 1, LogInv, [LogNext]_logVars
  PROVE  LogInv'
<1>1. ASSUME NEW p \in LogProducers, LogClaim(p) PROVE LogInv'
  <2>1. CASE enqueue_pos = log_pos[p] /\ enqueue_pos' = enqueue_pos + 1
             /\ log_claims' = Append(log_claims, LogRecord(p))
             /\ LogGoto(p, "copy") /\ UNCHANGED log_pos
    BY <1>1, <2>1, ClaimStep DEF LogGoto
  <2>2. CASE UNCHANGED <<enqueue_pos, log_claims>>
    BY <1>1, <2>2, QuietSteps
  <2> QED BY <1>1, <2>1, <2>2 DEF LogClaim
<1>2. ASSUME NEW p \in LogProducers, LogPushStep(p) PROVE LogInv'
  BY <1>1, <1>2, QuietSteps, CopyStep, PublishStep DEF LogPushStep
<1>3. CASE LogDrainStep
  BY <1>3, ControlStep, PickStep, PickedStep, WriteStep, FreeStep DEF LogDrainStep
<1>4. CASE UNCHANGED logVars
  <2>1. UNCHANGED <<enqueue_pos, dequeue_pos, dropped, log_running, slot_seq, slot_msg,
                    log_slots, log_pc, log_pos, log_calls, drain_pc, drain_final, picked,
                    log_stop, log_out, log_claims, log_early, log_pass>>
    BY <1>4 DEF logVars, logShared, logProducer, logDrain, logHistory
  <2>2. LogTypeOK'
    BY <2>1 DEF LogInv, LogTypeOK
  <2>3. LogDrainInv'
    BY <2>1, RingUnchanged DEF LogInv, LogDrainInv
  <2> QED BY <2>1, <2>2, <2>3, RingUnchanged DEF LogInv
<1> QED BY <1>2, <1>3, <1>4, ControlStep DEF LogNext

(* The inductive invariant holds in every state, for every number of        *)
(* producers, every batch size and every capacity but one.                  *)
THEOREM LogInvariant ==
  ASSUME LogCap > 1
  PROVE  LogSpec => []LogInv
<1>1. LogInit => LogInv
  BY InitInv
<1>2. LogInv /\ [LogNext]_logVars => LogInv'
  BY StepInv
<1> QED BY <1>1, <1>2, PTL DEF LogSpec

(* What reaches the file is what was claimed, in order; a slot has one      *)
(* owner; and at the end of the drain thread no accepted record is left     *)
(* behind but by a full batch or a slower producer in front of it.          *)
THEOREM LogQueueSafe ==
  ASSUME LogCap > 1
  PROVE  LogSpec => []LogSafe
<1>1. LogInv => LogSafe
  <2> SUFFICES ASSUME LogInv PROVE LogSafe
    OBVIOUS
  <2>1. LogSlotOwned
    <3>1. ASSUME NEW p \in LogProducers, log_pc[p] \in {"copy", "publish"}
          PROVE  log_pos[p] \in dequeue_pos .. enqueue_pos - 1
      BY <3>1 DEF LogInv, LogProducerInv
    <3>2. ASSUME NEW p \in LogProducers, NEW q \in LogProducers,
                 log_pc[p] \in {"copy", "publish"}, log_pc[q] \in {"copy", "publish"},
                 LogSlot(log_pos[p]) = LogSlot(log_pos[q])
          PROVE  p = q
      <4>1. /\ log_pos[p] \in LogGivenBack .. LogGivenBack + LogCap - 1
            /\ log_pos[q] \in LogGivenBack .. LogGivenBack + LogCap - 1
        BY <3>1, <3>2, RoundSlots
      <4>2. log_pos[p] = log_pos[q]
        BY <3>2, <4>1, RoundDistinct
      <4> QED BY <3>2, <4>2, FillersDistinct
    <3>3. ASSUME NEW p \in LogProducers, log_pc[p] \in {"copy", "publish"},
                 NEW i \in DOMAIN picked
          PROVE  LogSlot(picked[i]) # LogSlot(log_pos[p])
      <4>1. /\ i \in 1 .. Len(picked) /\ picked[i] = LogGivenBack + i - 1
            /\ Len(picked) \in Nat /\ LogGivenBack \in Nat /\ LogCap \in Nat
            /\ dequeue_pos \in Nat /\ dequeue_pos <= enqueue_pos
            /\ enqueue_pos \in Nat /\ enqueue_pos <= LogGivenBack + LogCap
            /\ LogGivenBack = dequeue_pos - Len(picked)
        BY RingTypes, LenProperties DEF LogInv, LogRingInv
      <4>2. /\ picked[i] \in LogGivenBack .. LogGivenBack + LogCap - 1
            /\ picked[i] < dequeue_pos
        BY <4>1
      <4>3. /\ log_pos[p] \in LogGivenBack .. LogGivenBack + LogCap - 1
            /\ log_pos[p] \in dequeue_pos .. enqueue_pos - 1
        BY <3>1, <3>3, RoundSlots
      <4>4. picked[i] # log_pos[p]
        BY <4>1, <4>2, <4>3
      <4> QED BY <4>2, <4>3, <4>4, RoundDistinct
    <3> QED BY <3>2, <3>3 DEF LogSlotOwned
  <2>2. LogFlushed
    <3>1. SUFFICES ASSUME drain_pc = "done", log_pass < LogBatch,
                          Len(log_out) < Len(log_claims)
                   PROVE  log_claims[Len(log_out) + 1] \notin log_early
      BY DEF LogFlushed
    <3>2. Len(log_out) = LogGivenBack /\ picked = << >> /\ drain_final
      BY <3>1 DEF LogInv, LogDrainInv
    <3>3. LogGivenBack = dequeue_pos
      BY <3>2, RingTypes
    <3>4. dequeue_pos < enqueue_pos
      BY <3>1, <3>2, <3>3, RingTypes
    <3> QED BY <3>1, <3>2, <3>3, <3>4 DEF LogInv, LogDrainInv
  <2> QED BY <2>1, <2>2 DEF LogInv, LogSafe
<1> QED BY <1>1, LogInvariant, PTL

(* A record is dropped only when every slot is taken, however stale the     *)
(* position that its producer compares with.                                *)
THEOREM LogDropsWhenFull ==
  ASSUME LogCap > 1
  PROVE  LogSpec => LogDropOnlyWhenFull
<1>1. ASSUME LogInv, [LogNext]_logVars, dropped' # dropped
      PROVE  enqueue_pos - LogGivenBack = LogCap
  <2>1. \E p \in LogProducers : LogLoadSeq(p)
    BY <1>1 DEF LogNext, LogPushStep, LogDrainStep, LogPush, LogClaim, LogCopy, LogPublish,
                LogFault, DrainLoop, DrainPick, DrainPicked, DrainWrite, DrainFree,
                LogShutdown, LogFreeSlots, logVars, logShared
  <2>2. PICK p \in LogProducers : LogLoadSeq(p)
    BY <2>1
  <2> DEFINE k == log_pos[p]
             G == LogGivenBack
  <2>3. /\ log_pc[p] = "seq" /\ slot_seq[LogSlot(k)] - k < 0
    BY <1>1, <2>2 DEF LogLoadSeq
  <2>4. k \in Nat /\ k <= enqueue_pos
    BY <1>1, <2>3 DEF LogInv, LogTypeOK, LogProducerInv
  <2>5. /\ LogCap \in Nat /\ LogCap > 0 /\ G \in Nat /\ dequeue_pos \in Nat
        /\ enqueue_pos \in Nat /\ G <= dequeue_pos /\ dequeue_pos <= enqueue_pos
        /\ enqueue_pos <= G + LogCap
    BY <1>1, RingTypes
  <2>6. PICK i \in G .. G + LogCap - 1 : LogSlot(i) = LogSlot(k)
    BY <2>4, <2>5, SlotInRound
  <2>7. slot_seq[LogSlot(i)] \in {i, i + 1}
    <3>1. CASE i \in G .. dequeue_pos - 1
      BY <1>1, <3>1 DEF LogInv, LogRingInv
    <3>2. CASE i \in dequeue_pos .. enqueue_pos - 1
      BY <1>1, <3>2 DEF LogInv, LogRingInv
    <3>3. CASE i \in enqueue_pos .. G + LogCap - 1
      BY <1>1, <3>3 DEF LogInv, LogRingInv
    <3> QED BY <2>5, <3>1, <3>2, <3>3
  <2> HIDE DEF k, G
  <2>8. i < k
    BY <2>3, <2>4, <2>5, <2>6, <2>7
  <2>9. ~(k - i < LogCap)
    BY <2>4, <2>5, <2>6, <2>8, SlotDistinct
  <2>10. enqueue_pos - G = LogCap
    BY <2>4, <2>5, <2>6, <2>8, <2>9
  <2> QED BY <2>10 DEF G
<1>2. LogInv /\ [LogNext]_logVars
        => [dropped' # dropped => enqueue_pos - LogGivenBack = LogCap]_logVars
  BY <1>1
<1> QED BY <1>2, LogInvariant, PTL DEF LogSpec, LogDropOnlyWhenFull

-----------------------------------------------------------------------------
(* The network thread pool: values, remainders, locals.                     *)

(* NULL, the stub of the queue and the tasks are different values. *)
LEMMA NetValues ==
  /\ Null \notin NetTasks /\ Stub \notin NetTasks /\ Null # Stub /\ Null \notin NetNodes
  /\ NetTasks \subseteq NetNodes /\ Stub \in NetNodes
  /\ \A k \in NetTasks : k[1] \in NetClients /\ k[2] \in 1 .. NetSubmits /\ k = <<k[1], k[2]>>
<1>1. Null # Stub
  BY DEF Null, Stub
<1>2. \A k \in NetTasks : k[1] \in NetClients /\ k[2] \in 1 .. NetSubmits /\ k = <<k[1], k[2]>>
  BY DEF NetTasks
<1>3. \A a, b : <<a, b>> # Null /\ <<a, b>> # Stub
  BY DEF Null, Stub
<1> QED BY <1>1, <1>2, <1>3 DEF NetNodes

(* Indices less than the size apart lie in different places of a buffer. *)
LEMMA NetModDistinct ==
  ASSUME NEW n \in Nat \ {0}, NEW i \in Int, NEW j \in Int, i < j, j - i < n
  PROVE  i % n # j % n
<1>1. SUFFICES ASSUME i % n = j % n PROVE FALSE
  OBVIOUS
<1> DEFINE q == i \div n
           r == j \div n
           m == i % n
<1>2. q \in Int /\ r \in Int /\ m \in Int /\ i = n * q + m /\ j = n * r + m
  BY <1>1, DivModFacts
<1> HIDE DEF q, r, m
<1>3. j - i = n * r - n * q
  BY <1>2
<1>4. n * r - n * q = n * (r - q)
  BY <1>2
<1>5. CASE r - q <= 0
  <2>1. n * (r - q) <= 0
    BY <1>2, <1>5
  <2> QED BY <2>1, <1>3, <1>4
<1>6. CASE r - q >= 1
  <2>1. n * (r - q) >= n
    BY <1>2, <1>6
  <2> QED BY <2>1, <1>3, <1>4
<1> QED BY <1>2, <1>5, <1>6

(* The locals between two calls, and after one of them was set. *)
LEMMA NetNoLocalsType ==
  ASSUME NEW w \in NetWorkers
  PROVE  /\ NetNoLocals(w) \in NetLocals /\ NetNoLocals(w).victim = w
         /\ NetNoLocals(w).task = Null /\ NetNoLocals(w).next = Null
         /\ \A n \in NetNodes : [NetNoLocals(w) EXCEPT !.tail = n] \in NetLocals
         /\ \A k \in NetTasks \cup {Null} :
              /\ [NetNoLocals(w) EXCEPT !.next = k] \in NetLocals
              /\ [NetNoLocals(w) EXCEPT !.task = k] \in NetLocals
BY DEF NetNoLocals, NetLocals, NetNodes

(* What one step of a worker does to the labels and the locals. *)
LEMMA NetMove ==
  ASSUME NetTypeOK, NEW w \in NetWorkers, NEW l \in NetLabels, NEW r \in NetLocals,
         net_wpc' = [net_wpc EXCEPT ![w] = l], net_loc' = [net_loc EXCEPT ![w] = r]
  PROVE  /\ net_wpc' \in [NetWorkers -> NetLabels] /\ net_loc' \in [NetWorkers -> NetLocals]
         /\ net_wpc'[w] = l /\ net_loc'[w] = r
         /\ \A v \in NetWorkers : v # w => net_wpc'[v] = net_wpc[v] /\ net_loc'[v] = net_loc[v]
BY DEF NetTypeOK

(* Sizes, positions and entries of the deques are numbers and tasks. *)
LEMMA NetDequeTypes ==
  ASSUME NetInv, NEW w \in NetWorkers
  PROVE  /\ dq_cap[w] \in Nat \ {0} /\ NetBufCap(w) \in Nat \ {0} /\ dq_cap[w] <= NetBufCap(w)
         /\ dq_top[w] \in Nat /\ dq_bottom[w] \in Int /\ NetEnd(w) \in Int
         /\ dq_top[w] <= NetEnd(w) /\ NetEnd(w) - dq_top[w] <= dq_cap[w] - 1
         /\ dq_bottom[w] <= NetEnd(w) /\ NetEnd(w) <= dq_bottom[w] + 1
         /\ \A i \in Int : NetEntry(w, i) \in NetTasks \cup {Null}
         /\ \A i \in NetLive(w) : i \in Int /\ NetEntry(w, i) \in NetTasks
<1>1. /\ dq_cap[w] \in Nat \ {0} /\ dq_top[w] \in Nat /\ dq_bottom[w] \in Int
      /\ dq_buf[w] \in [0 .. NetBufCap(w) - 1 -> NetTasks \cup {Null}]
      /\ NetWindowInv(w)
  BY DEF NetInv, NetTypeOK
<1>2. NetBufCap(w) \in Nat \ {0} /\ dq_cap[w] <= NetBufCap(w)
  BY <1>1 DEF NetBufCap
<1>3. NetEnd(w) \in Int /\ dq_bottom[w] <= NetEnd(w) /\ NetEnd(w) <= dq_bottom[w] + 1
  BY <1>1 DEF NetEnd
<1>4. \A i \in Int : NetEntry(w, i) \in NetTasks \cup {Null}
  BY <1>1, <1>2, DivModFacts DEF NetEntry
<1>5. \A i \in NetLive(w) : i \in Int /\ NetEntry(w, i) \in NetTasks
  BY <1>1, <1>3 DEF NetWindowInv, NetLive
<1> QED BY <1>1, <1>2, <1>3, <1>4, <1>5 DEF NetWindowInv

(* A step of w that leaves the deques of the others alone, but for a steal, *)
(* leaves what the others have seen valid.                                  *)
LEMMA NetFrame ==
  ASSUME NetInv, NEW w \in NetWorkers, NEW l \in NetLabels, NEW r \in NetLocals,
         net_wpc' = [net_wpc EXCEPT ![w] = l], net_loc' = [net_loc EXCEPT ![w] = r],
         dq_top' \in [NetWorkers -> Nat], dq_bottom' \in [NetWorkers -> Int],
         dq_cap' \in [NetWorkers -> Nat \ {0}], DOMAIN dq_buf' = NetWorkers,
         dq_buf'[w] \in [0 .. NetBufCap(w)' - 1 -> NetTasks \cup {Null}],
         \A v \in NetWorkers : dq_top[v] <= dq_top'[v],
         \A v \in NetWorkers : v # w =>
           /\ dq_bottom'[v] = dq_bottom[v] /\ dq_cap'[v] = dq_cap[v] /\ dq_buf'[v] = dq_buf[v]
           /\ dq_top'[v] <= NetEnd(v),
         NetBufCap(w) <= NetBufCap(w)',
         dq_top'[w] = dq_top[w] /\ dq_top[w] < NetEnd(w) =>
           /\ dq_top[w] < NetEnd(w)' /\ NetEntry(w, dq_top[w])' = NetEntry(w, dq_top[w]),
         net_torn => net_torn',
         NetLocalInv(w)', NetWindowInv(w)', NetThiefInv(w)'
  PROVE  /\ \A v \in NetWorkers : NetLocalInv(v)' /\ NetWindowInv(v)' /\ NetThiefInv(v)'
         /\ \A v \in NetWorkers : dq_bottom'[v] >= dq_top'[v] - 1
         /\ \A v \in NetWorkers : dq_buf'[v] \in [0 .. NetBufCap(v)' - 1 -> NetTasks \cup {Null}]
<1>1. /\ net_wpc'[w] = l /\ net_loc'[w] = r
      /\ \A v \in NetWorkers : v # w => net_wpc'[v] = net_wpc[v] /\ net_loc'[v] = net_loc[v]
  BY NetMove DEF NetInv
<1>2. \A v \in NetWorkers : v # w =>
        /\ NetEnd(v)' = NetEnd(v) /\ NetBufCap(v)' = NetBufCap(v)
        /\ \A i : NetEntry(v, i)' = NetEntry(v, i)
  BY <1>1 DEF NetEnd, NetBufCap, NetEntry, NetPopping, NetAt, NetLoc
<1>3. \A v \in NetWorkers : /\ NetBufCap(v) \in Nat \ {0} /\ NetBufCap(v)' \in Nat \ {0}
                            /\ NetBufCap(v) <= NetBufCap(v)'
  <2>1. \A v \in NetWorkers : NetBufCap(v)' \in Nat \ {0}
    BY DEF NetBufCap
  <2>2. \A v \in NetWorkers : NetBufCap(v) \in Nat \ {0}
    BY NetDequeTypes
  <2>3. ASSUME NEW v \in NetWorkers PROVE NetBufCap(v) <= NetBufCap(v)'
    <3>1. CASE v = w
      BY <3>1
    <3>2. CASE v # w
      <4>1. NetBufCap(v)' = NetBufCap(v) /\ NetBufCap(v) \in Int
        BY <1>2, <2>2, <3>2
      <4> QED BY <4>1
    <3> QED BY <3>1, <3>2
  <2> QED BY <2>1, <2>2, <2>3
<1>4. \A v \in NetWorkers : dq_top'[v] = dq_top[v] /\ dq_top[v] < NetEnd(v) =>
        dq_top[v] < NetEnd(v)' /\ NetEntry(v, dq_top[v])' = NetEntry(v, dq_top[v])
  BY ZenonT(60), <1>2
<1>5. ASSUME NEW v \in NetWorkers, v # w
      PROVE  NetLocalInv(v)' /\ NetWindowInv(v)' /\ NetThiefInv(v)'
  <2>1. NetLocalInv(v) /\ NetWindowInv(v) /\ NetThiefInv(v) /\ NetLoc(v) \in NetLocals
    BY DEF NetInv, NetTypeOK, NetLoc
  <2>2. NetLoc(v)' = NetLoc(v) /\ \A S : NetAt(v, S)' <=> NetAt(v, S)
    BY <1>1, <1>5 DEF NetLoc, NetAt
  <2>3. NetLoc(v).victim \in NetWorkers /\ NetLoc(v).cap \in Nat /\ NetLoc(v).t \in Nat
    BY <2>1 DEF NetLocals
  <2>4. NetLocalInv(v)'
    <3>1. PICK u \in NetWorkers : u = NetLoc(v).victim
      BY <2>3
    <3>2. NetAt(v, {"buf"})' => NetLoc(v)'.cap \in 1 .. NetBufCap(u)'
      <4>1. NetAt(v, {"buf"}) => NetLoc(v).cap \in 1 .. NetBufCap(u)
        BY <2>1, <3>1 DEF NetLocalInv
      <4>2. NetBufCap(u) \in Nat /\ NetBufCap(u)' \in Nat /\ NetBufCap(u) <= NetBufCap(u)'
        BY <1>3
      <4> QED BY <2>2, <2>3, <4>1, <4>2
    <3>3. NetLoc(v)'.victim = u
      BY <2>2, <3>1
    <3>4. /\ NetAt(v, {"push", "grow", "cap", "store", "run"})' => NetLoc(v)'.task \in NetTasks
          /\ NetAt(v, {"tail"})' => NetLoc(v)'.next \in NetTasks
          /\ NetAt(v, {"bottom", "buf"})' => NetLoc(v)'.victim # v
      BY <2>1, <2>2 DEF NetLocalInv
    <3> QED BY <3>2, <3>3, <3>4 DEF NetLocalInv, NetBufCap
  <2>5. NetWindowInv(v)'
    <3>1. dq_top[v] \in Nat /\ dq_top'[v] \in Nat /\ dq_cap[v] \in Nat /\ NetEnd(v) \in Int
          /\ dq_bottom[v] \in Int
      BY NetDequeTypes
    <3>2. NetEnd(v)' = NetEnd(v) /\ \A i : NetEntry(v, i)' = NetEntry(v, i)
      BY <1>2, <1>5
    <3>3. \A i \in dq_top'[v] .. NetEnd(v) - 1 : i \in dq_top[v] .. NetEnd(v) - 1
      BY <3>1
    <3>4. \A i \in NetLive(v)' : NetEntry(v, i)' \in NetTasks
      BY <2>1, <3>2, <3>3 DEF NetWindowInv, NetLive
    <3>5. dq_top'[v] <= NetEnd(v)' /\ NetEnd(v)' - dq_top'[v] <= dq_cap'[v] - 1
      BY <1>5, <2>1, <3>1, <3>2 DEF NetWindowInv
    <3>6. NetAt(v, {"store"})' => dq_bottom'[v] - dq_top'[v] < dq_cap'[v] - 1
      BY SMTT(30), <1>5, <2>1, <2>2, <3>1 DEF NetWindowInv
    <3>7. NetAt(v, {"cas"})' /\ NetLoc(v)'.victim = v => NetLoc(v)'.t = dq_bottom'[v]
      BY <1>5, <2>1, <2>2 DEF NetWindowInv
    <3> QED BY <3>4, <3>5, <3>6, <3>7 DEF NetWindowInv
  <2>6. NetThiefInv(v)'
    <3>0. PICK u \in NetWorkers : u = NetLoc(v).victim
      BY <2>3
    <3>1. dq_top[u] \in Nat /\ dq_top'[u] \in Nat /\ dq_top[u] <= dq_top'[u] /\ NetLoc(v)'.victim = u
      BY <2>2, <3>0, NetDequeTypes
    <3>2. NetAt(v, {"bottom", "buf", "cas"})' => NetLoc(v)'.t <= dq_top'[u]
      BY <2>1, <2>2, <2>3, <3>0, <3>1 DEF NetThiefInv
    <3>3. ASSUME NetWinning(v)' PROVE NetWinning(v) /\ dq_top'[u] = dq_top[u]
      <4>1. NetAt(v, {"buf", "cas"}) /\ NetLoc(v).t = dq_top'[u]
        BY <2>2, <3>1, <3>3 DEF NetWinning
      <4>2. NetLoc(v).t <= dq_top[u]
        BY <2>1, <3>0, <4>1 DEF NetThiefInv, NetAt
      <4> QED BY <2>3, <3>0, <3>1, <4>1, <4>2 DEF NetWinning
    <3>4. NetWinning(v)' => dq_top'[u] < NetEnd(u)'
      BY <1>4, <2>1, <3>0, <3>3 DEF NetThiefInv
    <3>5. NetWinning(v)' /\ NetAt(v, {"cas"})' /\ ~net_torn' =>
            NetLoc(v)'.task = NetEntry(u, dq_top[u])'
      <4>1. SUFFICES ASSUME NetWinning(v)', NetAt(v, {"cas"})', ~net_torn'
                     PROVE  NetLoc(v)'.task = NetEntry(u, dq_top[u])'
        OBVIOUS
      <4>2. /\ NetLoc(v).task = NetEntry(u, NetLoc(v).t) /\ dq_top[u] < NetEnd(u)
            /\ NetLoc(v).t = dq_top[u]
        BY <2>1, <2>2, <3>0, <3>3, <4>1 DEF NetThiefInv, NetWinning
      <4>3. NetEntry(u, dq_top[u])' = NetEntry(u, dq_top[u])
        BY <1>4, <3>1, <3>3, <4>1, <4>2
      <4> QED BY <2>2, <4>2, <4>3
    <3>6. NetWinning(v)' => NetLoc(v)'.t = dq_top'[u]
      BY <3>1 DEF NetWinning
    <3>7. NetThiefInv(v)' <=>
            /\ NetAt(v, {"bottom", "buf", "cas"})' => NetLoc(v)'.t <= dq_top'[u]
            /\ NetWinning(v)' => dq_top'[u] < NetEnd(u)'
            /\ NetWinning(v)' /\ NetAt(v, {"cas"})' /\ ~net_torn' =>
                 NetLoc(v)'.task = NetEntry(u, dq_top[u])'
      BY <3>1, <3>6 DEF NetThiefInv, NetEnd, NetPopping, NetEntry, NetBufCap
    <3> QED BY <3>2, <3>4, <3>5, <3>7
  <2> QED BY <2>4, <2>5, <2>6
<1>6. \A v \in NetWorkers : NetLocalInv(v)' /\ NetWindowInv(v)' /\ NetThiefInv(v)'
  BY <1>5
<1>7. ASSUME NEW v \in NetWorkers PROVE dq_bottom'[v] >= dq_top'[v] - 1
  <2>1. dq_top'[v] <= NetEnd(v)' /\ dq_bottom'[v] \in Int /\ dq_top'[v] \in Int
    BY <1>6 DEF NetWindowInv
  <2>2. NetEnd(v)' = dq_bottom'[v] \/ NetEnd(v)' = dq_bottom'[v] + 1
    BY DEF NetEnd
  <2> QED BY <2>1, <2>2
<1>8. ASSUME NEW v \in NetWorkers
      PROVE  dq_buf'[v] \in [0 .. NetBufCap(v)' - 1 -> NetTasks \cup {Null}]
  <2>1. CASE v = w
    BY <2>1
  <2>2. CASE v # w
    BY <1>2, <2>2 DEF NetInv, NetTypeOK
  <2> QED BY <2>1, <2>2
<1> QED BY <1>6, <1>7, <1>8

-----------------------------------------------------------------------------
(* What a step that does not touch it leaves valid.                         *)

(* Only a submission changes the links of the queue. *)
LEMMA NetLinkSame ==
  ASSUME NetLinkInv, UNCHANGED <<q_head, q_next, netClient, net_queued>>
  PROVE  NetLinkInv'
BY DEF NetLinkInv, netClient, NetTaskOf

(* The tasks in the deques and in the hands of workers are where they were. *)
LEMMA NetPlaceSame ==
  ASSUME NetPlaceInv, net_ran' = net_ran,
         \A v \in NetWorkers : NetLive(v)' = NetLive(v),
         \A v \in NetWorkers : \A i \in NetLive(v) : NetEntry(v, i)' = NetEntry(v, i),
         \A v \in NetWorkers : \A k \in NetTasks : NetHolds(v, k)' <=> NetHolds(v, k)
  PROVE  NetPlaceInv' /\ NetTaken' = NetTaken
<1>1. \A k : NetInDeque(k)' <=> NetInDeque(k)
  BY DEF NetInDeque
<1>2. NetTaken' = NetTaken
  BY <1>1 DEF NetTaken
<1>3. /\ \A k \in NetTasks : net_ran'[k] <= 1
      /\ \A w \in NetWorkers : \A i \in NetLive(w)' : net_ran'[NetEntry(w, i)'] = 0
  BY DEF NetPlaceInv
<1>4. \A v, w \in NetWorkers : \A i \in NetLive(v)', j \in NetLive(w)' :
        NetEntry(v, i)' = NetEntry(w, j)' => v = w /\ i = j
  BY DEF NetPlaceInv
<1>5. \A w \in NetWorkers : \A k \in NetTasks : NetHolds(w, k)' =>
         /\ net_ran'[k] = 0 /\ ~NetInDeque(k)'
         /\ \A v \in NetWorkers : NetHolds(v, k)' => v = w
  BY <1>1 DEF NetPlaceInv
<1> QED BY <1>2, <1>3, <1>4, <1>5 DEF NetPlaceInv

(* The order of the nodes that were dequeued. *)
LEMMA NetQueueSame ==
  ASSUME NetQueueInv, NetTaken' = NetTaken, UNCHANGED <<q_tail, q_next>>,
         \A v \in NetWorkers : NetAt(v, {"next"})' => NetLoc(v)'.tail = q_tail,
         \A v \in NetWorkers : NetAt(v, {"tail"})' => NetLoc(v)'.next = q_next[q_tail]
  PROVE  NetQueueInv'
BY DEF NetQueueInv

(* The tasks that were counted, and those that ran. *)
LEMMA NetCountSame ==
  ASSUME NetCountInv, UNCHANGED <<pending_count, net_queued, net_cpc, net_sent, net_ran, net_early>>
  PROVE  NetCountInv'
<1>1. NetCounted' = NetCounted
  BY DEF NetCounted, NetUncounted, NetTaskOf
<1>2. NetRan' = NetRan
  BY DEF NetRan
<1> QED BY <1>1, <1>2 DEF NetCountInv

(* A step of a worker, which is awake, keeps the condition of sleep. *)
LEMMA NetSleepStep ==
  ASSUME NetTypeOK, NetSleepInv, NEW w \in NetWorkers, w \notin net_asleep, NEW l \in NetLabels,
         net_wpc' = [net_wpc EXCEPT ![w] = l], net_running' = net_running,
         l = "exit" => ~net_running, UNCHANGED <<net_cpc, net_spent>>,
         \/ net_asleep' = net_asleep
         \/ net_asleep' = net_asleep \cup {w} /\ pending_count' = 0 /\ l # "exit"
  PROVE  NetSleepInv'
<1>1. net_wpc'[w] = l /\ \A v \in NetWorkers : v # w => net_wpc'[v] = net_wpc[v]
  BY DEF NetTypeOK
<1>2. CASE net_asleep' = net_asleep
  BY <1>1, <1>2 DEF NetSleepInv
<1>3. CASE net_asleep' = net_asleep \cup {w} /\ pending_count' = 0 /\ l # "exit"
  BY <1>1, <1>3 DEF NetSleepInv
<1> QED BY <1>2, <1>3

(* A step of a worker that runs no task and moves none: loads, tests, the   *)
(* reservation of a pop and its end, and the publication of a new buffer.   *)
LEMMA NetQuiet ==
  ASSUME NetInv, NEW w \in NetWorkers, w \notin net_asleep,
         NEW l \in NetLabels, NEW r \in NetLocals,
         net_wpc' = [net_wpc EXCEPT ![w] = l], net_loc' = [net_loc EXCEPT ![w] = r],
         UNCHANGED <<netQueue, dq_top, pending_count, net_running, netClient>>,
         UNCHANGED <<net_queued, net_ran, net_raced, net_early, net_spent>>,
         \/ net_asleep' = net_asleep
         \/ net_asleep' = net_asleep \cup {w} /\ pending_count = 0 /\ l # "exit",
         l = "exit" => ~net_running,
         net_torn' \in BOOLEAN, net_late' \in BOOLEAN, net_torn => net_torn',
         dq_bottom' \in [NetWorkers -> Int], dq_cap' \in [NetWorkers -> Nat \ {0}],
         DOMAIN dq_buf' = NetWorkers,
         dq_buf'[w] \in [0 .. NetBufCap(w)' - 1 -> NetTasks \cup {Null}],
         \A v \in NetWorkers : v # w =>
           dq_bottom'[v] = dq_bottom[v] /\ dq_cap'[v] = dq_cap[v] /\ dq_buf'[v] = dq_buf[v],
         NetBufCap(w) <= NetBufCap(w)', dq_cap[w] <= dq_cap'[w], NetEnd(w)' = NetEnd(w),
         \A i \in NetLive(w) : NetEntry(w, i)' = NetEntry(w, i),
         l = "store" => dq_bottom'[w] - dq_top[w] < dq_cap'[w] - 1,
         l = "cas" /\ r.victim = w => r.t = dq_bottom'[w],
         NetLocalInv(w)', NetThiefInv(w)',
         \A k \in NetTasks : NetHolds(w, k)' <=> NetHolds(w, k),
         ~net_torn' /\ NetClean => /\ l = "next" => r.tail = q_tail
                                   /\ l = "tail" => r.next = q_next[q_tail]
  PROVE  NetInv'
<1>1. /\ net_wpc' \in [NetWorkers -> NetLabels] /\ net_loc' \in [NetWorkers -> NetLocals]
      /\ net_wpc'[w] = l /\ net_loc'[w] = r
      /\ \A v \in NetWorkers : v # w => net_wpc'[v] = net_wpc[v] /\ net_loc'[v] = net_loc[v]
  BY NetMove DEF NetInv
<1>2. NetLive(w)' = NetLive(w)
  BY DEF NetLive
<1>3. NetWindowInv(w)'
  <2>1. /\ dq_top[w] <= NetEnd(w) /\ NetEnd(w) - dq_top[w] <= dq_cap[w] - 1
        /\ dq_top[w] \in Int /\ NetEnd(w) \in Int /\ dq_cap[w] \in Int /\ dq_cap'[w] \in Int
    BY NetDequeTypes
  <2>2. dq_top'[w] <= NetEnd(w)' /\ NetEnd(w)' - dq_top'[w] <= dq_cap'[w] - 1
    BY <2>1
  <2>3. \A i \in NetLive(w)' : NetEntry(w, i)' \in NetTasks
    BY <1>2, NetDequeTypes
  <2> QED BY <1>1, <2>2, <2>3 DEF NetWindowInv, NetAt, NetLoc
<1>4. /\ \A v \in NetWorkers : NetLocalInv(v)' /\ NetWindowInv(v)' /\ NetThiefInv(v)'
      /\ \A v \in NetWorkers : dq_bottom'[v] >= dq_top'[v] - 1
      /\ \A v \in NetWorkers : dq_buf'[v] \in [0 .. NetBufCap(v)' - 1 -> NetTasks \cup {Null}]
  <2>1. /\ dq_top' \in [NetWorkers -> Nat]
        /\ \A v \in NetWorkers : dq_top[v] <= dq_top'[v] /\ dq_top'[v] <= NetEnd(v)
    <3>1. dq_top' = dq_top /\ dq_top \in [NetWorkers -> Nat]
      BY DEF NetInv, NetTypeOK
    <3>2. \A v \in NetWorkers : dq_top[v] \in Int /\ dq_top[v] <= NetEnd(v)
      BY NetDequeTypes
    <3> QED BY <3>1, <3>2
  <2>2. dq_top'[w] = dq_top[w] /\ dq_top[w] < NetEnd(w) =>
          dq_top[w] < NetEnd(w)' /\ NetEntry(w, dq_top[w])' = NetEntry(w, dq_top[w])
    <3>1. dq_top' = dq_top /\ dq_top[w] \in Int /\ NetEnd(w) \in Int
      BY NetDequeTypes
    <3>2. dq_top[w] < NetEnd(w) => dq_top[w] \in NetLive(w)
      BY <3>1 DEF NetLive
    <3>3. dq_top[w] \in NetLive(w) => NetEntry(w, dq_top[w])' = NetEntry(w, dq_top[w])
      BY <3>1
    <3> QED BY <3>1, <3>2, <3>3
  <2> QED BY <1>3, <2>1, <2>2, NetFrame
<1>5. NetTypeOK'
  <2>1. net_asleep' \subseteq NetWorkers
    BY DEF NetInv, NetTypeOK
  <2> QED BY <1>1, <1>4, <2>1 DEF NetInv, NetTypeOK, netQueue, netClient
<1>6. NetLinkInv'
  BY NetLinkSame DEF NetInv, netQueue
<1>7. NetSleepInv'
  BY NetSleepStep DEF NetInv, netClient
<1>8. NetWaitMeansDone'
  BY DEF NetInv, NetWaitMeansDone, NetClean, netClient
<1>9. ASSUME NetClean' PROVE NetPlaceInv' /\ NetQueueInv' /\ NetCountInv'
  <2>1. NetClean /\ NetPlaceInv /\ NetQueueInv /\ NetCountInv
    BY <1>9 DEF NetInv, NetClean
  <2>2. \A v \in NetWorkers : /\ NetLive(v)' = NetLive(v)
                              /\ \A i \in NetLive(v) : NetEntry(v, i)' = NetEntry(v, i)
                              /\ \A k \in NetTasks : NetHolds(v, k)' <=> NetHolds(v, k)
    <3>1. ASSUME NEW v \in NetWorkers, v # w
          PROVE  /\ NetLive(v)' = NetLive(v) /\ \A i : NetEntry(v, i)' = NetEntry(v, i)
                 /\ \A k \in NetTasks : NetHolds(v, k)' <=> NetHolds(v, k)
      BY <1>1, <3>1 DEF NetLive, NetEnd, NetEntry, NetBufCap, NetPopping, NetAt, NetLoc, NetHolds
    <3> QED BY <1>2, <3>1
  <2>3. NetPlaceInv' /\ NetTaken' = NetTaken
    BY <2>1, <2>2, NetPlaceSame
  <2>4. \A v \in NetWorkers : /\ NetAt(v, {"next"})' => NetLoc(v)'.tail = q_tail
                              /\ NetAt(v, {"tail"})' => NetLoc(v)'.next = q_next[q_tail]
    BY <1>1, <1>9, <2>1 DEF NetAt, NetLoc, NetQueueInv, NetClean
  <2>5. NetQueueInv'
    BY <2>1, <2>3, <2>4, NetQueueSame DEF netQueue
  <2>6. NetCountInv'
    BY <2>1, NetCountSame DEF netClient
  <2> QED BY <2>3, <2>5, <2>6
<1> QED BY <1>4, <1>5, <1>6, <1>7, <1>8, <1>9 DEF NetInv

(* A quiet step that leaves all deques alone. *)
LEMMA NetPlain ==
  ASSUME NetInv, NEW w \in NetWorkers, w \notin net_asleep,
         NEW l \in NetLabels, NEW r \in NetLocals,
         net_wpc' = [net_wpc EXCEPT ![w] = l], net_loc' = [net_loc EXCEPT ![w] = r],
         UNCHANGED <<netQueue, netDeques, pending_count, net_running, netClient>>,
         UNCHANGED <<net_queued, net_ran, net_raced, net_early, net_spent>>,
         \/ net_asleep' = net_asleep
         \/ net_asleep' = net_asleep \cup {w} /\ pending_count = 0 /\ l # "exit",
         l = "exit" => ~net_running,
         net_torn' \in BOOLEAN, net_late' \in BOOLEAN, net_torn => net_torn',
         net_wpc[w] \notin {"cap", "top"}, net_wpc[w] = "cas" => net_loc[w].victim # w,
         l \notin {"cap", "top"},
         l = "cas" => r.victim # w,
         l = "store" => dq_bottom[w] - dq_top[w] < dq_cap[w] - 1,
         l \in {"push", "grow", "store", "run"} => r.task \in NetTasks,
         l = "tail" => r.next \in NetTasks,
         l \in {"bottom", "buf"} => r.victim # w,
         l = "buf" => r.cap \in 1 .. NetBufCap(r.victim),
         l \in {"bottom", "buf", "cas"} => r.t <= dq_top[r.victim],
         l \in {"buf", "cas"} /\ r.t = dq_top[r.victim] => dq_top[r.victim] < NetEnd(r.victim),
         l = "cas" /\ r.t = dq_top[r.victim] /\ ~net_torn' => r.task = NetEntry(r.victim, r.t),
         \A k \in NetTasks : NetHolds(w, k) <=> l \in {"push", "grow", "store", "run"} /\ r.task = k,
         ~net_torn' /\ NetClean => /\ l = "next" => r.tail = q_tail
                                   /\ l = "tail" => r.next = q_next[q_tail]
  PROVE  NetInv'
<1>1. /\ net_wpc'[w] = l /\ net_loc'[w] = r
      /\ \A v \in NetWorkers : v # w => net_wpc'[v] = net_wpc[v] /\ net_loc'[v] = net_loc[v]
  BY NetMove DEF NetInv
<1>2. UNCHANGED <<dq_top, dq_bottom, dq_buf, dq_cap>> /\ r.victim \in NetWorkers
  BY DEF netDeques, NetLocals
<1>3. \A v \in NetWorkers : /\ NetPopping(v)' <=> NetPopping(v)
                            /\ NetAt(v, {"cap"})' <=> NetAt(v, {"cap"})
  BY <1>1 DEF NetPopping, NetAt, NetLoc
<1>4. \A v \in NetWorkers : /\ NetBufCap(v)' = NetBufCap(v) /\ NetEnd(v)' = NetEnd(v)
                            /\ \A i : NetEntry(v, i)' = NetEntry(v, i)
  BY <1>2, <1>3 DEF NetBufCap, NetEnd, NetEntry
<1>5. NetLocalInv(w)'
  <2>1. NetLocalInv(w)' <=>
          /\ l \in {"push", "grow", "cap", "store", "run"} => r.task \in NetTasks
          /\ l \in {"tail"} => r.next \in NetTasks
          /\ l \in {"bottom", "buf"} => r.victim # w
          /\ l \in {"buf"} => r.cap \in 1 .. NetBufCap(r.victim)'
    BY <1>1 DEF NetLocalInv, NetAt, NetLoc, NetBufCap
  <2>2. NetBufCap(r.victim)' = NetBufCap(r.victim)
    BY <1>2, <1>4
  <2> QED BY <2>1, <2>2
<1>6. NetThiefInv(w)'
  <2>1. NetThiefInv(w)' <=>
          /\ l \in {"bottom", "buf", "cas"} => r.t <= dq_top'[r.victim]
          /\ l \in {"buf", "cas"} /\ r.t = dq_top'[r.victim] => dq_top'[r.victim] < NetEnd(r.victim)'
          /\ l \in {"buf", "cas"} /\ r.t = dq_top'[r.victim] /\ l \in {"cas"} /\ ~net_torn' =>
               r.task = NetEntry(r.victim, r.t)'
    BY <1>1 DEF NetThiefInv, NetWinning, NetAt, NetLoc, NetEnd, NetPopping, NetEntry, NetBufCap
  <2>2. NetEnd(r.victim)' = NetEnd(r.victim) /\ NetEntry(r.victim, r.t)' = NetEntry(r.victim, r.t)
    BY <1>2, <1>4
  <2> QED BY <1>2, <2>1, <2>2
<1>7. \A k \in NetTasks : NetHolds(w, k)' <=> NetHolds(w, k)
  BY <1>1 DEF NetHolds, NetAt, NetLoc
<1>8. /\ dq_bottom \in [NetWorkers -> Int] /\ dq_cap \in [NetWorkers -> Nat \ {0}]
      /\ DOMAIN dq_buf = NetWorkers
      /\ dq_buf[w] \in [0 .. NetBufCap(w) - 1 -> NetTasks \cup {Null}]
      /\ NetBufCap(w) \in Nat /\ dq_cap[w] \in Nat
  BY NetDequeTypes DEF NetInv, NetTypeOK
<1>9. /\ dq_bottom' \in [NetWorkers -> Int] /\ dq_cap' \in [NetWorkers -> Nat \ {0}]
      /\ DOMAIN dq_buf' = NetWorkers
      /\ dq_buf'[w] \in [0 .. NetBufCap(w)' - 1 -> NetTasks \cup {Null}]
      /\ NetBufCap(w) <= NetBufCap(w)' /\ dq_cap[w] <= dq_cap'[w]
      /\ \A v \in NetWorkers : v # w =>
           dq_bottom'[v] = dq_bottom[v] /\ dq_cap'[v] = dq_cap[v] /\ dq_buf'[v] = dq_buf[v]
  <2>1. NetBufCap(w)' = NetBufCap(w)
    BY <1>4
  <2> QED BY <1>2, <1>8, <2>1
<1>10. NetEnd(w)' = NetEnd(w) /\ \A i \in NetLive(w) : NetEntry(w, i)' = NetEntry(w, i)
  BY <1>4
<1>11. /\ l = "store" => dq_bottom'[w] - dq_top[w] < dq_cap'[w] - 1
       /\ l = "cas" /\ r.victim = w => r.t = dq_bottom'[w]
  BY <1>2
<1> QED BY <1>2, <1>5, <1>6, <1>7, <1>9, <1>10, <1>11, NetQuiet

(* Locals that stay as they are. *)
LEMMA NetKeep ==
  ASSUME NetTypeOK, NEW w \in NetWorkers, UNCHANGED net_loc
  PROVE  net_loc' = [net_loc EXCEPT ![w] = net_loc[w]] /\ net_loc[w] \in NetLocals
BY DEF NetTypeOK

LEMMA NetLoopStep ==
  ASSUME NetInv, NEW w \in NetWorkers, w \notin net_asleep, NetLoop(w)
  PROVE  NetInv'
<1>1. NetTypeOK /\ net_wpc[w] = "loop" /\ q_tail \in NetNodes
  BY DEF NetLoop, NetAt, NetInv, NetTypeOK
<1>2. /\ UNCHANGED <<netQueue, netDeques, pending_count, net_running, netClient, net_asleep>>
      /\ UNCHANGED <<net_queued, net_ran, net_raced, net_early, net_torn, net_spent, net_late>>
      /\ net_torn \in BOOLEAN /\ net_late \in BOOLEAN
  BY DEF NetLoop, netFlags, netHistory, NetInv, NetTypeOK
<1>3. \A k \in NetTasks : ~NetHolds(w, k)
  BY <1>1 DEF NetHolds, NetAt
<1>4. CASE net_running
  <2>1. PICK r \in NetLocals : r = [NetNoLocals(w) EXCEPT !.tail = q_tail]
    BY <1>1, NetNoLocalsType
  <2>2. r.tail = q_tail
    BY <2>1 DEF NetNoLocals
  <2>3. net_wpc' = [net_wpc EXCEPT ![w] = "next"] /\ net_loc' = [net_loc EXCEPT ![w] = r]
    BY <1>4, <2>1 DEF NetLoop, NetGoto, NetSet
  <2>4. "next" \in NetLabels
    BY DEF NetLabels
  <2> QED BY <1>1, <1>2, <1>3, <2>2, <2>3, <2>4, NetPlain
<1>5. CASE ~net_running
  <2>1. PICK r \in NetLocals : r = net_loc[w] /\ net_loc' = [net_loc EXCEPT ![w] = r]
    BY <1>1, <1>5, NetKeep DEF NetLoop
  <2>2. net_wpc' = [net_wpc EXCEPT ![w] = "exit"] /\ "exit" \in NetLabels
    BY <1>5 DEF NetLoop, NetGoto, NetLabels
  <2> QED BY <1>1, <1>2, <1>3, <1>5, <2>1, <2>2, NetPlain
<1> QED BY <1>4, <1>5

LEMMA NetDequeueNextStep ==
  ASSUME NetInv, NEW w \in NetWorkers, w \notin net_asleep, NetDequeueNext(w)
  PROVE  NetInv'
<1>1. NetTypeOK /\ net_wpc[w] = "next" /\ net_loc[w].tail \in NetNodes
  BY DEF NetDequeueNext, NetAt, NetInv, NetTypeOK, NetLocals
<1>2. /\ UNCHANGED <<netQueue, netDeques, pending_count, net_running, netClient, net_asleep>>
      /\ UNCHANGED <<net_queued, net_ran, net_raced, net_early, net_torn, net_spent, net_late>>
      /\ net_torn \in BOOLEAN /\ net_late \in BOOLEAN
  BY DEF NetDequeueNext, netFlags, netHistory, NetInv, NetTypeOK
<1>3. \A k \in NetTasks : ~NetHolds(w, k)
  BY <1>1 DEF NetHolds, NetAt
<1>4. PICK n \in NetTasks \cup {Null} : n = q_next[net_loc[w].tail]
  BY <1>1 DEF NetTypeOK
<1>5. PICK r \in NetLocals : r = [NetNoLocals(w) EXCEPT !.next = n]
  BY NetNoLocalsType
<1>6. r.next = n
  BY <1>5 DEF NetNoLocals
<1>7. NetClean => n = q_next[q_tail]
  BY <1>1, <1>4 DEF NetInv, NetQueueInv, NetAt, NetLoc
<1>8. net_loc' = [net_loc EXCEPT ![w] = r]
  BY <1>4, <1>5 DEF NetDequeueNext, NetSet, NetLoc
<1>9. CASE n = Null
  <2>1. net_wpc' = [net_wpc EXCEPT ![w] = "pop"] /\ "pop" \in NetLabels
    BY <1>4, <1>9 DEF NetDequeueNext, NetGoto, NetLabels, NetLoc
  <2> QED BY <1>1, <1>2, <1>3, <1>8, <2>1, NetPlain
<1>10. CASE n # Null
  <2>1. net_wpc' = [net_wpc EXCEPT ![w] = "tail"] /\ "tail" \in NetLabels /\ n \in NetTasks
    BY <1>4, <1>10 DEF NetDequeueNext, NetGoto, NetLabels, NetLoc
  <2> QED BY <1>1, <1>2, <1>3, <1>6, <1>7, <1>8, <2>1, NetPlain
<1> QED BY <1>9, <1>10

LEMMA NetPushTestStep ==
  ASSUME NetInv, NEW w \in NetWorkers, w \notin net_asleep, NetPushTest(w)
  PROVE  NetInv'
<1>1. NetTypeOK /\ net_wpc[w] = "push" /\ net_loc[w].task \in NetTasks
  BY DEF NetPushTest, NetAt, NetInv, NetLocalInv, NetLoc
<1>2. /\ UNCHANGED <<netQueue, netDeques, pending_count, net_running, netClient, net_asleep>>
      /\ UNCHANGED <<net_queued, net_ran, net_raced, net_early, net_torn, net_spent, net_late>>
      /\ net_torn \in BOOLEAN /\ net_late \in BOOLEAN
  BY DEF NetPushTest, netFlags, netHistory, NetInv, NetTypeOK
<1>3. PICK r \in NetLocals : r = net_loc[w] /\ net_loc' = [net_loc EXCEPT ![w] = r]
  BY <1>1, NetKeep DEF NetPushTest
<1>4. \A k \in NetTasks : NetHolds(w, k) <=> r.task = k
  BY <1>1, <1>3 DEF NetHolds, NetAt, NetLoc
<1>5. PICK l \in {"grow", "store"} :
        l = IF dq_bottom[w] - dq_top[w] >= dq_cap[w] - 1 THEN "grow" ELSE "store"
  OBVIOUS
<1>6. net_wpc' = [net_wpc EXCEPT ![w] = l] /\ l \in NetLabels
  BY <1>5 DEF NetPushTest, NetGoto, NetLabels
<1>7. l = "store" => dq_bottom[w] - dq_top[w] < dq_cap[w] - 1
  BY <1>5, NetDequeTypes
<1> QED BY <1>1, <1>2, <1>3, <1>4, <1>5, <1>6, <1>7, NetPlain

LEMMA NetStealStep ==
  ASSUME NetInv, NEW w \in NetWorkers, w \notin net_asleep, NetSteal(w)
  PROVE  NetInv'
<1>1. NetTypeOK /\ net_wpc[w] = "steal"
  BY DEF NetSteal, NetAt, NetInv
<1>2. /\ UNCHANGED <<netQueue, netDeques, pending_count, net_running, netClient, net_asleep>>
      /\ UNCHANGED <<net_queued, net_ran, net_raced, net_early, net_torn, net_spent, net_late>>
      /\ net_torn \in BOOLEAN /\ net_late \in BOOLEAN
  BY DEF NetSteal, netFlags, netHistory, NetInv, NetTypeOK
<1>3. \A k \in NetTasks : ~NetHolds(w, k)
  BY <1>1 DEF NetHolds, NetAt
<1>4. CASE NetGoto(w, "idle") /\ UNCHANGED net_loc
  <2>1. PICK r \in NetLocals : r = net_loc[w] /\ net_loc' = [net_loc EXCEPT ![w] = r]
    BY <1>1, <1>4, NetKeep
  <2>2. net_wpc' = [net_wpc EXCEPT ![w] = "idle"] /\ "idle" \in NetLabels
    BY <1>4 DEF NetGoto, NetLabels
  <2> QED BY <1>1, <1>2, <1>3, <2>1, <2>2, NetPlain
<1>5. ASSUME NEW v \in NetWorkers, v # w, NetGoto(w, "bottom"),
             NetSet(w, [NetNoLocals(w) EXCEPT !.victim = v, !.t = dq_top[v]])
      PROVE  NetInv'
  <2>1. dq_top[v] \in Nat
    BY NetDequeTypes
  <2>2. PICK r : r = [NetNoLocals(w) EXCEPT !.victim = v, !.t = dq_top[v]]
    OBVIOUS
  <2>3. r \in NetLocals /\ r.victim = v /\ r.t = dq_top[v]
    BY <2>1, <2>2, NetNoLocalsType DEF NetNoLocals, NetLocals
  <2>4. /\ net_wpc' = [net_wpc EXCEPT ![w] = "bottom"] /\ net_loc' = [net_loc EXCEPT ![w] = r]
        /\ "bottom" \in NetLabels
    BY <1>5, <2>2 DEF NetGoto, NetSet, NetLabels
  <2>5. r.t <= dq_top[r.victim] /\ r.victim # w
    BY <1>5, <2>1, <2>3
  <2> QED BY <1>1, <1>2, <1>3, <2>3, <2>4, <2>5, NetPlain
<1> QED BY <1>4, <1>5 DEF NetSteal

LEMMA NetStealBottomStep ==
  ASSUME NetInv, NEW w \in NetWorkers, w \notin net_asleep, NetStealBottom(w)
  PROVE  NetInv'
<1>1. NetTypeOK /\ net_wpc[w] = "bottom" /\ net_loc[w] \in NetLocals
  BY DEF NetStealBottom, NetAt, NetInv, NetTypeOK
<1>2. /\ UNCHANGED <<netQueue, netDeques, pending_count, net_running, netClient, net_asleep>>
      /\ UNCHANGED <<net_queued, net_ran, net_raced, net_early, net_torn, net_spent, net_late>>
      /\ net_torn \in BOOLEAN /\ net_late \in BOOLEAN
  BY DEF NetStealBottom, netFlags, netHistory, NetInv, NetTypeOK
<1>3. \A k \in NetTasks : ~NetHolds(w, k)
  BY <1>1 DEF NetHolds, NetAt
<1>4. PICK v \in NetWorkers : v = net_loc[w].victim
  BY <1>1 DEF NetLocals
<1>5. CASE net_loc[w].t >= dq_bottom[v]
  <2>1. PICK r \in NetLocals : r = NetNoLocals(w)
    BY NetNoLocalsType
  <2>2. /\ net_wpc' = [net_wpc EXCEPT ![w] = "idle"] /\ net_loc' = [net_loc EXCEPT ![w] = r]
        /\ "idle" \in NetLabels
    BY <1>4, <1>5, <2>1 DEF NetStealBottom, NetGoto, NetFresh, NetSet, NetLabels, NetLoc
  <2> QED BY <1>1, <1>2, <1>3, <2>2, NetPlain
<1>6. CASE ~(net_loc[w].t >= dq_bottom[v])
  <2>1. /\ dq_cap[v] \in Nat \ {0} /\ NetBufCap(v) \in Nat /\ dq_cap[v] <= NetBufCap(v)
        /\ dq_bottom[v] \in Int /\ NetEnd(v) \in Int /\ dq_bottom[v] <= NetEnd(v) /\ dq_top[v] \in Nat
    BY NetDequeTypes
  <2>2. PICK r : r = [net_loc[w] EXCEPT !.cap = dq_cap[v]]
    OBVIOUS
  <2>3. r \in NetLocals /\ r.victim = v /\ r.t = net_loc[w].t /\ r.cap = dq_cap[v] /\ r.t \in Nat
    BY <1>1, <1>4, <2>1, <2>2 DEF NetLocals
  <2>4. /\ net_wpc' = [net_wpc EXCEPT ![w] = "buf"] /\ net_loc' = [net_loc EXCEPT ![w] = r]
        /\ "buf" \in NetLabels
    BY <1>4, <1>6, <2>2 DEF NetStealBottom, NetGoto, NetSet, NetLabels, NetLoc
  <2>5. v # w /\ net_loc[w].t <= dq_top[v]
    BY <1>1, <1>4 DEF NetInv, NetLocalInv, NetThiefInv, NetAt, NetLoc
  <2>6. r.cap \in 1 .. NetBufCap(r.victim)
    BY <2>1, <2>3
  <2>7. r.t = dq_top[r.victim] => dq_top[r.victim] < NetEnd(r.victim)
    BY <1>6, <2>1, <2>3
  <2> QED BY <1>1, <1>2, <1>3, <2>3, <2>4, <2>5, <2>6, <2>7, NetPlain
<1> QED BY <1>5, <1>6

LEMMA NetStealBufStep ==
  ASSUME NetInv, NEW w \in NetWorkers, w \notin net_asleep, NetStealBuf(w)
  PROVE  NetInv'
<1>1. NetTypeOK /\ net_wpc[w] = "buf" /\ net_loc[w] \in NetLocals
  BY DEF NetStealBuf, NetAt, NetInv, NetTypeOK
<1>2. PICK v \in NetWorkers : v = net_loc[w].victim
  BY <1>1 DEF NetLocals
<1>3. /\ UNCHANGED <<netQueue, netDeques, pending_count, net_running, netClient, net_asleep>>
      /\ UNCHANGED <<net_queued, net_ran, net_raced, net_early, net_spent, net_late>>
      /\ net_late \in BOOLEAN /\ net_torn' \in BOOLEAN /\ (net_torn => net_torn')
      /\ ~net_torn' /\ net_loc[w].t = dq_top[v] => net_loc[w].cap = NetBufCap(v)
  BY <1>2 DEF NetStealBuf, netFlags, NetLoc, NetInv, NetTypeOK
<1>4. \A k \in NetTasks : ~NetHolds(w, k)
  BY <1>1 DEF NetHolds, NetAt
<1>5. /\ v # w /\ net_loc[w].t <= dq_top[v] /\ net_loc[w].cap \in 1 .. NetBufCap(v)
      /\ net_loc[w].t = dq_top[v] => dq_top[v] < NetEnd(v)
  BY <1>1, <1>2 DEF NetInv, NetLocalInv, NetThiefInv, NetWinning, NetAt, NetLoc
<1>6. net_loc[w].t % net_loc[w].cap \in 0 .. NetBufCap(v) - 1
  <2>1. net_loc[w].t \in Int /\ NetBufCap(v) \in Nat
    BY <1>1, NetDequeTypes DEF NetLocals
  <2>2. net_loc[w].cap \in Nat \ {0} /\ net_loc[w].cap <= NetBufCap(v)
    BY <1>5, <2>1
  <2>3. net_loc[w].t % net_loc[w].cap \in 0 .. net_loc[w].cap - 1
    BY <2>1, <2>2, DivModFacts
  <2> QED BY <2>1, <2>2, <2>3
<1>7. PICK k \in NetTasks \cup {Null} : k = dq_buf[v][net_loc[w].t % net_loc[w].cap]
  BY <1>1, <1>6 DEF NetTypeOK
<1>8. PICK r : r = [net_loc[w] EXCEPT !.task = k, !.cap = 0]
  OBVIOUS
<1>9. r \in NetLocals /\ r.victim = v /\ r.t = net_loc[w].t /\ r.task = k
  BY <1>1, <1>2, <1>8 DEF NetLocals
<1>10. /\ net_wpc' = [net_wpc EXCEPT ![w] = "cas"] /\ net_loc' = [net_loc EXCEPT ![w] = r]
       /\ "cas" \in NetLabels
  BY <1>2, <1>7, <1>8 DEF NetStealBuf, NetGoto, NetSet, NetLabels, NetLoc
<1>11. r.t = dq_top[r.victim] /\ ~net_torn' => r.task = NetEntry(r.victim, r.t)
  BY <1>3, <1>7, <1>9 DEF NetEntry
<1> QED BY <1>1, <1>3, <1>4, <1>5, <1>9, <1>10, <1>11, NetPlain

LEMMA NetIdleStep ==
  ASSUME NetInv, NEW w \in NetWorkers, w \notin net_asleep, NetIdle(w) \/ NetFutexWait(w)
  PROVE  NetInv'
<1>1. NetTypeOK /\ net_wpc[w] \in {"idle", "wait"}
  BY DEF NetIdle, NetFutexWait, NetAt, NetInv
<1>2. /\ UNCHANGED <<netQueue, netDeques, pending_count, net_running, netClient>>
      /\ UNCHANGED <<net_queued, net_ran, net_raced, net_early, net_spent, net_torn>>
      /\ net_torn \in BOOLEAN /\ net_late' \in BOOLEAN
      /\ \/ net_asleep' = net_asleep
         \/ net_asleep' = net_asleep \cup {w} /\ pending_count = 0
  BY DEF NetIdle, NetFutexWait, netFlags, netHistory, NetInv, NetTypeOK
<1>3. \A k \in NetTasks : ~NetHolds(w, k)
  BY <1>1 DEF NetHolds, NetAt
<1>4. PICK r \in NetLocals : r = net_loc[w] /\ net_loc' = [net_loc EXCEPT ![w] = r]
  BY <1>1, NetKeep DEF NetIdle, NetFutexWait
<1>5. PICK l \in {"loop", "wait"} : net_wpc' = [net_wpc EXCEPT ![w] = l]
  BY DEF NetIdle, NetFutexWait, NetGoto
<1>6. l \in NetLabels
  BY DEF NetLabels
<1> QED BY <1>1, <1>2, <1>3, <1>4, <1>5, <1>6, NetPlain

-----------------------------------------------------------------------------
(* Steps on the own deque that move no task.                                *)

(* A quiet step that may change the end and the label of the own deque, and *)
(* not its buffer.                                                          *)
LEMMA NetOwn ==
  ASSUME NetInv, NEW w \in NetWorkers, w \notin net_asleep,
         NEW l \in NetLabels, NEW r \in NetLocals, NEW b \in Int, NEW c \in Nat \ {0},
         net_wpc' = [net_wpc EXCEPT ![w] = l], net_loc' = [net_loc EXCEPT ![w] = r],
         dq_bottom' = [dq_bottom EXCEPT ![w] = b], dq_cap' = [dq_cap EXCEPT ![w] = c],
         UNCHANGED <<netQueue, dq_top, dq_buf, netFlags, netClient, netHistory>>,
         NetBufCap(w)' = NetBufCap(w), NetEnd(w)' = NetEnd(w), dq_cap[w] <= c,
         l = "store" => b - dq_top[w] < c - 1,
         l = "cas" => r.victim = w /\ r.t = b /\ r.t = dq_top[w] /\ r.task = NetEntry(w, b)
                      /\ dq_top[w] < NetEnd(w),
         l \notin {"next", "tail", "bottom", "buf"},
         l \in {"push", "grow", "cap", "store", "run"} => r.task \in NetTasks,
         \A k \in NetTasks : NetHolds(w, k) <=>
           l \in {"push", "grow", "cap", "store", "run"} /\ r.task = k,
         l # "exit"
  PROVE  NetInv'
<1>1. /\ net_wpc'[w] = l /\ net_loc'[w] = r
      /\ \A v \in NetWorkers : v # w => net_wpc'[v] = net_wpc[v] /\ net_loc'[v] = net_loc[v]
  BY NetMove DEF NetInv
<1>2. /\ dq_bottom \in [NetWorkers -> Int] /\ dq_cap \in [NetWorkers -> Nat \ {0}]
      /\ DOMAIN dq_buf = NetWorkers
      /\ dq_buf[w] \in [0 .. NetBufCap(w) - 1 -> NetTasks \cup {Null}]
      /\ NetBufCap(w) \in Nat /\ dq_cap[w] \in Nat /\ net_torn \in BOOLEAN /\ net_late \in BOOLEAN
  BY NetDequeTypes DEF NetInv, NetTypeOK
<1>3. /\ dq_bottom' \in [NetWorkers -> Int] /\ dq_cap' \in [NetWorkers -> Nat \ {0}]
      /\ dq_bottom'[w] = b /\ dq_cap'[w] = c
      /\ \A v \in NetWorkers : v # w => dq_bottom'[v] = dq_bottom[v] /\ dq_cap'[v] = dq_cap[v]
  BY <1>2
<1>4. /\ DOMAIN dq_buf' = NetWorkers
      /\ dq_buf'[w] \in [0 .. NetBufCap(w)' - 1 -> NetTasks \cup {Null}]
      /\ NetBufCap(w) <= NetBufCap(w)' /\ dq_cap[w] <= dq_cap'[w]
  BY <1>2, <1>3
<1>5. \A i : NetEntry(w, i)' = NetEntry(w, i)
  BY DEF NetEntry
<1>6. NetLocalInv(w)'
  BY <1>1 DEF NetLocalInv, NetAt, NetLoc
<1>7. NetThiefInv(w)'
  <2>1. CASE l # "cas"
    BY <1>1, <2>1 DEF NetThiefInv, NetWinning, NetAt, NetLoc
  <2>2. CASE l = "cas"
    <3>1. r.t <= dq_top'[w] /\ dq_top'[w] < NetEnd(w)' /\ r.task = NetEntry(w, r.t)'
      BY <1>5, <2>2, NetDequeTypes
    <3>2. NetThiefInv(w)' <=>
            /\ l \in {"bottom", "buf", "cas"} => r.t <= dq_top'[r.victim]
            /\ l \in {"buf", "cas"} /\ r.t = dq_top'[r.victim] =>
                 dq_top'[r.victim] < NetEnd(r.victim)'
            /\ l \in {"buf", "cas"} /\ r.t = dq_top'[r.victim] /\ l \in {"cas"} /\ ~net_torn' =>
                 r.task = NetEntry(r.victim, r.t)'
      BY <1>1 DEF NetThiefInv, NetWinning, NetAt, NetLoc, NetEnd, NetPopping, NetEntry, NetBufCap
    <3>3. NetEnd(r.victim)' = NetEnd(w)' /\ NetEntry(r.victim, r.t)' = NetEntry(w, r.t)'
      BY <2>2
    <3> QED BY <2>2, <3>1, <3>2, <3>3
  <2> QED BY <2>1, <2>2
<1>8. \A k \in NetTasks : NetHolds(w, k)' <=> NetHolds(w, k)
  BY <1>1 DEF NetHolds, NetAt, NetLoc
<1>9. /\ UNCHANGED <<netQueue, dq_top, pending_count, net_running, netClient, net_asleep>>
      /\ UNCHANGED <<net_queued, net_ran, net_raced, net_early, net_torn, net_spent, net_late>>
      /\ \A v \in NetWorkers : v # w => dq_buf'[v] = dq_buf[v]
  BY DEF netFlags, netHistory
<1>10. /\ l = "store" => dq_bottom'[w] - dq_top[w] < dq_cap'[w] - 1
       /\ l = "cas" /\ r.victim = w => r.t = dq_bottom'[w]
  BY <1>3
<1> QED BY <1>2, <1>3, <1>4, <1>5, <1>6, <1>7, <1>8, <1>9, <1>10, NetQuiet

(* Numbers and functions that stay as they are. *)
LEMMA NetSameEnd ==
  ASSUME NetTypeOK, NEW w \in NetWorkers
  PROVE  /\ dq_bottom = [dq_bottom EXCEPT ![w] = dq_bottom[w]]
         /\ dq_cap = [dq_cap EXCEPT ![w] = dq_cap[w]]
BY DEF NetTypeOK

LEMMA NetPopStep ==
  ASSUME NetInv, NEW w \in NetWorkers, w \notin net_asleep, NetPop(w)
  PROVE  NetInv'
<1>1. NetTypeOK /\ net_wpc[w] = "pop" /\ dq_bottom[w] \in Int /\ dq_cap[w] \in Nat \ {0}
  BY NetDequeTypes DEF NetPop, NetAt, NetInv
<1>2. PICK r \in NetLocals : r = net_loc[w] /\ net_loc' = [net_loc EXCEPT ![w] = r]
  BY <1>1, NetKeep DEF NetPop
<1>3. PICK b \in Int, c \in Nat \ {0} : b = dq_bottom[w] - 1 /\ c = dq_cap[w]
  BY <1>1
<1>4. /\ net_wpc' = [net_wpc EXCEPT ![w] = "top"] /\ "top" \in NetLabels
      /\ dq_bottom' = [dq_bottom EXCEPT ![w] = b] /\ dq_cap' = [dq_cap EXCEPT ![w] = c]
      /\ UNCHANGED <<netQueue, dq_top, dq_buf, netFlags, netClient, netHistory>>
  BY <1>1, <1>3, NetSameEnd DEF NetPop, NetGoto, NetLabels
<1>5. net_wpc'[w] = "top" /\ dq_bottom'[w] = b /\ dq_cap'[w] = c
  BY <1>1, <1>4 DEF NetTypeOK
<1>6. NetBufCap(w)' = NetBufCap(w)
  BY <1>1, <1>3, <1>5 DEF NetBufCap, NetAt
<1>7. NetEnd(w)' = NetEnd(w)
  BY <1>1, <1>3, <1>5 DEF NetEnd, NetPopping, NetAt
<1>8. \A k \in NetTasks : ~NetHolds(w, k)
  BY <1>1 DEF NetHolds, NetAt
<1>9. dq_cap[w] <= c
  BY <1>3
<1> QED BY <1>2, <1>4, <1>6, <1>7, <1>8, <1>9, NetOwn

(* The capacity follows the buffer. *)
LEMMA NetGrowCapStep ==
  ASSUME NetInv, NEW w \in NetWorkers, w \notin net_asleep, NetGrowCap(w)
  PROVE  NetInv'
<1>1. /\ NetTypeOK /\ net_wpc[w] = "cap" /\ dq_bottom[w] \in Int /\ dq_cap[w] \in Nat \ {0}
      /\ net_loc[w].task \in NetTasks /\ dq_top[w] \in Nat /\ ~NetPopping(w)
      /\ NetEnd(w) - dq_top[w] <= dq_cap[w] - 1
  BY NetDequeTypes DEF NetGrowCap, NetAt, NetInv, NetLocalInv, NetLoc, NetPopping
<1>2. PICK r \in NetLocals : r = net_loc[w] /\ net_loc' = [net_loc EXCEPT ![w] = r]
  BY <1>1, NetKeep DEF NetGrowCap
<1>3. PICK b \in Int, c \in Nat \ {0} : b = dq_bottom[w] /\ c = 2 * dq_cap[w]
  BY <1>1
<1>4. /\ net_wpc' = [net_wpc EXCEPT ![w] = "store"] /\ "store" \in NetLabels
      /\ dq_bottom' = [dq_bottom EXCEPT ![w] = b] /\ dq_cap' = [dq_cap EXCEPT ![w] = c]
      /\ UNCHANGED <<netQueue, dq_top, dq_buf, netFlags, netClient, netHistory>>
  BY <1>1, <1>3, NetSameEnd DEF NetGrowCap, NetGoto, NetLabels
<1>5. net_wpc'[w] = "store" /\ dq_bottom'[w] = b /\ dq_cap'[w] = c
  BY <1>1, <1>4 DEF NetTypeOK
<1>6. NetBufCap(w)' = NetBufCap(w)
  BY <1>1, <1>3, <1>5 DEF NetBufCap, NetAt
<1>7. NetEnd(w)' = NetEnd(w) /\ NetEnd(w) = b
  BY <1>1, <1>3, <1>5 DEF NetEnd, NetPopping, NetAt
<1>8. \A k \in NetTasks : NetHolds(w, k) <=> r.task = k
  BY <1>1, <1>2 DEF NetHolds, NetAt, NetLoc
<1>9. dq_cap[w] <= c /\ b - dq_top[w] < c - 1
  BY <1>1, <1>3, <1>7
<1> QED BY <1>1, <1>2, <1>4, <1>6, <1>7, <1>8, <1>9, NetOwn

(* A pop that finds the deque empty puts bottom back; one that finds a      *)
(* single entry competes for it.                                            *)
LEMMA NetPopTopQuiet ==
  ASSUME NetInv, NEW w \in NetWorkers, w \notin net_asleep, NetPopTop(w), dq_top[w] >= dq_bottom[w]
  PROVE  NetInv'
<1>1. /\ NetTypeOK /\ net_wpc[w] = "top" /\ dq_bottom[w] \in Int /\ dq_cap[w] \in Nat \ {0}
      /\ dq_top[w] \in Nat /\ NetPopping(w) /\ NetEnd(w) = dq_bottom[w] + 1
      /\ NetBufCap(w) = dq_cap[w]
  BY NetDequeTypes DEF NetPopTop, NetAt, NetInv, NetPopping, NetEnd, NetBufCap
<1>2. \A k \in NetTasks : ~NetHolds(w, k)
  BY <1>1 DEF NetHolds, NetAt
<1>3. UNCHANGED <<netQueue, dq_top, dq_buf, dq_cap, netFlags, netClient, netHistory>>
  BY DEF NetPopTop
<1>4. CASE dq_top[w] > dq_bottom[w]
  <2>1. PICK r \in NetLocals : r = net_loc[w] /\ net_loc' = [net_loc EXCEPT ![w] = r]
    BY <1>1, <1>4, NetKeep DEF NetPopTop
  <2>2. PICK b \in Int, c \in Nat \ {0} : b = dq_bottom[w] + 1 /\ c = dq_cap[w]
    BY <1>1
  <2>3. /\ net_wpc' = [net_wpc EXCEPT ![w] = "steal"] /\ "steal" \in NetLabels
        /\ dq_bottom' = [dq_bottom EXCEPT ![w] = b] /\ dq_cap' = [dq_cap EXCEPT ![w] = c]
    BY <1>1, <1>3, <1>4, <2>2, NetSameEnd DEF NetPopTop, NetGoto, NetLabels
  <2>4. net_wpc'[w] = "steal" /\ dq_bottom'[w] = b /\ dq_cap'[w] = c
    BY <1>1, <2>3 DEF NetTypeOK
  <2>5. NetBufCap(w)' = NetBufCap(w)
    BY <1>1, <2>2, <2>4 DEF NetBufCap, NetAt
  <2>6. NetEnd(w)' = NetEnd(w)
    BY <1>1, <2>2, <2>4 DEF NetEnd, NetPopping, NetAt
  <2>7. dq_cap[w] <= c
    BY <2>2
  <2> QED BY <1>2, <1>3, <2>1, <2>3, <2>5, <2>6, <2>7, NetOwn
<1>5. CASE dq_top[w] = dq_bottom[w]
  <2>1. PICK b \in Int, c \in Nat \ {0} : b = dq_bottom[w] /\ c = dq_cap[w]
    BY <1>1
  <2>2. PICK k \in NetTasks \cup {Null} : k = dq_buf[w][b % dq_cap[w]]
    BY <1>1, NetDequeTypes DEF NetEntry
  <2>3. PICK r : r = [NetNoLocals(w) EXCEPT !.task = k, !.t = dq_top[w]]
    OBVIOUS
  <2>4. r \in NetLocals /\ r.victim = w /\ r.t = dq_top[w] /\ r.task = k
    BY <1>1, <2>3, NetNoLocalsType DEF NetNoLocals, NetLocals
  <2>5. /\ net_wpc' = [net_wpc EXCEPT ![w] = "cas"] /\ "cas" \in NetLabels
        /\ net_loc' = [net_loc EXCEPT ![w] = r]
        /\ UNCHANGED dq_bottom
    BY <1>1, <1>5, <2>1, <2>2, <2>3 DEF NetPopTop, NetGoto, NetSet, NetLabels
  <2>6. dq_bottom' = [dq_bottom EXCEPT ![w] = b] /\ dq_cap' = [dq_cap EXCEPT ![w] = c]
    BY <1>1, <1>3, <2>1, <2>5, NetSameEnd
  <2>7. /\ net_wpc'[w] = "cas" /\ dq_bottom'[w] = b /\ dq_cap'[w] = c /\ net_loc'[w] = r
    BY <1>1, <2>5, <2>6 DEF NetTypeOK
  <2>8. NetBufCap(w)' = NetBufCap(w)
    BY <1>1, <2>1, <2>7 DEF NetBufCap, NetAt
  <2>9. NetEnd(w)' = NetEnd(w)
    BY <1>1, <2>1, <2>4, <2>7 DEF NetEnd, NetPopping, NetAt, NetLoc
  <2>10. r.t = b /\ r.task = NetEntry(w, b) /\ dq_top[w] < NetEnd(w) /\ dq_cap[w] <= c
    BY <1>1, <1>5, <2>1, <2>2, <2>4 DEF NetEntry
  <2> QED BY ZenonT(60), <1>2, <1>3, <2>4, <2>5, <2>6, <2>8, <2>9, <2>10, NetOwn
<1> QED BY <1>1, <1>4, <1>5

(* The live entries go to a buffer of twice the size, each to its place. *)
LEMMA NetGrowStep ==
  ASSUME NetInv, NEW w \in NetWorkers, w \notin net_asleep, NetGrow(w)
  PROVE  NetInv'
<1>1. /\ NetTypeOK /\ net_wpc[w] = "grow" /\ net_loc[w].task \in NetTasks /\ ~NetPopping(w)
      /\ dq_cap[w] \in Nat \ {0} /\ dq_top[w] \in Nat /\ dq_bottom[w] \in Int
      /\ NetEnd(w) = dq_bottom[w] /\ NetBufCap(w) = dq_cap[w]
      /\ dq_bottom[w] - dq_top[w] <= dq_cap[w] - 1
  BY NetDequeTypes DEF NetGrow, NetAt, NetInv, NetLocalInv, NetLoc, NetPopping, NetEnd, NetBufCap
<1>2. PICK r \in NetLocals : r = net_loc[w] /\ net_loc' = [net_loc EXCEPT ![w] = r]
  BY <1>1, NetKeep DEF NetGrow
<1>3. /\ UNCHANGED <<netQueue, dq_top, pending_count, net_running, netClient, net_asleep>>
      /\ UNCHANGED <<net_queued, net_ran, net_raced, net_early, net_torn, net_spent, net_late>>
      /\ UNCHANGED <<dq_bottom, dq_cap>>
      /\ net_torn \in BOOLEAN /\ net_late \in BOOLEAN
  BY DEF NetGrow, netFlags, netHistory, NetInv, NetTypeOK
<1>4. \A k \in NetTasks : NetHolds(w, k) <=> r.task = k
  BY <1>1, <1>2 DEF NetHolds, NetAt, NetLoc
<1>5. CASE NetGoto(w, "run") /\ UNCHANGED dq_buf
  <2>1. /\ net_wpc' = [net_wpc EXCEPT ![w] = "run"] /\ "run" \in NetLabels
        /\ UNCHANGED netDeques
    BY <1>3, <1>5 DEF NetGoto, NetLabels, netDeques
  <2> QED BY <1>1, <1>2, <1>3, <1>4, <2>1, NetPlain
<1>6. CASE ~(NetGoto(w, "run") /\ UNCHANGED dq_buf)
  <2> DEFINE old == dq_cap[w]
             live == dq_top[w] .. dq_bottom[w] - 1
             From(i) == CHOOSE k \in live : k % (2 * old) = i
             Place(i) == IF \E k \in live : k % (2 * old) = i THEN dq_buf[w][From(i) % old] ELSE Null
  <2>1. /\ net_wpc' = [net_wpc EXCEPT ![w] = "cap"] /\ "cap" \in NetLabels
        /\ dq_buf' = [dq_buf EXCEPT ![w] = [i \in 0 .. 2 * old - 1 |-> Place(i)]]
    BY <1>6 DEF NetGrow, NetGoto, NetLabels
  <2>2. net_wpc'[w] = "cap" /\ net_loc'[w] = r
    BY <1>1, <1>2, <2>1 DEF NetTypeOK
  <2>3. DOMAIN dq_buf = NetWorkers /\ DOMAIN dq_buf' = NetWorkers
        /\ dq_buf'[w] = [i \in 0 .. 2 * old - 1 |-> Place(i)]
        /\ \A v \in NetWorkers : v # w => dq_buf'[v] = dq_buf[v]
    BY <1>1, <2>1 DEF NetTypeOK
  <2>4. NetBufCap(w)' = 2 * old /\ NetEnd(w)' = NetEnd(w) /\ NetLive(w) = live
    BY <1>1, <1>3, <2>2 DEF NetBufCap, NetEnd, NetPopping, NetAt, NetLive
  <2>5. 2 * old \in Nat \ {0} /\ old \in Nat \ {0} /\ old <= 2 * old
    BY <1>1
  <2>6. ASSUME NEW i \in live
        PROVE  /\ i \in Int /\ i % (2 * old) \in 0 .. 2 * old - 1
               /\ From(i % (2 * old)) = i /\ Place(i % (2 * old)) = dq_buf[w][i % old]
    <3>1. i \in Int /\ i % (2 * old) \in 0 .. 2 * old - 1
      <4>1. i \in Int
        BY <1>1
      <4> HIDE DEF old, live
      <4> QED BY <2>5, <4>1, DivModFacts
    <3>2. \A k \in live : k % (2 * old) = i % (2 * old) => k = i
      <4>1. SUFFICES ASSUME NEW k \in live, k # i PROVE k % (2 * old) # i % (2 * old)
        OBVIOUS
      <4>2. k \in Int /\ (k < i \/ i < k) /\ i - k < 2 * old /\ k - i < 2 * old
        BY <1>1, <2>5, <3>1, <4>1
      <4> HIDE DEF old, live
      <4> QED BY <2>5, <3>1, <4>2, NetModDistinct
    <3>3. From(i % (2 * old)) = i
      BY <3>2
    <3> QED BY <3>1, <3>3
  <2>7. \A i \in live : NetEntry(w, i)' = NetEntry(w, i)
    <3>1. SUFFICES ASSUME NEW i \in live PROVE NetEntry(w, i)' = NetEntry(w, i)
      OBVIOUS
    <3>2. NetEntry(w, i)' = dq_buf'[w][i % (2 * old)]
      BY <2>4 DEF NetEntry
    <3>3. NetEntry(w, i) = dq_buf[w][i % old]
      BY <1>1 DEF NetEntry
    <3> HIDE DEF From, old, live
    <3> QED BY <2>3, <2>6, <3>2, <3>3
  <2>8. dq_buf'[w] \in [0 .. NetBufCap(w)' - 1 -> NetTasks \cup {Null}]
    <3>1. ASSUME NEW i \in 0 .. 2 * old - 1 PROVE Place(i) \in NetTasks \cup {Null}
      <4>1. CASE ~\E k \in live : k % (2 * old) = i
        BY <4>1
      <4>2. ASSUME NEW k \in live, k % (2 * old) = i PROVE Place(i) \in NetTasks
        <5>1. Place(i) = dq_buf[w][k % old]
          BY <2>6, <4>2
        <5>2. NetEntry(w, k) = dq_buf[w][k % old] /\ NetEntry(w, k) \in NetTasks
          BY <1>1, <2>4, NetDequeTypes DEF NetEntry
        <5> QED BY <5>1, <5>2
      <4> QED BY <4>1, <4>2
    <3> HIDE DEF Place
    <3> QED BY <2>3, <2>4, <3>1
  <2>9. NetLocalInv(w)' /\ NetThiefInv(w)'
    BY <1>1, <1>2, <2>2 DEF NetLocalInv, NetThiefInv, NetWinning, NetAt, NetLoc
  <2>10. \A k \in NetTasks : NetHolds(w, k)' <=> NetHolds(w, k)
    BY <1>4, <2>2 DEF NetHolds, NetAt, NetLoc
  <2>11. /\ dq_bottom' \in [NetWorkers -> Int] /\ dq_cap' \in [NetWorkers -> Nat \ {0}]
         /\ NetBufCap(w) <= NetBufCap(w)' /\ dq_cap[w] <= dq_cap'[w]
         /\ \A v \in NetWorkers : v # w => dq_bottom'[v] = dq_bottom[v] /\ dq_cap'[v] = dq_cap[v]
    BY <1>1, <1>3, <2>4, <2>5 DEF NetTypeOK
  <2>12. \A i \in NetLive(w) : NetEntry(w, i)' = NetEntry(w, i)
    BY <2>4, <2>7
  <2> HIDE DEF old, live, From, Place
  <2> QED BY <1>2, <1>3, <2>1, <2>3, <2>4, <2>8, <2>9, <2>10, <2>11, <2>12, NetQuiet
<1> QED BY <1>5, <1>6

-----------------------------------------------------------------------------
(* Steps that move a task.                                                  *)

(* The parts of the invariant, put together after a step of worker w. *)
LEMMA NetAssemble ==
  ASSUME NetInv, NEW w \in NetWorkers, w \notin net_asleep,
         NEW l \in NetLabels, NEW r \in NetLocals, l # "exit",
         net_wpc' = [net_wpc EXCEPT ![w] = l], net_loc' = [net_loc EXCEPT ![w] = r],
         UNCHANGED <<q_head, q_next, netClient, net_running, net_asleep, net_queued, net_spent, net_late>>,
         q_tail' \in NetNodes, pending_count' \in Int, net_ran' \in [NetTasks -> Nat],
         net_raced' \in BOOLEAN, net_torn' \in BOOLEAN, net_early' \in BOOLEAN,
         dq_top' \in [NetWorkers -> Nat], dq_bottom' \in [NetWorkers -> Int],
         dq_cap' \in [NetWorkers -> Nat \ {0}], DOMAIN dq_buf' = NetWorkers,
         \A v \in NetWorkers : NetLocalInv(v)' /\ NetWindowInv(v)' /\ NetThiefInv(v)',
         \A v \in NetWorkers : dq_bottom'[v] >= dq_top'[v] - 1,
         \A v \in NetWorkers : dq_buf'[v] \in [0 .. NetBufCap(v)' - 1 -> NetTasks \cup {Null}],
         NetWaitMeansDone',
         NetClean' => NetPlaceInv' /\ NetQueueInv' /\ NetCountInv'
  PROVE  NetInv'
<1>1. net_wpc' \in [NetWorkers -> NetLabels] /\ net_loc' \in [NetWorkers -> NetLocals]
  BY NetMove DEF NetInv
<1>2. NetTypeOK'
  BY <1>1 DEF NetInv, NetTypeOK, netClient
<1>3. NetLinkInv'
  BY NetLinkSame DEF NetInv
<1>4. NetSleepInv'
  BY NetSleepStep DEF NetInv, netClient
<1> QED BY <1>2, <1>3, <1>4 DEF NetInv

(* A task leaves a deque for the hand of w. *)
LEMMA NetLeave ==
  ASSUME NetPlaceInv, NEW w \in NetWorkers, NEW u \in NetWorkers, NEW k \in NetTasks,
         NEW x \in NetLive(u), NetEntry(u, x) = k, net_ran' = net_ran,
         \A v \in NetWorkers : v # u => NetLive(v)' = NetLive(v),
         NetLive(u)' = NetLive(u) \ {x},
         \A v \in NetWorkers : \A i \in NetLive(v)' : NetEntry(v, i)' = NetEntry(v, i),
         \A v \in NetWorkers : v # w => \A j \in NetTasks : NetHolds(v, j)' <=> NetHolds(v, j),
         \A j \in NetTasks : ~NetHolds(w, j) /\ (NetHolds(w, j)' <=> j = k)
  PROVE  NetPlaceInv' /\ NetTaken' = NetTaken
<1>1. \A v \in NetWorkers : \A i \in NetLive(v)' : i \in NetLive(v) /\ NetEntry(v, i) # k
  BY DEF NetPlaceInv
<1>2. ~NetInDeque(k)' /\ NetInDeque(k)
  BY <1>1 DEF NetInDeque
<1>3. \A j \in NetTasks : j # k => (NetInDeque(j)' <=> NetInDeque(j))
  <2>1. ASSUME NEW j \in NetTasks, j # k, NetInDeque(j) PROVE NetInDeque(j)'
    <3>1. PICK v \in NetWorkers : \E i \in NetLive(v) : NetEntry(v, i) = j
      BY <2>1 DEF NetInDeque
    <3>2. PICK i \in NetLive(v) : NetEntry(v, i) = j
      BY <3>1
    <3>3. i \in NetLive(v)'
      BY <2>1, <3>2
    <3> QED BY <3>2, <3>3 DEF NetInDeque
  <2>2. ASSUME NEW j \in NetTasks, NetInDeque(j)' PROVE NetInDeque(j)
    BY <1>1, <2>2 DEF NetInDeque
  <2> QED BY <2>1, <2>2
<1>4. NetTaken' = NetTaken
  BY <1>2, <1>3 DEF NetTaken
<1>5. /\ \A j \in NetTasks : net_ran'[j] <= 1
      /\ \A v \in NetWorkers : \A i \in NetLive(v)' : net_ran'[NetEntry(v, i)'] = 0
      /\ net_ran'[k] = 0
  BY <1>1 DEF NetPlaceInv
<1>6. \A v, z \in NetWorkers : \A i \in NetLive(v)', j \in NetLive(z)' :
        NetEntry(v, i)' = NetEntry(z, j)' => v = z /\ i = j
  BY <1>1 DEF NetPlaceInv
<1>7. \A v \in NetWorkers : ~NetHolds(v, k)
  BY <1>2 DEF NetPlaceInv
<1>8. \A v \in NetWorkers : \A j \in NetTasks : NetHolds(v, j)' =>
         /\ net_ran'[j] = 0 /\ ~NetInDeque(j)'
         /\ \A z \in NetWorkers : NetHolds(z, j)' => z = v
  <2>1. SUFFICES ASSUME NEW v \in NetWorkers, NEW j \in NetTasks, NetHolds(v, j)'
                 PROVE  /\ net_ran'[j] = 0 /\ ~NetInDeque(j)'
                        /\ \A z \in NetWorkers : NetHolds(z, j)' => z = v
    OBVIOUS
  <2>2. CASE j = k
    BY <1>2, <1>5, <1>7, <2>1, <2>2
  <2>3. CASE j # k
    BY <1>3, <2>1, <2>3 DEF NetPlaceInv
  <2> QED BY <2>2, <2>3
<1> QED BY <1>4, <1>5, <1>6, <1>8 DEF NetPlaceInv

(* A task leaves the hand of w for its deque. *)
LEMMA NetEnter ==
  ASSUME NetPlaceInv, NEW w \in NetWorkers, NEW k \in NetTasks, NEW x, x \notin NetLive(w),
         net_ran' = net_ran,
         \A v \in NetWorkers : v # w => NetLive(v)' = NetLive(v),
         NetLive(w)' = NetLive(w) \cup {x}, NetEntry(w, x)' = k,
         \A v \in NetWorkers : \A i \in NetLive(v) : NetEntry(v, i)' = NetEntry(v, i),
         \A v \in NetWorkers : v # w => \A j \in NetTasks : NetHolds(v, j)' <=> NetHolds(v, j),
         \A j \in NetTasks : (NetHolds(w, j) <=> j = k) /\ ~NetHolds(w, j)'
  PROVE  NetPlaceInv' /\ NetTaken' = NetTaken
<1>1. net_ran[k] = 0 /\ ~NetInDeque(k) /\ \A v \in NetWorkers : v # w => ~NetHolds(v, k)
  BY DEF NetPlaceInv
<1>2. \A v \in NetWorkers : \A i \in NetLive(v) : NetEntry(v, i) # k
  BY <1>1 DEF NetInDeque
<1>3. NetInDeque(k)'
  BY DEF NetInDeque
<1>4. \A j \in NetTasks : j # k => (NetInDeque(j)' <=> NetInDeque(j))
  <2>1. ASSUME NEW j \in NetTasks, NetInDeque(j) PROVE NetInDeque(j)'
    BY <2>1 DEF NetInDeque
  <2>2. ASSUME NEW j \in NetTasks, j # k, NetInDeque(j)' PROVE NetInDeque(j)
    <3>1. PICK v \in NetWorkers : \E i \in NetLive(v)' : NetEntry(v, i)' = j
      BY <2>2 DEF NetInDeque
    <3>2. PICK i \in NetLive(v)' : NetEntry(v, i)' = j
      BY <3>1
    <3>3. i \in NetLive(v)
      BY <2>2, <3>2
    <3> QED BY <3>2, <3>3 DEF NetInDeque
  <2> QED BY <2>1, <2>2
<1>5. NetTaken' = NetTaken
  BY <1>3, <1>4 DEF NetTaken
<1>6. /\ \A j \in NetTasks : net_ran'[j] <= 1
      /\ \A v \in NetWorkers : \A i \in NetLive(v)' : net_ran'[NetEntry(v, i)'] = 0
  BY <1>1 DEF NetPlaceInv
<1>7. \A v, z \in NetWorkers : \A i \in NetLive(v)', j \in NetLive(z)' :
        NetEntry(v, i)' = NetEntry(z, j)' => v = z /\ i = j
  <2>1. \A v \in NetWorkers : \A i \in NetLive(v)' : i \in NetLive(v) \/ (v = w /\ i = x)
    OBVIOUS
  <2> QED BY <1>2, <2>1 DEF NetPlaceInv
<1>8. \A v \in NetWorkers : \A j \in NetTasks : NetHolds(v, j)' =>
         /\ net_ran'[j] = 0 /\ ~NetInDeque(j)'
         /\ \A z \in NetWorkers : NetHolds(z, j)' => z = v
  BY <1>1, <1>4 DEF NetPlaceInv
<1> QED BY <1>5, <1>6, <1>7, <1>8 DEF NetPlaceInv

(* A step of w that moves tasks between deques and hands, and nothing else. *)
LEMMA NetMoved ==
  ASSUME NetInv, NEW w \in NetWorkers, w \notin net_asleep,
         NEW l \in NetLabels, NEW r \in NetLocals, l \notin {"exit", "next", "tail"},
         net_wpc' = [net_wpc EXCEPT ![w] = l], net_loc' = [net_loc EXCEPT ![w] = r],
         UNCHANGED <<netQueue, netFlags, netClient, netHistory>>,
         dq_top' \in [NetWorkers -> Nat], dq_bottom' \in [NetWorkers -> Int],
         dq_cap' \in [NetWorkers -> Nat \ {0}], DOMAIN dq_buf' = NetWorkers,
         \A v \in NetWorkers : NetLocalInv(v)' /\ NetWindowInv(v)' /\ NetThiefInv(v)',
         \A v \in NetWorkers : dq_bottom'[v] >= dq_top'[v] - 1,
         \A v \in NetWorkers : dq_buf'[v] \in [0 .. NetBufCap(v)' - 1 -> NetTasks \cup {Null}],
         NetClean => NetPlaceInv' /\ NetTaken' = NetTaken
  PROVE  NetInv'
<1>1. /\ UNCHANGED <<q_head, q_next, netClient, net_running, net_asleep, net_queued, net_spent, net_late>>
      /\ UNCHANGED <<q_tail, pending_count, net_ran, net_raced, net_torn, net_early>>
  BY DEF netQueue, netFlags, netHistory
<1>2. /\ q_tail' \in NetNodes /\ pending_count' \in Int /\ net_ran' \in [NetTasks -> Nat]
      /\ net_raced' \in BOOLEAN /\ net_torn' \in BOOLEAN /\ net_early' \in BOOLEAN
  BY <1>1 DEF NetInv, NetTypeOK
<1>3. NetWaitMeansDone' /\ (NetClean' <=> NetClean)
  BY <1>1 DEF NetInv, NetWaitMeansDone, NetClean, netClient
<1>4. ASSUME NetClean PROVE NetQueueInv' /\ NetCountInv'
  <2>1. NetQueueInv /\ NetCountInv
    BY <1>4 DEF NetInv
  <2>2. /\ net_wpc'[w] = l
        /\ \A v \in NetWorkers : v # w => net_wpc'[v] = net_wpc[v] /\ net_loc'[v] = net_loc[v]
    BY NetMove DEF NetInv
  <2>3. \A v \in NetWorkers : /\ NetAt(v, {"next"})' => NetLoc(v)'.tail = q_tail
                              /\ NetAt(v, {"tail"})' => NetLoc(v)'.next = q_next[q_tail]
    BY <2>1, <2>2 DEF NetAt, NetLoc, NetQueueInv
  <2>4. NetQueueInv'
    BY <1>1, <1>4, <2>1, <2>3, NetQueueSame
  <2>5. NetCountInv'
    BY <1>1, <2>1, NetCountSame DEF netClient
  <2> QED BY <2>4, <2>5
<1> QED BY <1>1, <1>2, <1>3, <1>4, NetAssemble

(* The others, after a step of w that changes the end of no other deque. *)
LEMMA NetOthers ==
  ASSUME NetTypeOK, NEW w \in NetWorkers, NEW l \in NetLabels, NEW r \in NetLocals,
         net_wpc' = [net_wpc EXCEPT ![w] = l], net_loc' = [net_loc EXCEPT ![w] = r],
         \A v \in NetWorkers : v # w =>
           dq_bottom'[v] = dq_bottom[v] /\ dq_cap'[v] = dq_cap[v] /\ dq_buf'[v] = dq_buf[v]
  PROVE  \A v \in NetWorkers : v # w =>
           /\ NetEnd(v)' = NetEnd(v) /\ NetBufCap(v)' = NetBufCap(v)
           /\ dq_top'[v] = dq_top[v] => NetLive(v)' = NetLive(v)
           /\ \A i : NetEntry(v, i)' = NetEntry(v, i)
           /\ \A k \in NetTasks : NetHolds(v, k)' <=> NetHolds(v, k)
<1>1. \A v \in NetWorkers : v # w => net_wpc'[v] = net_wpc[v] /\ net_loc'[v] = net_loc[v]
  BY NetMove
<1>2. \A v \in NetWorkers : v # w =>
        /\ NetEnd(v)' = NetEnd(v) /\ NetBufCap(v)' = NetBufCap(v)
        /\ \A k \in NetTasks : NetHolds(v, k)' <=> NetHolds(v, k)
  BY <1>1 DEF NetEnd, NetBufCap, NetPopping, NetAt, NetLoc, NetHolds
<1> QED BY <1>2 DEF NetLive, NetEntry

(* A pop that finds more than one entry takes the last one. *)
LEMMA NetPopTopTake ==
  ASSUME NetInv, NEW w \in NetWorkers, w \notin net_asleep, NetPopTop(w), dq_top[w] < dq_bottom[w]
  PROVE  NetInv'
<1>1. /\ NetTypeOK /\ net_wpc[w] = "top" /\ dq_bottom[w] \in Int /\ dq_cap[w] \in Nat \ {0}
      /\ dq_top[w] \in Nat /\ NetPopping(w) /\ NetEnd(w) = dq_bottom[w] + 1
      /\ NetBufCap(w) = dq_cap[w] /\ NetEnd(w) - dq_top[w] <= dq_cap[w] - 1
  BY NetDequeTypes DEF NetPopTop, NetAt, NetInv, NetPopping, NetEnd, NetBufCap
<1>2. PICK b \in Int : b = dq_bottom[w]
  BY <1>1
<1>3. b \in NetLive(w) /\ NetEntry(w, b) \in NetTasks
  BY <1>1, <1>2, NetDequeTypes DEF NetLive
<1>4. PICK k \in NetTasks : k = NetEntry(w, b)
  BY <1>3
<1>5. PICK r : r = [NetNoLocals(w) EXCEPT !.task = k, !.t = 0]
  OBVIOUS
<1>6. r \in NetLocals /\ r.task = k
  BY <1>5 DEF NetNoLocals, NetLocals, NetNodes
<1>7. /\ net_wpc' = [net_wpc EXCEPT ![w] = "run"] /\ "run" \in NetLabels
      /\ net_loc' = [net_loc EXCEPT ![w] = r]
  <2>1. ~(dq_top[w] > dq_bottom[w]) /\ dq_top[w] # dq_bottom[w]
    BY <1>1
  <2>2. k = dq_buf[w][dq_bottom[w] % dq_cap[w]]
    BY <1>1, <1>2, <1>4 DEF NetEntry
  <2>3. net_wpc' = [net_wpc EXCEPT ![w] = "run"]
    BY <2>1 DEF NetPopTop, NetGoto
  <2>4. net_loc' = [net_loc EXCEPT ![w] = r]
    BY <1>5, <2>1, <2>2 DEF NetPopTop, NetSet
  <2> QED BY <2>3, <2>4 DEF NetLabels
<1>8. /\ UNCHANGED <<dq_top, dq_bottom, dq_buf, dq_cap>>
      /\ UNCHANGED <<netQueue, netFlags, netClient, netHistory>>
  BY <1>1 DEF NetPopTop
<1>9. net_wpc'[w] = "run" /\ net_loc'[w] = r
  BY <1>1, <1>6, <1>7, NetMove
<1>10. /\ NetEnd(w)' = b /\ NetBufCap(w)' = NetBufCap(w)
       /\ \A i : NetEntry(w, i)' = NetEntry(w, i)
  BY <1>1, <1>2, <1>8, <1>9 DEF NetEnd, NetBufCap, NetPopping, NetAt, NetEntry
<1>11. NetLive(w)' = NetLive(w) \ {b}
  BY <1>1, <1>2, <1>8, <1>10 DEF NetLive
<1>12. NetLocalInv(w)' /\ NetThiefInv(w)'
  BY <1>6, <1>9 DEF NetLocalInv, NetThiefInv, NetWinning, NetAt, NetLoc
<1>13. NetWindowInv(w)'
  <2>1. \A i \in NetLive(w)' : NetEntry(w, i)' \in NetTasks
    BY <1>10, <1>11, NetDequeTypes
  <2>2. dq_top'[w] <= NetEnd(w)' /\ NetEnd(w)' - dq_top'[w] <= dq_cap'[w] - 1
    BY <1>1, <1>2, <1>8, <1>10
  <2> QED BY <1>9, <2>1, <2>2 DEF NetWindowInv, NetAt
<1>14. /\ dq_top' \in [NetWorkers -> Nat] /\ dq_bottom' \in [NetWorkers -> Int]
       /\ dq_cap' \in [NetWorkers -> Nat \ {0}] /\ DOMAIN dq_buf' = NetWorkers
       /\ dq_buf'[w] \in [0 .. NetBufCap(w)' - 1 -> NetTasks \cup {Null}]
  BY <1>1, <1>8, <1>10 DEF NetTypeOK
<1>15. /\ \A v \in NetWorkers : dq_top[v] <= dq_top'[v] /\ dq_top'[v] <= NetEnd(v)
       /\ \A v \in NetWorkers : v # w =>
            dq_bottom'[v] = dq_bottom[v] /\ dq_cap'[v] = dq_cap[v] /\ dq_buf'[v] = dq_buf[v]
       /\ NetBufCap(w) <= NetBufCap(w)'
       /\ dq_top[w] < NetEnd(w)' /\ NetEntry(w, dq_top[w])' = NetEntry(w, dq_top[w])
  <2>1. \A v \in NetWorkers : dq_top[v] \in Int /\ dq_top[v] <= NetEnd(v)
    BY NetDequeTypes
  <2>2. NetEntry(w, dq_top[w])' = NetEntry(w, dq_top[w])
    BY <1>8, <1>10
  <2> QED BY <1>1, <1>2, <1>8, <1>10, <2>1, <2>2
<1>16. net_torn' = net_torn
  BY <1>8 DEF netHistory
<1>17. /\ \A v \in NetWorkers : NetLocalInv(v)' /\ NetWindowInv(v)' /\ NetThiefInv(v)'
       /\ \A v \in NetWorkers : dq_bottom'[v] >= dq_top'[v] - 1
       /\ \A v \in NetWorkers : dq_buf'[v] \in [0 .. NetBufCap(v)' - 1 -> NetTasks \cup {Null}]
  BY <1>6, <1>7, <1>12, <1>13, <1>14, <1>15, <1>16, NetFrame
<1>18. ASSUME NetClean PROVE NetPlaceInv' /\ NetTaken' = NetTaken
  <2>1. \A v \in NetWorkers : v # w =>
          /\ NetLive(v)' = NetLive(v) /\ \A i : NetEntry(v, i)' = NetEntry(v, i)
          /\ \A j \in NetTasks : NetHolds(v, j)' <=> NetHolds(v, j)
    BY <1>1, <1>6, <1>7, <1>8, <1>15, NetOthers
  <2>2. \A j \in NetTasks : ~NetHolds(w, j) /\ (NetHolds(w, j)' <=> j = k)
    BY <1>1, <1>6, <1>9 DEF NetHolds, NetAt, NetLoc
  <2>3. NetPlaceInv /\ net_ran' = net_ran
    BY <1>8, <1>18 DEF NetInv, netHistory
  <2>4. \A v \in NetWorkers : \A i \in NetLive(v)' : NetEntry(v, i)' = NetEntry(v, i)
    BY <1>10, <2>1
  <2> QED BY <1>3, <1>4, <1>11, <2>1, <2>2, <2>3, <2>4, NetLeave
<1> QED BY <1>6, <1>7, <1>8, <1>14, <1>17, <1>18, NetMoved

(* A compare-and-swap that fails leaves the deques as they were: the owner, *)
(* who lost its last entry to a thief, puts bottom back.                    *)
LEMMA NetTakeLost ==
  ASSUME NetInv, NEW w \in NetWorkers, w \notin net_asleep, NetTake(w),
         dq_top[net_loc[w].victim] # net_loc[w].t
  PROVE  NetInv'
<1>1. /\ NetTypeOK /\ net_wpc[w] = "cas" /\ net_loc[w] \in NetLocals
      /\ net_loc[w].victim \in NetWorkers /\ net_loc[w].t \in Nat
  BY DEF NetTake, NetAt, NetInv, NetTypeOK, NetLocals
<1>2. PICK r \in NetLocals : r = NetNoLocals(w)
  BY NetNoLocalsType
<1>3. net_loc' = [net_loc EXCEPT ![w] = r] /\ dq_top' = dq_top
  BY <1>2 DEF NetTake, NetFresh, NetSet, NetLoc
<1>4. /\ UNCHANGED <<netQueue, dq_buf, dq_cap, pending_count, net_running, netClient, net_asleep>>
      /\ UNCHANGED <<net_queued, net_ran, net_raced, net_early, net_torn, net_spent, net_late>>
      /\ UNCHANGED <<netFlags, netHistory>>
      /\ net_torn \in BOOLEAN /\ net_late \in BOOLEAN
  BY DEF NetTake, netFlags, netHistory, NetInv, NetTypeOK
<1>5. \A k \in NetTasks : ~NetHolds(w, k)
  BY <1>1 DEF NetHolds, NetAt
<1>6. CASE net_loc[w].victim # w
  <2>1. net_wpc' = [net_wpc EXCEPT ![w] = "idle"] /\ "idle" \in NetLabels /\ UNCHANGED netDeques
    BY <1>3, <1>4, <1>6 DEF NetTake, NetGoto, NetLabels, netDeques, NetLoc
  <2> QED BY <1>1, <1>3, <1>4, <1>5, <1>6, <2>1, NetPlain
<1>7. CASE net_loc[w].victim = w
  <2>1. /\ dq_bottom[w] \in Int /\ dq_cap[w] \in Nat \ {0} /\ dq_top[w] \in Nat
        /\ NetPopping(w) /\ NetEnd(w) = dq_bottom[w] + 1 /\ NetBufCap(w) = dq_cap[w]
    BY <1>1, <1>7, NetDequeTypes DEF NetPopping, NetEnd, NetBufCap, NetAt, NetLoc
  <2>2. PICK b \in Int, c \in Nat \ {0} : b = dq_bottom[w] + 1 /\ c = dq_cap[w]
    BY <2>1
  <2>3. /\ net_wpc' = [net_wpc EXCEPT ![w] = "steal"] /\ "steal" \in NetLabels
        /\ dq_bottom' = [dq_bottom EXCEPT ![w] = b] /\ dq_cap' = [dq_cap EXCEPT ![w] = c]
    BY <1>1, <1>4, <1>7, <2>2, NetSameEnd DEF NetTake, NetGoto, NetLabels, NetLoc
  <2>4. net_wpc'[w] = "steal" /\ dq_bottom'[w] = b /\ dq_cap'[w] = c
    BY <1>1, <2>3 DEF NetTypeOK
  <2>5. NetBufCap(w)' = NetBufCap(w)
    BY <2>1, <2>2, <2>4 DEF NetBufCap, NetAt
  <2>6. NetEnd(w)' = NetEnd(w)
    BY <2>1, <2>2, <2>4 DEF NetEnd, NetPopping, NetAt
  <2>7. dq_cap[w] <= c
    BY <2>2
  <2> QED BY <1>3, <1>4, <1>5, <2>3, <2>5, <2>6, <2>7, NetOwn
<1> QED BY <1>6, <1>7

(* A compare-and-swap that succeeds takes the first entry of the victim,    *)
(* which may be the own last one.                                           *)
LEMMA NetTakeWon ==
  ASSUME NetInv, NEW w \in NetWorkers, w \notin net_asleep, NetTake(w),
         dq_top[net_loc[w].victim] = net_loc[w].t
  PROVE  NetInv'
<1>1. /\ NetTypeOK /\ net_wpc[w] = "cas" /\ net_loc[w] \in NetLocals
      /\ NetWindowInv(w) /\ NetThiefInv(w)
  BY DEF NetTake, NetAt, NetInv, NetTypeOK
<1>2. PICK u \in NetWorkers : u = net_loc[w].victim
  BY <1>1 DEF NetLocals
<1>3. PICK x \in Nat : x = net_loc[w].t
  BY <1>1 DEF NetLocals
<1>4. PICK k \in NetTasks \cup {Null} : k = net_loc[w].task
  BY <1>1 DEF NetLocals
<1>5. /\ dq_top[u] = x /\ x < NetEnd(u) /\ NetEnd(u) \in Int
      /\ ~net_torn => k = NetEntry(u, x)
  BY <1>1, <1>2, <1>3, <1>4, NetDequeTypes DEF NetThiefInv, NetWinning, NetAt, NetLoc
<1>6. x \in NetLive(u) /\ NetEntry(u, x) \in NetTasks
  BY <1>5, NetDequeTypes DEF NetLive
<1>7. PICK l \in {"run", "steal", "idle"} :
        l = IF k # Null THEN "run" ELSE IF u = w THEN "steal" ELSE "idle"
  OBVIOUS
<1>8. PICK r \in NetLocals :
        r = IF k # Null THEN [NetNoLocals(w) EXCEPT !.task = k] ELSE NetNoLocals(w)
  BY NetNoLocalsType
<1>9. l = "run" => k \in NetTasks /\ r.task = k
  BY <1>7, <1>8 DEF NetNoLocals
<1>10. /\ net_wpc' = [net_wpc EXCEPT ![w] = l] /\ l \in NetLabels
       /\ net_loc' = [net_loc EXCEPT ![w] = r]
  BY <1>2, <1>3, <1>4, <1>5, <1>7, <1>8
     DEF NetTake, NetGoto, NetFresh, NetHold, NetSet, NetLoc, NetLabels
<1>11. /\ dq_top' = [dq_top EXCEPT ![u] = x + 1]
       /\ dq_bottom' = IF u = w THEN [dq_bottom EXCEPT ![w] = @ + 1] ELSE dq_bottom
  BY <1>2, <1>3, <1>5 DEF NetTake, NetLoc
<1>12. /\ UNCHANGED <<dq_buf, dq_cap>>
       /\ UNCHANGED <<netQueue, netFlags, netClient, netHistory>>
  BY DEF NetTake
<1>13. net_wpc'[w] = l /\ net_loc'[w] = r
  BY <1>1, <1>10, NetMove
<1>14. /\ dq_top' \in [NetWorkers -> Nat] /\ dq_bottom' \in [NetWorkers -> Int]
       /\ dq_cap' \in [NetWorkers -> Nat \ {0}] /\ DOMAIN dq_buf' = NetWorkers
       /\ dq_top'[u] = x + 1 /\ \A v \in NetWorkers : v # u => dq_top'[v] = dq_top[v]
       /\ \A v \in NetWorkers : v # w => dq_bottom'[v] = dq_bottom[v]
  <2>1. /\ dq_top \in [NetWorkers -> Nat] /\ dq_bottom \in [NetWorkers -> Int] /\ x + 1 \in Nat
        /\ dq_cap \in [NetWorkers -> Nat \ {0}] /\ DOMAIN dq_buf = NetWorkers
    BY SMTT(30), <1>1, <1>3 DEF NetTypeOK
  <2>2. /\ dq_top' \in [NetWorkers -> Nat] /\ dq_top'[u] = x + 1
        /\ \A v \in NetWorkers : v # u => dq_top'[v] = dq_top[v]
    BY <1>11, <2>1
  <2>3. /\ dq_bottom' \in [NetWorkers -> Int]
        /\ \A v \in NetWorkers : v # w => dq_bottom'[v] = dq_bottom[v]
    BY <1>11, <2>1
  <2> QED BY <1>12, <2>1, <2>2, <2>3
<1>15. /\ NetEnd(w)' = NetEnd(w) /\ NetBufCap(w)' = NetBufCap(w)
       /\ NetBufCap(w) = dq_cap[w] /\ \A i : NetEntry(w, i)' = NetEntry(w, i)
  <2>1. NetBufCap(w)' = NetBufCap(w) /\ NetBufCap(w) = dq_cap[w]
    BY <1>1, <1>7, <1>12, <1>13 DEF NetBufCap, NetAt
  <2>2. NetEnd(w)' = dq_bottom'[w]
    BY <1>7, <1>13 DEF NetEnd, NetPopping, NetAt
  <2>3. NetEnd(w) = IF u = w THEN dq_bottom[w] + 1 ELSE dq_bottom[w]
    BY <1>1, <1>2 DEF NetEnd, NetPopping, NetAt, NetLoc
  <2>4. dq_bottom'[w] = IF u = w THEN dq_bottom[w] + 1 ELSE dq_bottom[w]
    BY <1>1, <1>11 DEF NetTypeOK
  <2> QED BY <1>12, <2>1, <2>2, <2>3, <2>4 DEF NetEntry
<1>16. \A v \in NetWorkers : v # w =>
         /\ NetEnd(v)' = NetEnd(v) /\ NetBufCap(v)' = NetBufCap(v)
         /\ dq_top'[v] = dq_top[v] => NetLive(v)' = NetLive(v)
         /\ \A i : NetEntry(v, i)' = NetEntry(v, i)
         /\ \A j \in NetTasks : NetHolds(v, j)' <=> NetHolds(v, j)
  <2>1. \A v \in NetWorkers : v # w =>
          dq_bottom'[v] = dq_bottom[v] /\ dq_cap'[v] = dq_cap[v] /\ dq_buf'[v] = dq_buf[v]
    BY <1>12, <1>14
  <2> QED BY <1>1, <1>10, <2>1, NetOthers
<1>17. /\ NetLive(u)' = NetLive(u) \ {x}
       /\ \A v \in NetWorkers : v # u => NetLive(v)' = NetLive(v)
  <2>1. NetEnd(u)' = NetEnd(u)
    BY <1>15, <1>16
  <2>2. NetLive(u)' = NetLive(u) \ {x}
    BY <1>5, <1>14, <2>1 DEF NetLive
  <2>3. \A v \in NetWorkers : v # u => NetLive(v)' = NetLive(v)
    BY <1>14, <1>15, <1>16 DEF NetLive
  <2> QED BY <2>2, <2>3
<1>18. \A v \in NetWorkers : \A i \in NetLive(v)' : NetEntry(v, i)' = NetEntry(v, i)
  BY <1>15, <1>16
<1>19. NetLocalInv(w)' /\ NetThiefInv(w)'
  BY <1>7, <1>9, <1>13 DEF NetLocalInv, NetThiefInv, NetWinning, NetAt, NetLoc
<1>20. NetWindowInv(w)'
  <2>1. \A i \in NetLive(w)' : NetEntry(w, i)' \in NetTasks
    <3>1. \A i \in NetLive(w)' : i \in NetLive(w)
      BY <1>17
    <3> QED BY <1>15, <3>1, NetDequeTypes
  <2>2. dq_top'[w] <= NetEnd(w)' /\ NetEnd(w)' - dq_top'[w] <= dq_cap'[w] - 1
    <3>1. /\ dq_top[w] \in Nat /\ NetEnd(w) \in Int /\ dq_cap[w] \in Nat /\ dq_top[w] <= NetEnd(w)
          /\ NetEnd(w) - dq_top[w] <= dq_cap[w] - 1
      BY NetDequeTypes
    <3>2. NetEnd(w)' = NetEnd(w) /\ dq_cap'[w] = dq_cap[w]
      BY <1>12, <1>15
    <3>3. CASE u = w
      BY <1>3, <1>5, <1>14, <3>1, <3>2, <3>3
    <3>4. CASE u # w
      BY <1>14, <3>1, <3>2, <3>4
    <3> QED BY <3>3, <3>4
  <2> QED BY <1>7, <1>13, <2>1, <2>2 DEF NetWindowInv, NetAt
<1>21. dq_buf'[w] \in [0 .. NetBufCap(w)' - 1 -> NetTasks \cup {Null}]
  BY <1>1, <1>12, <1>15 DEF NetTypeOK
<1>22. \A v \in NetWorkers : dq_top[v] <= dq_top'[v] /\ dq_top'[v] <= NetEnd(v)
  <2>1. \A v \in NetWorkers : dq_top[v] \in Int /\ dq_top[v] <= NetEnd(v)
    BY NetDequeTypes
  <2> QED BY <1>5, <1>14, <2>1
<1>23. /\ NetBufCap(w) <= NetBufCap(w)' /\ net_torn' = net_torn
       /\ dq_top'[w] = dq_top[w] /\ dq_top[w] < NetEnd(w) =>
            dq_top[w] < NetEnd(w)' /\ NetEntry(w, dq_top[w])' = NetEntry(w, dq_top[w])
  <2>1. NetBufCap(w) \in Int
    BY NetDequeTypes
  <2>2. dq_top'[w] = dq_top[w] => NetEntry(w, dq_top[w])' = NetEntry(w, dq_top[w])
    BY <1>15
  <2> QED BY <1>12, <1>15, <2>1, <2>2 DEF netHistory
<1>24. /\ \A v \in NetWorkers : NetLocalInv(v)' /\ NetWindowInv(v)' /\ NetThiefInv(v)'
       /\ \A v \in NetWorkers : dq_bottom'[v] >= dq_top'[v] - 1
       /\ \A v \in NetWorkers : dq_buf'[v] \in [0 .. NetBufCap(v)' - 1 -> NetTasks \cup {Null}]
  BY <1>10, <1>12, <1>14, <1>19, <1>20, <1>21, <1>22, <1>23, NetFrame
<1>25. ASSUME NetClean PROVE NetPlaceInv' /\ NetTaken' = NetTaken
  <2>1. k = NetEntry(u, x) /\ k \in NetTasks
    BY <1>5, <1>6, <1>25 DEF NetClean
  <2>2. l = "run" /\ r.task = k
    BY <1>7, <1>9, <2>1, NetValues
  <2>3. \A j \in NetTasks : ~NetHolds(w, j) /\ (NetHolds(w, j)' <=> j = k)
    BY <1>1, <1>13, <2>2 DEF NetHolds, NetAt, NetLoc
  <2>4. NetPlaceInv /\ net_ran' = net_ran
    BY <1>12, <1>25 DEF NetInv, netHistory
  <2> QED BY <1>6, <1>16, <1>17, <1>18, <2>1, <2>3, <2>4, NetLeave
<1>26. l \notin {"exit", "next", "tail"}
  BY <1>7
<1> QED BY <1>10, <1>12, <1>14, <1>24, <1>25, <1>26, NetMoved

LEMMA NetTakeStep ==
  ASSUME NetInv, NEW w \in NetWorkers, w \notin net_asleep, NetTake(w)
  PROVE  NetInv'
BY NetTakeLost, NetTakeWon

LEMMA NetPopTopStep ==
  ASSUME NetInv, NEW w \in NetWorkers, w \notin net_asleep, NetPopTop(w)
  PROVE  NetInv'
<1>1. dq_top[w] \in Int /\ dq_bottom[w] \in Int
  BY NetDequeTypes
<1>2. dq_top[w] < dq_bottom[w] \/ dq_top[w] >= dq_bottom[w]
  BY <1>1
<1> QED BY <1>2, NetPopTopQuiet, NetPopTopTake

(* The entry is stored in the free place of the buffer and published. *)
LEMMA NetPushStoreStep ==
  ASSUME NetInv, NEW w \in NetWorkers, w \notin net_asleep, NetPushStore(w)
  PROVE  NetInv'
<1>1. /\ NetTypeOK /\ net_wpc[w] = "store" /\ NetWindowInv(w)
      /\ dq_bottom[w] \in Int /\ dq_cap[w] \in Nat \ {0} /\ dq_top[w] \in Nat
      /\ NetEnd(w) = dq_bottom[w] /\ NetBufCap(w) = dq_cap[w] /\ dq_top[w] <= NetEnd(w)
      /\ dq_bottom[w] - dq_top[w] < dq_cap[w] - 1
  BY NetDequeTypes
     DEF NetPushStore, NetAt, NetInv, NetPopping, NetEnd, NetBufCap, NetWindowInv
<1>2. PICK b \in Int, c \in Nat \ {0} : b = dq_bottom[w] /\ c = dq_cap[w]
  BY <1>1
<1>3. PICK k \in NetTasks : k = net_loc[w].task
  BY <1>1 DEF NetInv, NetLocalInv, NetAt, NetLoc
<1>4. PICK r \in NetLocals : r = NetNoLocals(w)
  BY NetNoLocalsType
<1>5. /\ net_wpc' = [net_wpc EXCEPT ![w] = "loop"] /\ "loop" \in NetLabels
      /\ net_loc' = [net_loc EXCEPT ![w] = r]
      /\ dq_buf' = [dq_buf EXCEPT ![w][b % c] = k]
      /\ dq_bottom' = [dq_bottom EXCEPT ![w] = b + 1]
      /\ UNCHANGED <<dq_top, dq_cap>>
      /\ UNCHANGED <<netQueue, netFlags, netClient, netHistory>>
  BY <1>2, <1>3, <1>4 DEF NetPushStore, NetGoto, NetFresh, NetSet, NetLabels, NetLoc
<1>6. net_wpc'[w] = "loop" /\ net_loc'[w] = r
  BY <1>1, <1>5, NetMove
<1>7. b % c \in 0 .. c - 1 /\ \A i \in Int : i % c \in 0 .. c - 1
  BY DivModFacts
<1>8. /\ dq_top' \in [NetWorkers -> Nat] /\ dq_bottom' \in [NetWorkers -> Int]
      /\ dq_cap' \in [NetWorkers -> Nat \ {0}] /\ dq_bottom'[w] = b + 1
      /\ \A v \in NetWorkers : v # w => dq_bottom'[v] = dq_bottom[v]
  <2>1. /\ dq_top \in [NetWorkers -> Nat] /\ dq_bottom \in [NetWorkers -> Int] /\ b + 1 \in Int
        /\ dq_cap \in [NetWorkers -> Nat \ {0}]
    BY <1>1 DEF NetTypeOK
  <2> QED BY <1>5, <2>1
<1>9. /\ DOMAIN dq_buf' = NetWorkers /\ dq_buf'[w] = [dq_buf[w] EXCEPT ![b % c] = k]
      /\ \A v \in NetWorkers : v # w => dq_buf'[v] = dq_buf[v]
  BY <1>1, <1>5 DEF NetTypeOK
<1>10. dq_buf[w] \in [0 .. c - 1 -> NetTasks \cup {Null}]
  BY <1>1, <1>2 DEF NetTypeOK
<1>11. /\ dq_buf'[w] \in [0 .. c - 1 -> NetTasks \cup {Null}] /\ dq_buf'[w][b % c] = k
       /\ \A i \in 0 .. c - 1 : i # b % c => dq_buf'[w][i] = dq_buf[w][i]
  BY <1>7, <1>9, <1>10
<1>12. NetEnd(w)' = b + 1 /\ NetBufCap(w)' = c
  BY <1>2, <1>5, <1>6, <1>8 DEF NetEnd, NetBufCap, NetPopping, NetAt
<1>13. NetEntry(w, b)' = k
  BY <1>11, <1>12 DEF NetEntry
<1>14. ASSUME NEW i \in NetLive(w) PROVE i # b /\ NetEntry(w, i)' = NetEntry(w, i)
  <2>1. i \in Int /\ i < b /\ b - i < c
    BY <1>1, <1>2 DEF NetLive
  <2>2. i % c # b % c
    BY <2>1, NetModDistinct
  <2>3. dq_buf'[w][i % c] = dq_buf[w][i % c]
    BY <1>7, <1>11, <2>1, <2>2
  <2> QED BY <1>1, <1>2, <1>12, <2>1, <2>3 DEF NetEntry
<1>15. NetLive(w)' = NetLive(w) \cup {b}
  BY <1>1, <1>2, <1>5, <1>12 DEF NetLive
<1>16. NetLocalInv(w)' /\ NetThiefInv(w)'
  BY <1>6 DEF NetLocalInv, NetThiefInv, NetWinning, NetAt, NetLoc
<1>17. NetWindowInv(w)'
  <2>1. \A i \in NetLive(w)' : NetEntry(w, i)' \in NetTasks
    <3>1. SUFFICES ASSUME NEW i \in NetLive(w)' PROVE NetEntry(w, i)' \in NetTasks
      OBVIOUS
    <3>2. CASE i = b
      BY <1>13, <3>2
    <3>3. CASE i \in NetLive(w)
      <4>1. NetEntry(w, i)' = NetEntry(w, i)
        BY <1>14, <3>3
      <4> QED BY <3>3, <4>1, NetDequeTypes
    <3> QED BY <1>15, <3>2, <3>3
  <2>2. dq_top'[w] <= NetEnd(w)' /\ NetEnd(w)' - dq_top'[w] <= dq_cap'[w] - 1
    BY <1>1, <1>2, <1>5, <1>12
  <2> QED BY <1>6, <2>1, <2>2 DEF NetWindowInv, NetAt
<1>18. dq_buf'[w] \in [0 .. NetBufCap(w)' - 1 -> NetTasks \cup {Null}]
  BY <1>11, <1>12
<1>19. \A v \in NetWorkers : dq_top[v] <= dq_top'[v] /\ dq_top'[v] <= NetEnd(v)
  <2>1. \A v \in NetWorkers : dq_top[v] \in Int /\ dq_top[v] <= NetEnd(v)
    BY NetDequeTypes
  <2> QED BY <1>5, <2>1
<1>20. /\ NetBufCap(w) <= NetBufCap(w)' /\ net_torn' = net_torn
       /\ dq_top'[w] = dq_top[w] /\ dq_top[w] < NetEnd(w) =>
            dq_top[w] < NetEnd(w)' /\ NetEntry(w, dq_top[w])' = NetEntry(w, dq_top[w])
  <2>1. NetBufCap(w) <= NetBufCap(w)' /\ net_torn' = net_torn
    BY <1>1, <1>2, <1>5, <1>12 DEF netHistory
  <2>2. PICK t \in Nat : t = dq_top[w]
    BY <1>1
  <2>3. t < NetEnd(w) => t < NetEnd(w)' /\ NetEntry(w, t)' = NetEntry(w, t)
    <3>1. t < NetEnd(w) => t \in NetLive(w) /\ t < NetEnd(w)'
      BY <1>1, <1>2, <1>12, <2>2 DEF NetLive
    <3> QED BY <1>14, <3>1
  <2>4. dq_top'[w] = t
    BY <1>5, <2>2
  <2>5. NetEntry(w, dq_top[w])' = NetEntry(w, t)' /\ NetEntry(w, dq_top[w]) = NetEntry(w, t)
    BY <2>2, <2>4 DEF NetEntry
  <2> QED BY <2>1, <2>2, <2>3, <2>5
<1>21. /\ \A v \in NetWorkers : NetLocalInv(v)' /\ NetWindowInv(v)' /\ NetThiefInv(v)'
       /\ \A v \in NetWorkers : dq_bottom'[v] >= dq_top'[v] - 1
       /\ \A v \in NetWorkers : dq_buf'[v] \in [0 .. NetBufCap(v)' - 1 -> NetTasks \cup {Null}]
  BY <1>5, <1>8, <1>9, <1>16, <1>17, <1>18, <1>19, <1>20, NetFrame
<1>22. ASSUME NetClean PROVE NetPlaceInv' /\ NetTaken' = NetTaken
  <2>1. \A v \in NetWorkers : v # w =>
          /\ NetLive(v)' = NetLive(v) /\ \A i : NetEntry(v, i)' = NetEntry(v, i)
          /\ \A j \in NetTasks : NetHolds(v, j)' <=> NetHolds(v, j)
    <3>1. \A v \in NetWorkers : v # w =>
            /\ dq_bottom'[v] = dq_bottom[v] /\ dq_cap'[v] = dq_cap[v] /\ dq_buf'[v] = dq_buf[v]
            /\ dq_top'[v] = dq_top[v]
      BY <1>5, <1>8, <1>9
    <3> QED BY <1>1, <1>5, <3>1, NetOthers
  <2>2. \A j \in NetTasks : (NetHolds(w, j) <=> j = k) /\ ~NetHolds(w, j)'
    BY <1>1, <1>3, <1>6 DEF NetHolds, NetAt, NetLoc
  <2>3. NetPlaceInv /\ net_ran' = net_ran
    BY <1>5, <1>22 DEF NetInv, netHistory
  <2>4. \A v \in NetWorkers : \A i \in NetLive(v) : NetEntry(v, i)' = NetEntry(v, i)
    BY <1>14, <2>1
  <2>5. b \notin NetLive(w)
    BY <1>14
  <2> QED BY <1>13, <1>15, <2>1, <2>2, <2>3, <2>4, <2>5, NetEnter
<1> QED BY <1>5, <1>8, <1>9, <1>21, <1>22, NetMoved

-----------------------------------------------------------------------------
(* Steps that run or dequeue a task.                                        *)

(* There are finitely many tasks. *)
LEMMA NetFinite == IsFiniteSet(NetTasks)
<1>1. IsFiniteSet(1 .. NetSubmits)
  BY NetSubmitsAssumption, FS_Interval
<1> QED BY <1>1, NetClientsAssumption, FS_Product DEF NetTasks

(* What was dequeued was queued before. *)
LEMMA NetTakenQueued ==
  ASSUME NetQueueInv, NetLinkInv, NetTypeOK
  PROVE  NetTaken \subseteq net_queued
<1>1. SUFFICES ASSUME NEW k \in NetTaken PROVE k \in net_queued
  OBVIOUS
<1>2. PICK n \in (NetTaken \cup {Stub}) \ {q_tail} : q_next[n] = k
  BY <1>1 DEF NetQueueInv
<1>3. n \in NetNodes /\ k \in NetTasks
  BY <1>1, <1>2 DEF NetTaken, NetNodes
<1> QED BY <1>2, <1>3, NetValues DEF NetLinkInv

(* A step of w that leaves the deques alone, w not popping or growing. *)
LEMMA NetHandStep ==
  ASSUME NetInv, NEW w \in NetWorkers, NEW l \in NetLabels, NEW r \in NetLocals,
         net_wpc' = [net_wpc EXCEPT ![w] = l], net_loc' = [net_loc EXCEPT ![w] = r],
         UNCHANGED netDeques, net_torn' = net_torn,
         net_wpc[w] \notin {"cap", "top", "cas"}, l \in {"push", "loop"},
         l = "push" => r.task \in NetTasks
  PROVE  /\ \A v \in NetWorkers : NetLocalInv(v)' /\ NetWindowInv(v)' /\ NetThiefInv(v)'
         /\ \A v \in NetWorkers : dq_bottom'[v] >= dq_top'[v] - 1
         /\ \A v \in NetWorkers : dq_buf'[v] \in [0 .. NetBufCap(v)' - 1 -> NetTasks \cup {Null}]
         /\ dq_top' \in [NetWorkers -> Nat] /\ dq_bottom' \in [NetWorkers -> Int]
         /\ dq_cap' \in [NetWorkers -> Nat \ {0}] /\ DOMAIN dq_buf' = NetWorkers
         /\ \A v \in NetWorkers : NetLive(v)' = NetLive(v) /\ \A i : NetEntry(v, i)' = NetEntry(v, i)
         /\ \A v \in NetWorkers : v # w => \A j \in NetTasks : NetHolds(v, j)' <=> NetHolds(v, j)
<1>1. NetTypeOK /\ UNCHANGED <<dq_top, dq_bottom, dq_buf, dq_cap>>
  BY DEF NetInv, netDeques
<1>2. net_wpc'[w] = l /\ net_loc'[w] = r
  BY <1>1, NetMove
<1>3. /\ NetEnd(w)' = NetEnd(w) /\ NetBufCap(w)' = NetBufCap(w)
      /\ \A i : NetEntry(w, i)' = NetEntry(w, i)
  <2>1. NetEnd(w)' = NetEnd(w) /\ NetBufCap(w)' = NetBufCap(w)
    BY <1>1, <1>2 DEF NetEnd, NetBufCap, NetPopping, NetAt
  <2> QED BY <1>1, <2>1 DEF NetEntry
<1>4. NetLive(w)' = NetLive(w)
  BY <1>1, <1>3 DEF NetLive
<1>5. \A v \in NetWorkers : v # w =>
        /\ NetLive(v)' = NetLive(v) /\ \A i : NetEntry(v, i)' = NetEntry(v, i)
        /\ \A j \in NetTasks : NetHolds(v, j)' <=> NetHolds(v, j)
  BY <1>1, NetOthers
<1>6. NetLocalInv(w)' /\ NetThiefInv(w)'
  BY <1>2 DEF NetLocalInv, NetThiefInv, NetWinning, NetAt, NetLoc
<1>7. NetWindowInv(w)'
  <2>1. /\ dq_top[w] <= NetEnd(w) /\ NetEnd(w) - dq_top[w] <= dq_cap[w] - 1
        /\ \A i \in NetLive(w) : NetEntry(w, i) \in NetTasks
    BY NetDequeTypes
  <2> QED BY <1>1, <1>2, <1>3, <1>4, <2>1 DEF NetWindowInv, NetAt
<1>8. /\ dq_top' \in [NetWorkers -> Nat] /\ dq_bottom' \in [NetWorkers -> Int]
      /\ dq_cap' \in [NetWorkers -> Nat \ {0}] /\ DOMAIN dq_buf' = NetWorkers
      /\ dq_buf'[w] \in [0 .. NetBufCap(w)' - 1 -> NetTasks \cup {Null}]
  BY <1>1, <1>3 DEF NetTypeOK
<1>9. /\ \A v \in NetWorkers : dq_top[v] <= dq_top'[v] /\ dq_top'[v] <= NetEnd(v)
      /\ NetBufCap(w) <= NetBufCap(w)'
      /\ dq_top[w] < NetEnd(w) =>
           dq_top[w] < NetEnd(w)' /\ NetEntry(w, dq_top[w])' = NetEntry(w, dq_top[w])
  <2>1. \A v \in NetWorkers : dq_top[v] \in Int /\ dq_top[v] <= NetEnd(v) /\ NetBufCap(v) \in Int
    BY NetDequeTypes
  <2>2. NetEntry(w, dq_top[w])' = NetEntry(w, dq_top[w])
    BY <1>1, <1>3
  <2> QED BY <1>1, <1>3, <2>1, <2>2
<1>10. /\ \A v \in NetWorkers : NetLocalInv(v)' /\ NetWindowInv(v)' /\ NetThiefInv(v)'
       /\ \A v \in NetWorkers : dq_bottom'[v] >= dq_top'[v] - 1
       /\ \A v \in NetWorkers : dq_buf'[v] \in [0 .. NetBufCap(v)' - 1 -> NetTasks \cup {Null}]
  BY <1>1, <1>6, <1>7, <1>8, <1>9, NetFrame
<1> QED BY <1>3, <1>4, <1>5, <1>8, <1>10

(* The task in the hand of w is run. *)
LEMMA NetRunStep ==
  ASSUME NetInv, NEW w \in NetWorkers, w \notin net_asleep, NetRun(w)
  PROVE  NetInv'
<1>1. NetTypeOK /\ net_wpc[w] = "run" /\ NetLinkInv /\ NetWaitMeansDone
  BY DEF NetRun, NetAt, NetInv
<1>2. PICK k \in NetTasks : k = net_loc[w].task
  BY <1>1 DEF NetInv, NetLocalInv, NetAt, NetLoc
<1>3. PICK r \in NetLocals : r = NetNoLocals(w)
  BY NetNoLocalsType
<1>4. /\ net_wpc' = [net_wpc EXCEPT ![w] = "loop"] /\ "loop" \in NetLabels
      /\ net_loc' = [net_loc EXCEPT ![w] = r]
      /\ net_ran' = [net_ran EXCEPT ![k] = @ + 1]
      /\ net_early' = (net_early \/ NetUncounted(k))
      /\ pending_count' = pending_count - 1
      /\ UNCHANGED netDeques /\ net_torn' = net_torn /\ net_raced' = net_raced
      /\ UNCHANGED <<q_head, q_next, netClient, net_running, net_asleep, net_queued, net_spent, net_late>>
      /\ UNCHANGED <<q_tail, net_cpc, net_sent>>
  BY <1>2, <1>3 DEF NetRun, NetGoto, NetFresh, NetSet, NetLoc, NetLabels, netQueue, netClient,
                    NetUncounted
<1>5. net_wpc'[w] = "loop" /\ net_loc'[w] = r
  BY <1>1, <1>4, NetMove
<1>6. /\ net_ran \in [NetTasks -> Nat] /\ net_ran' \in [NetTasks -> Nat] /\ net_ran'[k] = net_ran[k] + 1
      /\ \A j \in NetTasks : j # k => net_ran'[j] = net_ran[j]
      /\ q_tail' \in NetNodes /\ pending_count \in Int /\ pending_count' \in Int
      /\ net_raced' \in BOOLEAN /\ net_torn' \in BOOLEAN /\ net_early' \in BOOLEAN
  <2>1. /\ net_ran \in [NetTasks -> Nat] /\ q_tail \in NetNodes /\ pending_count \in Int
        /\ net_raced \in BOOLEAN /\ net_torn \in BOOLEAN /\ net_early \in BOOLEAN
    BY <1>1 DEF NetTypeOK
  <2>2. net_early' \in BOOLEAN
    BY <1>4
  <2> QED BY <1>4, <2>1, <2>2
<1>7. /\ \A v \in NetWorkers : NetLocalInv(v)' /\ NetWindowInv(v)' /\ NetThiefInv(v)'
      /\ \A v \in NetWorkers : dq_bottom'[v] >= dq_top'[v] - 1
      /\ \A v \in NetWorkers : dq_buf'[v] \in [0 .. NetBufCap(v)' - 1 -> NetTasks \cup {Null}]
      /\ dq_top' \in [NetWorkers -> Nat] /\ dq_bottom' \in [NetWorkers -> Int]
      /\ dq_cap' \in [NetWorkers -> Nat \ {0}] /\ DOMAIN dq_buf' = NetWorkers
      /\ \A v \in NetWorkers : NetLive(v)' = NetLive(v) /\ \A i : NetEntry(v, i)' = NetEntry(v, i)
      /\ \A v \in NetWorkers : v # w => \A j \in NetTasks : NetHolds(v, j)' <=> NetHolds(v, j)
  BY <1>1, <1>4, NetHandStep
<1>8. \A j \in NetTasks : (NetHolds(w, j) <=> j = k) /\ ~NetHolds(w, j)'
  BY <1>1, <1>2, <1>5 DEF NetHolds, NetAt, NetLoc
<1>9. ASSUME NetClean
      PROVE  /\ NetPlaceInv /\ NetQueueInv /\ NetCountInv /\ net_ran[k] = 0 /\ ~NetInDeque(k)
             /\ \A v \in NetWorkers : ~NetHolds(v, k)'
             /\ k \in net_queued
  <2>1. NetPlaceInv /\ NetQueueInv /\ NetCountInv
    BY <1>9 DEF NetInv
  <2>2. /\ net_ran[k] = 0 /\ ~NetInDeque(k)
        /\ \A v \in NetWorkers : v # w => ~NetHolds(v, k)
    BY <1>8, <2>1 DEF NetPlaceInv
  <2>3. k \in NetTaken
    BY <1>8 DEF NetTaken
  <2>4. k \in net_queued
    BY <1>1, <2>1, <2>3, NetTakenQueued
  <2> QED BY <1>7, <1>8, <2>1, <2>2, <2>4
<1>10. NetClean' <=> NetClean
  BY <1>4 DEF NetClean
<1>11. NetWaitMeansDone'
  <2>1. SUFFICES ASSUME NetClean', ~net_early', NEW c \in NetClients,
                        net_cpc'[c] \in {"done", "join", "joined"},
                        NEW j \in net_queued', j[1] = c
                 PROVE  net_ran'[j] = 1
    BY DEF NetWaitMeansDone
  <2>2. net_ran[j] = 1 /\ j \in NetTasks
    BY <1>1, <1>4, <1>10, <2>1 DEF NetWaitMeansDone, NetTypeOK
  <2>3. j # k
    BY <1>9, <1>10, <2>1, <2>2
  <2> QED BY <1>6, <2>2, <2>3
<1>12. ASSUME NetClean PROVE NetPlaceInv' /\ NetTaken' = NetTaken
  <2>1. \A j : NetInDeque(j)' <=> NetInDeque(j)
    BY <1>7 DEF NetInDeque
  <2>2. net_ran'[k] = 1 /\ net_ran[k] = 0
    BY <1>6, <1>9, <1>12
  <2>3. NetTaken' = NetTaken
    <3>1. \A j \in NetTasks : j # k =>
            (net_ran'[j] > 0 \/ NetInDeque(j)' \/ \E v \in NetWorkers : NetHolds(v, j)')
              <=> (net_ran[j] > 0 \/ NetInDeque(j) \/ \E v \in NetWorkers : NetHolds(v, j))
      BY <1>6, <1>7, <1>8, <2>1
    <3>2. net_ran'[k] > 0 /\ NetHolds(w, k)
      BY <1>8, <2>2
    <3> QED BY <3>1, <3>2 DEF NetTaken
  <2>4. \A j \in NetTasks : net_ran'[j] <= 1
    BY <1>6, <1>9, <1>12, <2>2 DEF NetPlaceInv
  <2>5. \A v \in NetWorkers : \A i \in NetLive(v)' : net_ran'[NetEntry(v, i)'] = 0
    <3>1. SUFFICES ASSUME NEW v \in NetWorkers, NEW i \in NetLive(v) PROVE net_ran'[NetEntry(v, i)] = 0
      BY <1>7
    <3>2. NetEntry(v, i) \in NetTasks /\ NetEntry(v, i) # k /\ net_ran[NetEntry(v, i)] = 0
      BY <1>9, <1>12, NetDequeTypes DEF NetInDeque, NetPlaceInv
    <3> QED BY <1>6, <3>2
  <2>6. \A v, z \in NetWorkers : \A i \in NetLive(v)', j \in NetLive(z)' :
          NetEntry(v, i)' = NetEntry(z, j)' => v = z /\ i = j
    BY <1>7, <1>9, <1>12 DEF NetPlaceInv
  <2>7. \A v \in NetWorkers : \A j \in NetTasks : NetHolds(v, j)' =>
           /\ net_ran'[j] = 0 /\ ~NetInDeque(j)'
           /\ \A z \in NetWorkers : NetHolds(z, j)' => z = v
    <3>1. SUFFICES ASSUME NEW v \in NetWorkers, NEW j \in NetTasks, NetHolds(v, j)'
                   PROVE  /\ net_ran'[j] = 0 /\ ~NetInDeque(j)'
                          /\ \A z \in NetWorkers : NetHolds(z, j)' => z = v
      OBVIOUS
    <3>2. v # w /\ j # k /\ NetHolds(v, j)
      BY <1>7, <1>8, <1>9, <1>12, <3>1
    <3>3. /\ net_ran[j] = 0 /\ ~NetInDeque(j)
          /\ \A z \in NetWorkers : NetHolds(z, j) => z = v
      BY <1>9, <1>12, <3>2 DEF NetPlaceInv
    <3> QED BY <1>6, <1>7, <1>8, <2>1, <3>2, <3>3
  <2> QED BY <2>3, <2>4, <2>5, <2>6, <2>7 DEF NetPlaceInv
<1>13. ASSUME NetClean PROVE NetQueueInv'
  <2>1. /\ net_wpc'[w] = "loop"
        /\ \A v \in NetWorkers : v # w => net_wpc'[v] = net_wpc[v] /\ net_loc'[v] = net_loc[v]
    BY <1>1, <1>4, NetMove
  <2>2. \A v \in NetWorkers : /\ NetAt(v, {"next"})' => NetLoc(v)'.tail = q_tail
                              /\ NetAt(v, {"tail"})' => NetLoc(v)'.next = q_next[q_tail]
    BY <1>9, <1>13, <2>1 DEF NetAt, NetLoc, NetQueueInv
  <2> QED BY <1>4, <1>9, <1>12, <1>13, <2>2, NetQueueSame
<1>14. ASSUME NetClean PROVE NetCountInv'
  <2>1. NetCounted' = NetCounted
    BY <1>4 DEF NetCounted, NetUncounted, NetTaskOf
  <2>2. NetRan' = NetRan \cup {k} /\ k \notin NetRan
    BY <1>6, <1>9, <1>14 DEF NetRan
  <2>3. IsFiniteSet(NetRan) /\ IsFiniteSet(NetCounted)
    <3>1. NetRan \in SUBSET NetTasks /\ NetCounted \in SUBSET NetTasks
      BY <1>1 DEF NetRan, NetCounted, NetTypeOK
    <3> QED BY <3>1, NetFinite, FS_Subset
  <2>4. Cardinality(NetRan') = Cardinality(NetRan) + 1
    BY <2>2, <2>3, FS_AddElement
  <2>5. Cardinality(NetRan) \in Int /\ Cardinality(NetCounted) \in Int
    BY <2>3, FS_CardinalityType
  <2>6. pending_count = Cardinality(NetCounted) - Cardinality(NetRan)
    BY <1>9, <1>14 DEF NetCountInv
  <2>7. pending_count' = Cardinality(NetCounted') - Cardinality(NetRan')
    BY <1>4, <2>1, <2>4, <2>5, <2>6
  <2>8. ~net_early' => NetRan' \subseteq NetCounted'
    <3>1. ~net_early' => k \in NetCounted /\ NetRan \subseteq NetCounted
      BY <1>4, <1>9, <1>14 DEF NetCountInv, NetCounted
    <3> QED BY <2>1, <2>2, <3>1
  <2> QED BY <2>7, <2>8 DEF NetCountInv
<1> QED BY <1>4, <1>6, <1>7, <1>10, <1>11, <1>12, <1>13, <1>14, NetAssemble

(* The node after the tail is dequeued: it was not taken before, since its  *)
(* only predecessor is the tail.                                            *)
LEMMA NetDequeueTailStep ==
  ASSUME NetInv, NEW w \in NetWorkers, w \notin net_asleep, NetDequeueTail(w)
  PROVE  NetInv'
<1>1. NetTypeOK /\ net_wpc[w] = "tail" /\ NetLinkInv /\ NetWaitMeansDone
  BY DEF NetDequeueTail, NetAt, NetInv
<1>2. PICK x \in NetTasks : x = net_loc[w].next
  BY <1>1 DEF NetInv, NetLocalInv, NetAt, NetLoc
<1>3. PICK r \in NetLocals : r = [NetNoLocals(w) EXCEPT !.task = x]
  BY NetNoLocalsType
<1>4. r.task = x
  BY <1>3 DEF NetNoLocals
<1>5. /\ net_wpc' = [net_wpc EXCEPT ![w] = "push"] /\ "push" \in NetLabels
      /\ net_loc' = [net_loc EXCEPT ![w] = r]
      /\ q_tail' = x
      /\ net_raced' = (net_raced \/ \E v \in NetWorkers \ {w} : NetAt(v, {"next", "tail"}))
      /\ UNCHANGED netDeques /\ net_torn' = net_torn
      /\ UNCHANGED <<q_head, q_next, netClient, net_running, net_asleep, net_queued, net_spent, net_late>>
      /\ UNCHANGED <<net_cpc, net_sent, net_ran, net_early, pending_count>>
  BY <1>2, <1>3 DEF NetDequeueTail, NetGoto, NetHold, NetSet, NetLoc, NetLabels, netFlags, netClient
<1>6. /\ net_wpc'[w] = "push" /\ net_loc'[w] = r
      /\ \A v \in NetWorkers : v # w => net_wpc'[v] = net_wpc[v]
  BY <1>1, <1>5, NetMove
<1>7. /\ q_tail' \in NetNodes /\ pending_count' \in Int /\ net_ran' \in [NetTasks -> Nat]
      /\ net_raced' \in BOOLEAN /\ net_torn' \in BOOLEAN /\ net_early' \in BOOLEAN
  <2>1. /\ net_ran \in [NetTasks -> Nat] /\ pending_count \in Int
        /\ net_torn \in BOOLEAN /\ net_early \in BOOLEAN
    BY <1>1 DEF NetTypeOK
  <2>2. net_raced' \in BOOLEAN
    BY <1>5
  <2> QED BY <1>5, <2>1, <2>2, NetValues
<1>8. /\ \A v \in NetWorkers : NetLocalInv(v)' /\ NetWindowInv(v)' /\ NetThiefInv(v)'
      /\ \A v \in NetWorkers : dq_bottom'[v] >= dq_top'[v] - 1
      /\ \A v \in NetWorkers : dq_buf'[v] \in [0 .. NetBufCap(v)' - 1 -> NetTasks \cup {Null}]
      /\ dq_top' \in [NetWorkers -> Nat] /\ dq_bottom' \in [NetWorkers -> Int]
      /\ dq_cap' \in [NetWorkers -> Nat \ {0}] /\ DOMAIN dq_buf' = NetWorkers
      /\ \A v \in NetWorkers : NetLive(v)' = NetLive(v) /\ \A i : NetEntry(v, i)' = NetEntry(v, i)
      /\ \A v \in NetWorkers : v # w => \A j \in NetTasks : NetHolds(v, j)' <=> NetHolds(v, j)
  BY <1>1, <1>4, <1>5, NetHandStep
<1>9. \A j \in NetTasks : ~NetHolds(w, j) /\ (NetHolds(w, j)' <=> j = x)
  BY <1>1, <1>4, <1>6 DEF NetHolds, NetAt, NetLoc
<1>10. NetWaitMeansDone'
  <2>1. NetClean' => NetClean
    BY <1>5 DEF NetClean
  <2> QED BY <1>1, <1>5, <2>1 DEF NetWaitMeansDone
<1>11. ASSUME NetClean' PROVE NetPlaceInv' /\ NetQueueInv' /\ NetCountInv'
  <2>1. NetClean /\ \A v \in NetWorkers : v # w => ~NetAt(v, {"next", "tail"})
    BY <1>5, <1>11 DEF NetClean
  <2>2. NetPlaceInv /\ NetQueueInv /\ NetCountInv
    BY <2>1 DEF NetInv
  <2>3. x = q_next[q_tail] /\ q_tail \in NetNodes
    BY <1>1, <1>2, <2>2 DEF NetQueueInv, NetAt, NetLoc, NetTypeOK
  <2>4. x \notin NetTaken
    <3>1. SUFFICES ASSUME x \in NetTaken PROVE FALSE
      OBVIOUS
    <3>2. PICK n \in (NetTaken \cup {Stub}) \ {q_tail} : q_next[n] = x
      BY <2>2, <3>1 DEF NetQueueInv
    <3>3. n \in NetNodes /\ n # q_tail
      BY <3>2 DEF NetTaken, NetNodes
    <3> QED BY <1>1, <2>3, <3>2, <3>3, NetValues DEF NetLinkInv
  <2>5. /\ net_ran[x] = 0 /\ ~NetInDeque(x) /\ \A v \in NetWorkers : ~NetHolds(v, x)
    <3>1. net_ran[x] \in Nat
      BY <1>1 DEF NetTypeOK
    <3> QED BY <2>4, <3>1 DEF NetTaken
  <2>6. \A j : NetInDeque(j)' <=> NetInDeque(j)
    BY <1>8 DEF NetInDeque
  <2>7. NetTaken' = NetTaken \cup {x}
    <3>1. \A j \in NetTasks : j # x =>
            (net_ran'[j] > 0 \/ NetInDeque(j)' \/ \E v \in NetWorkers : NetHolds(v, j)')
              <=> (net_ran[j] > 0 \/ NetInDeque(j) \/ \E v \in NetWorkers : NetHolds(v, j))
      BY <1>5, <1>8, <1>9, <2>6
    <3>2. NetHolds(w, x)'
      BY <1>9
    <3> QED BY <3>1, <3>2 DEF NetTaken
  <2>8. NetPlaceInv'
    <3>1. /\ \A j \in NetTasks : net_ran'[j] <= 1
          /\ \A v \in NetWorkers : \A i \in NetLive(v)' : net_ran'[NetEntry(v, i)'] = 0
      BY <1>5, <1>8, <2>2 DEF NetPlaceInv
    <3>2. \A v, z \in NetWorkers : \A i \in NetLive(v)', j \in NetLive(z)' :
            NetEntry(v, i)' = NetEntry(z, j)' => v = z /\ i = j
      BY <1>8, <2>2 DEF NetPlaceInv
    <3>3. \A v \in NetWorkers : \A j \in NetTasks : NetHolds(v, j)' =>
             /\ net_ran'[j] = 0 /\ ~NetInDeque(j)'
             /\ \A z \in NetWorkers : NetHolds(z, j)' => z = v
      <4>1. SUFFICES ASSUME NEW v \in NetWorkers, NEW j \in NetTasks, NetHolds(v, j)'
                     PROVE  /\ net_ran'[j] = 0 /\ ~NetInDeque(j)'
                            /\ \A z \in NetWorkers : NetHolds(z, j)' => z = v
        OBVIOUS
      <4>2. CASE j = x
        BY <1>5, <1>8, <2>5, <2>6, <4>1, <4>2
      <4>3. CASE j # x
        <5>1. \A z \in NetWorkers : NetHolds(z, j)' <=> NetHolds(z, j)
          BY <1>8, <1>9, <4>3
        <5>2. /\ net_ran[j] = 0 /\ ~NetInDeque(j)
              /\ \A z \in NetWorkers : NetHolds(z, j) => z = v
          BY <2>2, <4>1, <5>1 DEF NetPlaceInv
        <5> QED BY <1>5, <2>6, <5>1, <5>2
      <4> QED BY <4>2, <4>3
    <3> QED BY <3>1, <3>2, <3>3 DEF NetPlaceInv
  <2>9. NetQueueInv'
    <3>1. q_tail' \in NetTaken' \cup {Stub}
      BY <1>5, <2>7
    <3>2. ASSUME NEW k \in NetTaken'
          PROVE  \E n \in (NetTaken' \cup {Stub}) \ {q_tail'} : q_next'[n] = k
      <4>1. CASE k \in NetTaken
        <5>1. PICK n \in (NetTaken \cup {Stub}) \ {q_tail} : q_next[n] = k
          BY <2>2, <4>1 DEF NetQueueInv
        <5>2. n # x /\ n \in NetTaken' \cup {Stub}
          BY <2>4, <2>7, <5>1, NetValues
        <5> QED BY <1>5, <5>1, <5>2
      <4>2. CASE k = x
        <5>1. q_tail \in NetTaken \cup {Stub} /\ q_tail # x
          BY <2>2, <2>4, NetValues DEF NetQueueInv
        <5> QED BY <1>5, <2>3, <2>7, <4>2, <5>1
      <4> QED BY <2>7, <3>2, <4>1, <4>2
    <3>3. \A v \in NetWorkers : ~NetAt(v, {"next"})' /\ ~NetAt(v, {"tail"})'
      BY <1>6, <2>1 DEF NetAt
    <3> QED BY <3>1, <3>2, <3>3 DEF NetQueueInv
  <2>10. NetCountInv'
    BY <1>5, <2>2, NetCountSame
  <2> QED BY <2>8, <2>9, <2>10
<1> QED BY <1>5, <1>7, <1>8, <1>10, <1>11, NetAssemble

-----------------------------------------------------------------------------
(* Steps of the clients.                                                    *)

(* A client touches no deque: what the workers know stays true. *)
LEMMA NetClientFrame ==
  ASSUME NetInv, UNCHANGED <<netDeques, net_wpc, net_loc, net_ran, net_raced, net_torn>>
  PROVE  /\ \A v \in NetWorkers : NetLocalInv(v)' /\ NetWindowInv(v)' /\ NetThiefInv(v)'
         /\ \A v \in NetWorkers : NetBufCap(v)' = NetBufCap(v)
         /\ NetClean' <=> NetClean
         /\ NetClean => NetPlaceInv' /\ NetTaken' = NetTaken
<1>1. UNCHANGED <<dq_top, dq_bottom, dq_buf, dq_cap>>
  BY DEF netDeques
<1>2. \A v \in NetWorkers : /\ NetLocalInv(v)' <=> NetLocalInv(v)
                            /\ NetWindowInv(v)' <=> NetWindowInv(v)
                            /\ NetThiefInv(v)' <=> NetThiefInv(v)
  BY <1>1 DEF NetLocalInv, NetWindowInv, NetThiefInv, NetWinning, NetLive, NetEnd, NetEntry,
              NetBufCap, NetPopping, NetAt, NetLoc
<1>3. \A v \in NetWorkers : /\ NetLive(v)' = NetLive(v) /\ NetBufCap(v)' = NetBufCap(v)
                            /\ \A i : NetEntry(v, i)' = NetEntry(v, i)
                            /\ \A k : NetHolds(v, k)' <=> NetHolds(v, k)
  BY <1>1 DEF NetLive, NetEnd, NetEntry, NetBufCap, NetPopping, NetAt, NetLoc, NetHolds
<1>4. NetClean' <=> NetClean
  BY DEF NetClean
<1>5. ASSUME NetClean PROVE NetPlaceInv' /\ NetTaken' = NetTaken
  <2>1. NetPlaceInv
    BY <1>5 DEF NetInv
  <2> QED BY <1>3, <2>1, NetPlaceSame
<1> QED BY <1>2, <1>3, <1>4, <1>5 DEF NetInv

(* A step of a client that changes neither the links nor the tasks. *)
LEMMA NetClientQuiet ==
  ASSUME NetInv,
         UNCHANGED <<netQueue, netDeques, net_wpc, net_loc, net_sent, net_prev>>,
         UNCHANGED <<net_queued, net_ran, net_raced, net_torn, net_early, net_late>>,
         net_spent' \in BOOLEAN,
         pending_count' \in Int, net_running' \in BOOLEAN, net_asleep' \subseteq NetWorkers,
         net_cpc' \in [NetClients -> NetClientLabels],
         \A d \in NetClients : /\ net_cpc'[d] = "link" <=> net_cpc[d] = "link"
                               /\ net_cpc'[d] = "count" => net_cpc[d] = "count",
         NetSleepInv', NetWaitMeansDone', NetClean => NetCountInv'
  PROVE  NetInv'
<1>1. /\ UNCHANGED <<q_head, q_tail, q_next, dq_top, dq_bottom, dq_buf, dq_cap>>
      /\ UNCHANGED <<net_queued, net_ran, net_raced, net_torn, net_early, net_late>>
  BY DEF netQueue, netDeques
<1>2. /\ \A v \in NetWorkers : NetLocalInv(v)' /\ NetWindowInv(v)' /\ NetThiefInv(v)'
      /\ \A v \in NetWorkers : NetBufCap(v)' = NetBufCap(v)
      /\ NetClean' <=> NetClean
      /\ NetClean => NetPlaceInv' /\ NetTaken' = NetTaken
  BY <1>1, NetClientFrame
<1>3. NetTypeOK'
  BY <1>1, <1>2 DEF NetInv, NetTypeOK
<1>4. NetLinkInv'
  <2>1. \A d \in NetClients : NetTaskOf(d)' = NetTaskOf(d)
    BY DEF NetTaskOf
  <2> QED BY <1>1, <2>1 DEF NetInv, NetLinkInv
<1>5. ASSUME NetClean PROVE NetQueueInv'
  BY <1>1, <1>2, <1>5, NetQueueSame DEF NetInv, NetQueueInv, NetAt, NetLoc
<1> QED BY <1>2, <1>3, <1>4, <1>5 DEF NetInv

(* A client that is not submitting changes nothing of what was counted. *)
LEMMA NetCountedSame ==
  ASSUME NetInv, UNCHANGED <<net_queued, net_ran, net_sent, net_early, pending_count>>,
         \A d \in NetClients : net_cpc'[d] \in {"link", "count"} <=> net_cpc[d] \in {"link", "count"}
  PROVE  NetClean => NetCountInv'
<1>1. \A k \in NetTasks : NetUncounted(k)' <=> NetUncounted(k)
  BY NetValues DEF NetUncounted, NetTaskOf
<1>2. net_queued \subseteq NetTasks
  BY DEF NetInv, NetTypeOK
<1>3. NetCounted' = NetCounted /\ NetRan' = NetRan
  BY <1>1, <1>2 DEF NetCounted, NetRan
<1> QED BY <1>3 DEF NetInv, NetCountInv

(* When nothing is pending and no task ran uncounted, all counted ones ran. *)
LEMMA NetAllRan ==
  ASSUME NetTypeOK, NetCountInv, NetPlaceInv, NetRan \subseteq NetCounted, pending_count <= 0
  PROVE  \A k \in NetCounted : net_ran[k] = 1
<1>1. NetCounted \in SUBSET NetTasks /\ NetRan \in SUBSET NetCounted
  BY DEF NetCounted, NetTypeOK
<1>2. IsFiniteSet(NetCounted)
  BY <1>1, NetFinite, FS_Subset
<1>3. IsFiniteSet(NetRan) /\ Cardinality(NetRan) <= Cardinality(NetCounted)
      /\ (Cardinality(NetCounted) = Cardinality(NetRan) => NetCounted = NetRan)
  BY <1>1, <1>2, FS_Subset
<1>4. Cardinality(NetRan) \in Nat /\ Cardinality(NetCounted) \in Nat
  BY <1>2, <1>3, FS_CardinalityType
<1>5. Cardinality(NetCounted) - Cardinality(NetRan) <= 0
  BY DEF NetCountInv
<1>6. NetCounted = NetRan
  BY <1>3, <1>4, <1>5
<1>7. SUFFICES ASSUME NEW k \in NetRan PROVE net_ran[k] = 1
  BY <1>6
<1>8. k \in NetTasks /\ net_ran[k] > 0 /\ net_ran[k] <= 1 /\ net_ran[k] \in Nat
  BY <1>7 DEF NetRan, NetPlaceInv, NetTypeOK
<1> QED BY <1>8

(* cx_threadpool_wait tests the count, sleeps, or returns. *)
LEMMA NetWaitStep ==
  ASSUME NetInv, NEW c \in NetClients, NetWait(c) \/ NetClientSleep(c)
  PROVE  NetInv'
<1>1. PICK l \in {"sleep", "asleep", "done"} :
        net_cpc' = [net_cpc EXCEPT ![c] = l] /\ (l = "done" => pending_count <= 0)
  <2>1. pending_count \in Int
    BY DEF NetInv, NetTypeOK
  <2>2. CASE NetWait(c)
    <3>1. CASE pending_count > 0
      BY <2>1, <2>2, <3>1 DEF NetWait, NetClientGoto
    <3>2. CASE pending_count <= 0
      BY <2>1, <2>2, <3>2 DEF NetWait, NetClientGoto
    <3> QED BY <2>1, <3>1, <3>2
  <2>3. CASE NetClientSleep(c)
    BY <2>3 DEF NetClientSleep, NetClientGoto
  <2> QED BY <2>2, <2>3
<1>2. /\ net_cpc[c] \in {"submit", "test", "sleep"}
      /\ UNCHANGED <<netQueue, netDeques, net_wpc, net_loc, net_sent, net_prev, netHistory>>
      /\ UNCHANGED <<pending_count, net_running, net_asleep>>
  BY DEF NetWait, NetClientSleep, netFlags
<1>3. UNCHANGED <<net_queued, net_ran, net_raced, net_torn, net_early, net_spent, net_late>>
  BY <1>2 DEF netHistory
<1>4. /\ net_cpc'[c] = l /\ \A d \in NetClients : d # c => net_cpc'[d] = net_cpc[d]
      /\ net_cpc' \in [NetClients -> NetClientLabels]
  BY <1>1 DEF NetInv, NetTypeOK, NetClientLabels
<1>5. /\ pending_count' \in Int /\ net_running' \in BOOLEAN /\ net_asleep' \subseteq NetWorkers
      /\ net_spent' \in BOOLEAN
  BY <1>2, <1>3 DEF NetInv, NetTypeOK
<1>6. \A d \in NetClients : net_cpc'[d] \in {"link", "count", "wake"} \/ net_cpc[d] \in {"link", "count", "wake"}
                           => net_cpc'[d] = net_cpc[d]
  BY <1>2, <1>4
<1>7. NetSleepInv'
  BY <1>2, <1>3, <1>6 DEF NetInv, NetSleepInv
<1>8. NetClean => NetCountInv'
  BY <1>2, <1>3, <1>6, NetCountedSame
<1>9. NetWaitMeansDone'
  <2>1. SUFFICES ASSUME NetClean', ~net_early', NEW d \in NetClients,
                        net_cpc'[d] \in {"done", "join", "joined"},
                        NEW k \in net_queued', k[1] = d
                 PROVE  net_ran'[k] = 1
    BY DEF NetWaitMeansDone
  <2>2. NetClean /\ ~net_early /\ k \in net_queued
    BY <1>3, <2>1 DEF NetClean
  <2>3. CASE d # c
    BY <1>3, <1>4, <2>1, <2>2, <2>3 DEF NetInv, NetWaitMeansDone
  <2>4. CASE d = c
    <3>1. NetTypeOK /\ NetCountInv /\ NetPlaceInv /\ NetRan \subseteq NetCounted
      BY <2>2 DEF NetInv, NetCountInv
    <3>2. k \in NetCounted
      BY <1>2, <2>1, <2>2, <2>4 DEF NetCounted, NetUncounted
    <3>3. pending_count <= 0
      BY <1>1, <1>4, <2>1, <2>4
    <3> QED BY <1>3, <3>1, <3>2, <3>3, NetAllRan
  <2> QED BY <2>3, <2>4
<1> QED BY <1>2, <1>3, <1>4, <1>5, <1>6, <1>7, <1>8, <1>9, NetClientQuiet

(* A submission is counted, and about to wake the workers. *)
LEMMA NetCountStep ==
  ASSUME NetInv, NEW c \in NetClients, NetCount(c)
  PROVE  NetInv'
<1>1. /\ net_cpc[c] = "count" /\ net_cpc' = [net_cpc EXCEPT ![c] = "wake"]
      /\ pending_count' = pending_count + 1 /\ UNCHANGED <<net_asleep, net_running>>
      /\ UNCHANGED <<netQueue, netDeques, net_wpc, net_loc, net_sent, net_prev, netHistory>>
  BY DEF NetCount, NetClientGoto
<1>2. /\ pending_count \in Int /\ pending_count' \in Int /\ net_running' \in BOOLEAN
      /\ net_asleep' \subseteq NetWorkers
  BY <1>1 DEF NetInv, NetTypeOK
<1>3. /\ UNCHANGED <<net_queued, net_ran, net_raced, net_torn, net_early, net_spent, net_late>>
      /\ net_spent' \in BOOLEAN
  BY <1>1 DEF netHistory, NetInv, NetTypeOK
<1>4. /\ net_cpc'[c] = "wake" /\ \A d \in NetClients : d # c => net_cpc'[d] = net_cpc[d]
      /\ net_cpc' \in [NetClients -> NetClientLabels]
  BY <1>1 DEF NetInv, NetTypeOK, NetClientLabels
<1>5. NetSleepInv'
  BY <1>1, <1>4 DEF NetInv, NetSleepInv
<1>6. NetWaitMeansDone'
  BY <1>3, <1>4 DEF NetInv, NetWaitMeansDone, NetClean
<1>7. ASSUME NetClean PROVE NetCountInv'
  <2>1. PICK k \in net_queued : k = NetTaskOf(c)
    BY <1>1 DEF NetInv, NetLinkInv
  <2>2. k \in NetTasks /\ k[1] = c /\ net_queued \subseteq NetTasks
    BY <2>1 DEF NetInv, NetTypeOK, NetTaskOf
  <2>3. NetUncounted(k) /\ ~NetUncounted(k)'
    BY <1>1, <1>4, <2>1, <2>2 DEF NetUncounted
  <2>4. \A j \in NetTasks : j # k => (NetUncounted(j)' <=> NetUncounted(j))
    <3>1. SUFFICES ASSUME NEW j \in NetTasks, j # k PROVE NetUncounted(j)' <=> NetUncounted(j)
      OBVIOUS
    <3>2. CASE j[1] = c
      BY <1>4, <2>1, <3>1, <3>2 DEF NetUncounted
    <3>3. CASE j[1] # c
      BY <1>1, <1>4, <3>3, NetValues DEF NetUncounted, NetTaskOf
    <3> QED BY <3>2, <3>3
  <2>5. NetCounted' = NetCounted \cup {k} /\ k \notin NetCounted /\ NetRan' = NetRan
    BY <1>3, <2>1, <2>2, <2>3, <2>4 DEF NetCounted, NetRan
  <2>6. IsFiniteSet(NetCounted) /\ IsFiniteSet(NetRan)
    <3>1. NetRan \in SUBSET NetTasks /\ NetCounted \in SUBSET NetTasks
      BY <2>2 DEF NetRan, NetCounted
    <3> QED BY <3>1, NetFinite, FS_Subset
  <2>7. Cardinality(NetCounted') = Cardinality(NetCounted) + 1
    BY <2>5, <2>6, FS_AddElement
  <2>8. Cardinality(NetRan) \in Int /\ Cardinality(NetCounted) \in Int
    BY <2>6, FS_CardinalityType
  <2>9. /\ pending_count = Cardinality(NetCounted) - Cardinality(NetRan)
        /\ ~net_early => NetRan \subseteq NetCounted
    BY <1>7 DEF NetInv, NetCountInv
  <2>10. pending_count' = Cardinality(NetCounted') - Cardinality(NetRan')
    BY <1>1, <2>5, <2>7, <2>8, <2>9
  <2>11. ~net_early' => NetRan' \subseteq NetCounted'
    BY <1>3, <2>5, <2>9
  <2> QED BY <2>10, <2>11 DEF NetCountInv
<1> QED BY <1>1, <1>2, <1>3, <1>4, <1>5, <1>6, <1>7, NetClientQuiet

(* Whom a wake may wake, and how it moves the clients. *)
LEMMA NetWakeMoves ==
  ASSUME NetTypeOK, NEW c \in NetClients, NEW l \in NetClientLabels, NEW W \in NetWakeable,
         NetWakeThen(c, l, W)
  PROVE  /\ net_asleep' \subseteq net_asleep /\ net_cpc' \in [NetClients -> NetClientLabels]
         /\ net_cpc'[c] = l
         /\ \A d \in NetClients : d # c =>
           net_cpc'[d] = net_cpc[d] \/ (net_cpc[d] = "asleep" /\ net_cpc'[d] = "test")
<1>1. \A d \in NetClients : <<"client", d>> \in W => net_cpc[d] = "asleep"
  BY DEF NetWakeable
<1>2. \A d \in NetClients :
        net_cpc'[d] = IF d = c THEN l ELSE IF <<"client", d>> \in W THEN "test" ELSE net_cpc[d]
  BY DEF NetWakeThen
<1>3. net_cpc' \in [NetClients -> NetClientLabels]
  <2>1. net_cpc' = [d \in NetClients |-> net_cpc'[d]]
    BY DEF NetWakeThen
  <2>2. \A d \in NetClients : net_cpc'[d] \in NetClientLabels
    BY <1>2 DEF NetTypeOK, NetClientLabels
  <2> QED BY <2>1, <2>2
<1>4. net_asleep' \subseteq net_asleep
  BY DEF NetWakeThen
<1> QED BY <1>1, <1>2, <1>3, <1>4

(* A submission wakes; when it leaves all workers asleep, it woke clients. *)
LEMMA NetWakeStep ==
  ASSUME NetInv, NEW c \in NetClients, NetWake(c)
  PROVE  NetInv'
<1>1. PICK W \in NetWakeable :
        /\ NetWakeThen(c, "submit", W)
        /\ net_spent' = (net_spent \/ (net_asleep # {} /\ net_asleep' = net_asleep))
  BY DEF NetWake
<1>2. /\ net_cpc[c] = "wake"
      /\ UNCHANGED <<netQueue, netDeques, pending_count, net_running, net_wpc, net_loc>>
      /\ UNCHANGED <<net_sent, net_prev, net_queued, net_ran, net_raced, net_torn, net_early, net_late>>
  BY DEF NetWake
<1>3. NetTypeOK /\ NetSleepInv /\ "submit" \in NetClientLabels
  BY DEF NetInv, NetClientLabels
<1>4. /\ net_asleep' \subseteq net_asleep /\ net_cpc' \in [NetClients -> NetClientLabels]
      /\ net_cpc'[c] = "submit"
      /\ \A d \in NetClients : d # c =>
           net_cpc'[d] = net_cpc[d] \/ (net_cpc[d] = "asleep" /\ net_cpc'[d] = "test")
  BY <1>1, <1>3, NetWakeMoves
<1>5. /\ pending_count' \in Int /\ net_running' \in BOOLEAN /\ net_asleep' \subseteq NetWorkers
      /\ net_spent' \in BOOLEAN
  BY <1>1, <1>2, <1>3, <1>4 DEF NetTypeOK
<1>6. NetSleepInv'
  <2> DEFINE there == {w \in NetWorkers : net_wpc[w] # "exit"}
  <2>1. net_asleep \subseteq there /\ there' = there
    BY <1>2, <1>3 DEF NetSleepInv
  <2>2. ASSUME ~net_spent', there # {}, there \subseteq net_asleep' PROVE FALSE
    <3>1. net_asleep' = net_asleep
      BY <1>4, <2>1, <2>2
    <3> QED BY <1>1, <2>1, <2>2, <3>1
  <2> QED BY <1>4, <2>1, <2>2 DEF NetSleepInv
<1>7. NetWaitMeansDone'
  BY <1>2, <1>4 DEF NetInv, NetWaitMeansDone, NetClean
<1>8. NetClean => NetCountInv'
  BY <1>2, <1>4, NetCountedSame
<1> QED BY <1>2, <1>4, <1>5, <1>6, <1>7, <1>8, NetClientQuiet

(* The pool is destroyed, and the last thread joined. *)
LEMMA NetDestroyStep ==
  ASSUME NetInv, NEW c \in NetClients, NetDestroy(c) \/ NetJoined(c)
  PROVE  NetInv'
<1>1. /\ UNCHANGED <<netQueue, netDeques, net_wpc, net_loc, net_sent, net_prev, netHistory>>
      /\ pending_count' = pending_count /\ net_cpc[c] \in {"done", "join"}
  BY DEF NetDestroy, NetJoined, netFlags
<1>2. /\ UNCHANGED <<net_queued, net_ran, net_raced, net_torn, net_early, net_spent, net_late>>
      /\ net_spent' \in BOOLEAN
  BY <1>1 DEF netHistory, NetInv, NetTypeOK
<1>3. /\ net_cpc' \in [NetClients -> NetClientLabels] /\ net_cpc'[c] \in {"join", "joined"}
      /\ \A d \in NetClients : d # c =>
           net_cpc'[d] = net_cpc[d] \/ (net_cpc[d] = "asleep" /\ net_cpc'[d] = "test")
      /\ net_asleep' \subseteq net_asleep /\ net_running' \in BOOLEAN
      /\ ~net_running' \/ UNCHANGED <<net_running, net_asleep>>
  <2>1. NetTypeOK /\ {"join", "joined"} \subseteq NetClientLabels
    BY DEF NetInv, NetClientLabels
  <2>2. CASE NetJoined(c)
    BY <2>1, <2>2 DEF NetJoined, NetClientGoto, netFlags, NetTypeOK, NetClientLabels
  <2>3. CASE NetDestroy(c)
    <3>1. PICK W \in NetWakeable : NetWakeThen(c, "join", W)
      BY <2>3 DEF NetDestroy
    <3>2. net_running' = FALSE
      BY <2>3 DEF NetDestroy
    <3> QED BY <2>1, <3>1, <3>2, NetWakeMoves
  <2> QED BY <2>2, <2>3
<1>4. pending_count' \in Int /\ net_asleep' \subseteq NetWorkers
  BY <1>1, <1>3 DEF NetInv, NetTypeOK
<1>5. NetSleepInv'
  <2>1. \A d \in NetClients : net_cpc'[d] = "wake" <=> net_cpc[d] = "wake"
    BY <1>1, <1>3
  <2>2. {w \in NetWorkers : net_wpc'[w] # "exit"} = {w \in NetWorkers : net_wpc[w] # "exit"}
    BY <1>1
  <2> QED BY <1>1, <1>2, <1>3, <2>1, <2>2 DEF NetInv, NetSleepInv
<1>6. NetWaitMeansDone'
  <2>1. \A d \in NetClients : net_cpc'[d] \in {"done", "join", "joined"} =>
                               net_cpc[d] \in {"done", "join", "joined"}
    BY <1>1, <1>3
  <2> QED BY <1>2, <2>1 DEF NetInv, NetWaitMeansDone, NetClean
<1>7. NetClean => NetCountInv'
  BY <1>1, <1>2, <1>3, NetCountedSame
<1> QED BY <1>1, <1>2, <1>3, <1>4, <1>5, <1>6, <1>7, NetClientQuiet

(* A submission exchanges the head of the queue, or fails. *)
LEMMA NetSubmitStep ==
  ASSUME NetInv, NEW c \in NetClients, NetSubmit(c)
  PROVE  NetInv'
<1>1. /\ NetTypeOK /\ NetLinkInv /\ NetSleepInv /\ NetWaitMeansDone
      /\ net_cpc[c] = "submit" /\ net_sent[c] \in Nat /\ net_sent[c] + 1 \in 1 .. NetSubmits
  BY NetSubmitsAssumption DEF NetInv, NetTypeOK, NetSubmit
<1>2. PICK k \in NetTasks : k = <<c, net_sent[c] + 1>>
  BY <1>1 DEF NetTasks
<1>3. k[1] = c /\ k[2] = net_sent[c] + 1 /\ k # Stub /\ k \in NetNodes /\ k # Null
  BY <1>2, NetValues
<1>4. k \notin net_queued
  BY <1>1, <1>3 DEF NetLinkInv
<1>5. /\ net_sent' = [net_sent EXCEPT ![c] = net_sent[c] + 1]
      /\ UNCHANGED <<q_tail, q_next, netDeques, pending_count, net_running, net_asleep>>
      /\ UNCHANGED <<net_wpc, net_loc, net_ran, net_raced, net_torn, net_early, net_spent, net_late>>
  BY DEF NetSubmit, netFlags
<1>6. /\ net_sent' \in [NetClients -> 0 .. NetSubmits] /\ net_sent'[c] = net_sent[c] + 1
      /\ \A d \in NetClients : d # c => net_sent'[d] = net_sent[d]
      /\ \A d \in NetClients : net_sent[d] \in Nat
  <2>1. net_sent \in [NetClients -> 0 .. NetSubmits] /\ net_sent[c] + 1 \in 0 .. NetSubmits
    BY <1>1 DEF NetTypeOK
  <2> QED BY <1>5, <2>1
<1>7. /\ \A v \in NetWorkers : NetLocalInv(v)' /\ NetWindowInv(v)' /\ NetThiefInv(v)'
      /\ \A v \in NetWorkers : NetBufCap(v)' = NetBufCap(v)
      /\ NetClean' <=> NetClean
      /\ NetClean => NetPlaceInv' /\ NetTaken' = NetTaken
  BY <1>5, NetClientFrame
<1>8. NetSleepInv'
  <2>1. net_cpc' = net_cpc \/ net_cpc' = [net_cpc EXCEPT ![c] = "link"]
    BY DEF NetSubmit, NetClientGoto
  <2>2. net_spent' = net_spent
    BY <1>5
  <2>3. \A d \in NetClients : net_cpc'[d] = "wake" <=> net_cpc[d] = "wake"
    BY <1>1, <2>1 DEF NetTypeOK
  <2> QED BY <1>1, <1>5, <2>2, <2>3 DEF NetSleepInv
<1>9. NetClean => NetQueueInv'
  BY <1>5, <1>7, NetQueueSame DEF NetInv, NetQueueInv, NetAt, NetLoc
<1>10. UNCHANGED <<dq_top, dq_bottom, dq_buf, dq_cap>>
  BY <1>5 DEF netDeques
<1>11. CASE UNCHANGED <<q_head, net_prev, net_queued, net_cpc>>
  <2>1. NetTypeOK'
    BY <1>1, <1>5, <1>6, <1>7, <1>10, <1>11 DEF NetTypeOK
  <2>2. \A d \in NetClients : net_cpc[d] \in {"link", "count"} => NetTaskOf(d)' = NetTaskOf(d)
    BY <1>1, <1>6 DEF NetTaskOf
  <2>3. \A j \in net_queued : j[2] <= net_sent'[j[1]]
    <3>1. SUFFICES ASSUME NEW j \in net_queued PROVE j[2] <= net_sent'[j[1]]
      OBVIOUS
    <3>2. j[1] \in NetClients /\ j[2] \in Nat /\ j[2] <= net_sent[j[1]]
      BY <1>1, NetValues, NetSubmitsAssumption DEF NetTypeOK, NetLinkInv
    <3> QED BY <1>6, <3>2
  <2>4. NetLinkInv'
    BY <1>1, <1>5, <1>11, <2>2, <2>3 DEF NetLinkInv
  <2>5. NetWaitMeansDone'
    BY <1>1, <1>5, <1>7, <1>11 DEF NetWaitMeansDone
  <2>6. NetCounted' = NetCounted
    <3>1. \A j \in NetTasks : NetUncounted(j)' <=> NetUncounted(j)
      BY <1>11, <2>2, NetValues DEF NetUncounted
    <3> QED BY <1>1, <1>11, <3>1 DEF NetCounted, NetTypeOK
  <2>7. NetClean => NetCountInv'
    BY <1>5, <2>6 DEF NetInv, NetCountInv, NetRan
  <2> QED BY <1>7, <1>8, <1>9, <2>1, <2>4, <2>5, <2>7 DEF NetInv
<1>12. CASE /\ q_head' = k /\ net_prev' = [net_prev EXCEPT ![c] = q_head]
            /\ net_queued' = net_queued \cup {k}
            /\ net_cpc' = [net_cpc EXCEPT ![c] = "link"]
  <2>1. /\ net_cpc' \in [NetClients -> NetClientLabels]
        /\ net_cpc'[c] = "link" /\ \A d \in NetClients : d # c => net_cpc'[d] = net_cpc[d]
        /\ net_prev' \in [NetClients -> NetNodes]
        /\ net_prev'[c] = q_head /\ \A d \in NetClients : d # c => net_prev'[d] = net_prev[d]
    BY <1>1, <1>12 DEF NetTypeOK, NetClientLabels
  <2>2. NetTypeOK'
    BY <1>1, <1>3, <1>5, <1>6, <1>7, <1>10, <1>12, <2>1 DEF NetTypeOK
  <2>3. NetTaskOf(c)' = k /\ \A d \in NetClients : d # c => NetTaskOf(d)' = NetTaskOf(d)
    BY <1>2, <1>6 DEF NetTaskOf
  <2>4. NetLinkInv'
    <3>1. q_head' \in net_queued' \cup {Stub} /\ q_next'[q_head'] = Null
      <4>1. q_next[k] = Null
        BY <1>1, <1>3, <1>4 DEF NetLinkInv
      <4> QED BY <1>5, <1>12, <4>1
    <3>2. /\ \A n \in NetNodes : q_next'[n] # Null =>
               q_next'[n] \in net_queued' /\ n \in net_queued' \cup {Stub}
          /\ \A m, n \in NetNodes : q_next'[m] = q_next'[n] /\ q_next'[m] # Null => m = n
      BY <1>1, <1>5, <1>12 DEF NetLinkInv
    <3>3. \A j \in net_queued' : j[2] <= net_sent'[j[1]]
      <4>1. ASSUME NEW j \in net_queued PROVE j[2] <= net_sent'[j[1]]
        <5>1. j[1] \in NetClients /\ j[2] \in Nat /\ j[2] <= net_sent[j[1]]
          BY <1>1, NetValues, NetSubmitsAssumption DEF NetTypeOK, NetLinkInv
        <5> QED BY <1>6, <5>1
      <4>2. k[2] <= net_sent'[k[1]]
        BY <1>1, <1>3, <1>6
      <4> QED BY <1>12, <4>1, <4>2
    <3>4. \A d \in NetClients : net_cpc'[d] \in {"link", "count"} => NetTaskOf(d)' \in net_queued'
      BY <1>1, <1>12, <2>1, <2>3 DEF NetLinkInv
    <3>5. ASSUME NEW d \in NetClients, net_cpc'[d] = "link"
          PROVE  /\ net_prev'[d] \in net_queued' \cup {Stub} /\ net_prev'[d] # q_head'
                 /\ q_next'[net_prev'[d]] = Null
                 /\ \A n \in NetNodes : q_next'[n] # NetTaskOf(d)'
      <4>1. CASE d = c
        BY <1>1, <1>3, <1>4, <1>5, <1>12, <2>1, <2>3, <4>1 DEF NetLinkInv
      <4>2. CASE d # c
        BY <1>1, <1>3, <1>4, <1>5, <1>12, <2>1, <2>3, <3>5, <4>2 DEF NetLinkInv
      <4> QED BY <4>1, <4>2
    <3>6. \A d, e \in NetClients : net_cpc'[d] = "link" /\ net_cpc'[e] = "link"
                                     /\ net_prev'[d] = net_prev'[e] => d = e
      <4>1. \A d \in NetClients : d # c /\ net_cpc'[d] = "link" => net_prev'[d] # net_prev'[c]
        BY <1>1, <2>1 DEF NetLinkInv
      <4>2. \A d, e \in NetClients : d # c /\ e # c /\ net_cpc'[d] = "link" /\ net_cpc'[e] = "link"
                                       /\ net_prev'[d] = net_prev'[e] => d = e
        BY <1>1, <2>1 DEF NetLinkInv
      <4> QED BY <4>1, <4>2
    <3> QED BY <3>1, <3>2, <3>3, <3>4, <3>5, <3>6 DEF NetLinkInv
  <2>5. NetWaitMeansDone'
    <3>1. SUFFICES ASSUME NetClean', ~net_early', NEW d \in NetClients,
                          net_cpc'[d] \in {"done", "join", "joined"},
                          NEW j \in net_queued', j[1] = d
                   PROVE  net_ran'[j] = 1
      BY DEF NetWaitMeansDone
    <3>2. d # c /\ j # k /\ j \in net_queued
      BY <1>3, <1>12, <2>1, <3>1
    <3> QED BY <1>1, <1>5, <1>7, <2>1, <3>1, <3>2 DEF NetWaitMeansDone
  <2>6. NetCounted' = NetCounted
    <3>1. \A j \in NetTasks : j # k => (NetUncounted(j)' <=> NetUncounted(j))
      <4>1. SUFFICES ASSUME NEW j \in NetTasks, j # k PROVE NetUncounted(j)' <=> NetUncounted(j)
        OBVIOUS
      <4>2. CASE j[1] = c
        BY <1>1, <2>3, <4>1, <4>2 DEF NetUncounted
      <4>3. CASE j[1] # c
        BY <2>1, <2>3, <4>3, NetValues DEF NetUncounted
      <4> QED BY <4>2, <4>3
    <3>2. NetUncounted(k)'
      BY <1>3, <2>1, <2>3 DEF NetUncounted
    <3>3. net_queued \subseteq NetTasks
      BY <1>1 DEF NetTypeOK
    <3> QED BY <1>4, <1>12, <3>1, <3>2, <3>3 DEF NetCounted
  <2>7. NetClean => NetCountInv'
    BY <1>5, <2>6 DEF NetInv, NetCountInv, NetRan
  <2> QED BY <1>7, <1>8, <1>9, <2>2, <2>4, <2>5, <2>7 DEF NetInv
<1> QED BY <1>2, <1>11, <1>12 DEF NetSubmit, NetClientGoto

(* The predecessor, found by the exchange, gets its successor. *)
LEMMA NetLinkStep ==
  ASSUME NetInv, NEW c \in NetClients, NetLink(c)
  PROVE  NetInv'
<1>1. /\ NetTypeOK /\ NetLinkInv /\ NetSleepInv /\ NetWaitMeansDone /\ net_cpc[c] = "link"
  BY DEF NetInv, NetLink
<1>2. PICK k \in NetTasks : k = NetTaskOf(c)
  BY <1>1 DEF NetLinkInv, NetTypeOK
<1>3. PICK p \in NetNodes : p = net_prev[c]
  BY <1>1 DEF NetTypeOK
<1>4. /\ p \in net_queued \cup {Stub} /\ p # q_head /\ q_next[p] = Null
      /\ k \in net_queued /\ \A n \in NetNodes : q_next[n] # k
      /\ k[1] = c /\ k # Null
  BY <1>1, <1>2, <1>3, NetValues DEF NetLinkInv, NetTaskOf
<1>5. /\ q_next' = [q_next EXCEPT ![p] = k] /\ net_cpc' = [net_cpc EXCEPT ![c] = "count"]
      /\ net_prev' = [net_prev EXCEPT ![c] = Stub]
      /\ UNCHANGED <<q_head, q_tail, netDeques, pending_count, net_running, net_asleep, net_sent>>
      /\ UNCHANGED <<net_wpc, net_loc, net_queued, net_ran, net_raced, net_torn, net_early, net_spent, net_late>>
  BY <1>2, <1>3 DEF NetLink, NetClientGoto, netFlags, netHistory
<1>6. /\ q_next' \in [NetNodes -> NetTasks \cup {Null}] /\ q_next'[p] = k
      /\ \A n \in NetNodes : n # p => q_next'[n] = q_next[n]
  BY <1>1, <1>5 DEF NetTypeOK
<1>7. /\ net_cpc' \in [NetClients -> NetClientLabels]
      /\ net_cpc'[c] = "count" /\ \A d \in NetClients : d # c => net_cpc'[d] = net_cpc[d]
      /\ net_prev' \in [NetClients -> NetNodes]
      /\ \A d \in NetClients : d # c => net_prev'[d] = net_prev[d]
  BY <1>1, <1>5, NetValues DEF NetTypeOK, NetClientLabels
<1>8. /\ \A v \in NetWorkers : NetLocalInv(v)' /\ NetWindowInv(v)' /\ NetThiefInv(v)'
      /\ \A v \in NetWorkers : NetBufCap(v)' = NetBufCap(v)
      /\ NetClean' <=> NetClean
      /\ NetClean => NetPlaceInv' /\ NetTaken' = NetTaken
  BY <1>5, NetClientFrame
<1>9. UNCHANGED <<dq_top, dq_bottom, dq_buf, dq_cap>>
  BY <1>5 DEF netDeques
<1>10. NetTypeOK'
  BY <1>1, <1>5, <1>6, <1>7, <1>8, <1>9 DEF NetTypeOK
<1>11. NetSleepInv' /\ NetWaitMeansDone'
  BY <1>1, <1>5, <1>7, <1>8 DEF NetSleepInv, NetWaitMeansDone
<1>12. \A d \in NetClients : NetTaskOf(d)' = NetTaskOf(d)
  BY <1>5 DEF NetTaskOf
<1>13. NetLinkInv'
  <2>1. q_head' \in net_queued' \cup {Stub} /\ q_next'[q_head'] = Null
    BY <1>1, <1>4, <1>5, <1>6 DEF NetLinkInv, NetTypeOK
  <2>2. \A n \in NetNodes : q_next'[n] # Null =>
          q_next'[n] \in net_queued' /\ n \in net_queued' \cup {Stub}
    BY <1>1, <1>4, <1>5, <1>6 DEF NetLinkInv
  <2>3. \A m, n \in NetNodes : q_next'[m] = q_next'[n] /\ q_next'[m] # Null => m = n
    BY <1>1, <1>4, <1>6 DEF NetLinkInv
  <2>4. /\ \A j \in net_queued' : j[2] <= net_sent'[j[1]]
        /\ \A d \in NetClients : net_cpc'[d] \in {"link", "count"} => NetTaskOf(d)' \in net_queued'
    BY <1>1, <1>5, <1>7, <1>12 DEF NetLinkInv
  <2>5. ASSUME NEW d \in NetClients, net_cpc'[d] = "link"
        PROVE  /\ net_prev'[d] \in net_queued' \cup {Stub} /\ net_prev'[d] # q_head'
               /\ q_next'[net_prev'[d]] = Null
               /\ \A n \in NetNodes : q_next'[n] # NetTaskOf(d)'
    <3>1. d # c /\ net_cpc[d] = "link" /\ net_prev'[d] = net_prev[d]
      BY <1>7, <2>5
    <3>2. /\ net_prev[d] \in net_queued \cup {Stub} /\ net_prev[d] # q_head
          /\ q_next[net_prev[d]] = Null /\ \A n \in NetNodes : q_next[n] # NetTaskOf(d)
      BY <1>1, <3>1 DEF NetLinkInv
    <3>3. net_prev[d] # p /\ net_prev[d] \in NetNodes
      BY <1>1, <1>3, <3>1 DEF NetLinkInv, NetTypeOK
    <3>4. NetTaskOf(d) # k
      BY <1>4, <3>1 DEF NetTaskOf
    <3> QED BY <1>5, <1>6, <1>12, <3>1, <3>2, <3>3, <3>4
  <2>6. \A d, e \in NetClients : net_cpc'[d] = "link" /\ net_cpc'[e] = "link"
                                   /\ net_prev'[d] = net_prev'[e] => d = e
    <3>1. \A d \in NetClients : net_cpc'[d] = "link" =>
            net_cpc[d] = "link" /\ net_prev'[d] = net_prev[d]
      BY <1>7
    <3> QED BY <1>1, <3>1 DEF NetLinkInv
  <2> QED BY <2>1, <2>2, <2>3, <2>4, <2>5, <2>6 DEF NetLinkInv
<1>14. ASSUME NetClean PROVE NetQueueInv'
  <2>1. NetQueueInv /\ NetTaken' = NetTaken
    BY <1>8, <1>14 DEF NetInv
  <2>2. q_tail' \in NetTaken' \cup {Stub}
    BY <1>5, <2>1 DEF NetQueueInv
  <2>3. ASSUME NEW j \in NetTaken'
        PROVE  \E n \in (NetTaken' \cup {Stub}) \ {q_tail'} : q_next'[n] = j
    <3>1. PICK n \in (NetTaken \cup {Stub}) \ {q_tail} : q_next[n] = j
      BY <2>1, <2>3 DEF NetQueueInv
    <3>2. n \in NetNodes /\ j # Null
      BY <2>1, <2>3, <3>1, NetValues DEF NetTaken, NetNodes
    <3> QED BY <1>4, <1>5, <1>6, <2>1, <3>1, <3>2
  <2>4. \A v \in NetWorkers : NetAt(v, {"next"})' => NetLoc(v)'.tail = q_tail'
    BY <1>5, <2>1 DEF NetQueueInv, NetAt, NetLoc
  <2>5. ASSUME NEW v \in NetWorkers, NetAt(v, {"tail"})' PROVE NetLoc(v)'.next = q_next'[q_tail']
    <3>1. NetAt(v, {"tail"}) /\ NetLoc(v)' = NetLoc(v)
      BY <1>5, <2>5 DEF NetAt, NetLoc
    <3>2. NetLoc(v).next = q_next[q_tail] /\ NetLoc(v).next \in NetTasks
      BY <2>1, <3>1 DEF NetQueueInv, NetInv, NetLocalInv
    <3>3. q_tail # p /\ q_tail \in NetNodes
      BY <1>1, <1>4, <3>2, NetValues DEF NetTypeOK
    <3> QED BY <1>5, <1>6, <3>1, <3>2, <3>3
  <2> QED BY <2>2, <2>3, <2>4, <2>5 DEF NetQueueInv
<1>15. NetCounted' = NetCounted
  <2>1. \A j \in NetTasks : NetUncounted(j)' <=> NetUncounted(j)
    BY <1>1, <1>7, <1>12, NetValues DEF NetUncounted
  <2> QED BY <1>1, <1>5, <2>1 DEF NetCounted, NetTypeOK
<1>16. NetClean => NetCountInv'
  BY <1>5, <1>15 DEF NetInv, NetCountInv, NetRan
<1> QED BY <1>8, <1>10, <1>11, <1>13, <1>14, <1>16 DEF NetInv

-----------------------------------------------------------------------------
(* The theorems.                                                            *)

LEMMA NetInitInv == NetInit => NetInv
<1> SUFFICES ASSUME NetInit PROVE NetInv
  OBVIOUS
<1>1. \A w \in NetWorkers : /\ net_wpc[w] \in {"loop", "exit"} /\ dq_top[w] = 0 /\ dq_bottom[w] = 0
                            /\ dq_cap[w] = NetInitCap /\ net_loc[w] = NetNoLocals(w)
                            /\ dq_buf[w] = [i \in 0 .. NetInitCap - 1 |-> Null]
  BY DEF NetInit
<1>2. \A w \in NetWorkers : NetBufCap(w) = NetInitCap /\ NetEnd(w) = 0 /\ NetLive(w) = {}
  <2>1. \A w \in NetWorkers : NetBufCap(w) = NetInitCap /\ NetEnd(w) = 0
    BY <1>1 DEF NetBufCap, NetEnd, NetPopping, NetAt
  <2> QED BY <1>1, <2>1 DEF NetLive
<1>3. NetTypeOK
  <2>1. net_loc \in [NetWorkers -> NetLocals]
    BY NetNoLocalsType DEF NetInit
  <2>2. \A w \in NetWorkers : dq_buf[w] \in [0 .. NetBufCap(w) - 1 -> NetTasks \cup {Null}]
    BY <1>1, <1>2
  <2>3. \A w \in NetWorkers : dq_bottom[w] >= dq_top[w] - 1
    BY <1>1
  <2>4. /\ q_head \in NetNodes /\ q_tail \in NetNodes
        /\ q_next \in [NetNodes -> NetTasks \cup {Null}]
        /\ net_prev \in [NetClients -> NetNodes]
    BY NetValues DEF NetInit
  <2>5. /\ dq_top \in [NetWorkers -> Nat] /\ dq_bottom \in [NetWorkers -> Int]
        /\ dq_cap \in [NetWorkers -> Nat \ {0}] /\ DOMAIN dq_buf = NetWorkers
        /\ pending_count \in Int /\ net_sent \in [NetClients -> 0 .. NetSubmits]
        /\ net_ran \in [NetTasks -> Nat]
    BY NetInitCapAssumption, NetSubmitsAssumption DEF NetInit
  <2>6. /\ net_wpc \in [NetWorkers -> NetLabels] /\ net_running \in BOOLEAN
        /\ net_asleep \subseteq NetWorkers /\ net_queued \subseteq NetTasks
        /\ net_cpc \in [NetClients -> NetClientLabels]
        /\ {net_raced, net_torn, net_early, net_spent, net_late} \subseteq BOOLEAN
    BY DEF NetInit, NetLabels, NetClientLabels
  <2> QED BY <2>1, <2>2, <2>3, <2>4, <2>5, <2>6 DEF NetTypeOK
<1>4. ASSUME NEW w \in NetWorkers PROVE NetLocalInv(w) /\ NetWindowInv(w) /\ NetThiefInv(w)
  <2>1. NetLocalInv(w) /\ NetThiefInv(w)
    BY <1>1 DEF NetLocalInv, NetThiefInv, NetWinning, NetAt
  <2>2. NetWindowInv(w)
    BY <1>1, <1>2, NetInitCapAssumption DEF NetWindowInv, NetAt
  <2> QED BY <2>1, <2>2
<1>5. NetLinkInv
  BY NetValues DEF NetInit, NetLinkInv
<1>6. NetSleepInv /\ NetWaitMeansDone
  BY DEF NetInit, NetSleepInv, NetWaitMeansDone
<1>7. NetTaken = {}
  <2>1. \A k \in NetTasks : net_ran[k] = 0
    BY DEF NetInit
  <2>2. \A k \in NetTasks : ~NetInDeque(k) /\ \A w \in NetWorkers : ~NetHolds(w, k)
    BY <1>1, <1>2 DEF NetInDeque, NetHolds, NetAt
  <2> QED BY <2>1, <2>2 DEF NetTaken
<1>8. NetPlaceInv
  <2>1. \A k \in NetTasks : net_ran[k] = 0
    BY DEF NetInit
  <2>2. \A w \in NetWorkers : \A k \in NetTasks : ~NetHolds(w, k)
    BY <1>1 DEF NetHolds, NetAt
  <2> QED BY <1>2, <2>1, <2>2 DEF NetPlaceInv
<1>9. NetQueueInv
  BY <1>1, <1>7 DEF NetQueueInv, NetInit, NetAt
<1>10. NetCountInv
  <2>1. NetCounted = {} /\ NetRan = {} /\ pending_count = 0
    BY DEF NetCounted, NetRan, NetInit
  <2> QED BY <2>1, FS_EmptySet DEF NetCountInv
<1> QED BY <1>3, <1>4, <1>5, <1>6, <1>8, <1>9, <1>10 DEF NetInv

LEMMA NetStutter == NetInv /\ UNCHANGED netVars => NetInv'
<1> SUFFICES ASSUME NetInv, UNCHANGED netVars PROVE NetInv'
  OBVIOUS
<1>1. /\ UNCHANGED <<q_head, q_tail, q_next, dq_top, dq_bottom, dq_buf, dq_cap, netDeques>>
      /\ UNCHANGED <<pending_count, net_running, net_asleep, net_wpc, net_loc>>
      /\ UNCHANGED <<net_cpc, net_sent, net_prev, netClient>>
      /\ UNCHANGED <<net_queued, net_ran, net_raced, net_torn, net_early, net_spent, net_late>>
  BY DEF netVars, netQueue, netDeques, netFlags, netClient, netHistory
<1>2. /\ \A v \in NetWorkers : NetLocalInv(v)' /\ NetWindowInv(v)' /\ NetThiefInv(v)'
      /\ \A v \in NetWorkers : NetBufCap(v)' = NetBufCap(v)
      /\ NetClean' <=> NetClean
      /\ NetClean => NetPlaceInv' /\ NetTaken' = NetTaken
  BY <1>1, NetClientFrame
<1>3. NetTypeOK'
  BY <1>1, <1>2 DEF NetInv, NetTypeOK
<1>4. NetLinkInv'
  BY <1>1, NetLinkSame DEF NetInv
<1>5. NetSleepInv' /\ NetWaitMeansDone'
  BY <1>1, <1>2 DEF NetInv, NetSleepInv, NetWaitMeansDone
<1>6. NetClean => NetQueueInv' /\ NetCountInv'
  BY <1>1, <1>2, NetQueueSame, NetCountSame DEF NetInv, NetQueueInv, NetAt, NetLoc
<1> QED BY <1>2, <1>3, <1>4, <1>5, <1>6 DEF NetInv

LEMMA NetStepInv == NetInv /\ [NetNext]_netVars => NetInv'
<1> SUFFICES ASSUME NetInv, [NetNext]_netVars PROVE NetInv'
  OBVIOUS
<1>1. ASSUME NEW w \in NetWorkers, NetWorkerStep(w) PROVE NetInv'
  BY <1>1, NetLoopStep, NetDequeueNextStep, NetDequeueTailStep, NetPushTestStep, NetGrowStep,
     NetGrowCapStep, NetPushStoreStep, NetPopStep, NetPopTopStep, NetStealStep,
     NetStealBottomStep, NetStealBufStep, NetTakeStep, NetRunStep, NetIdleStep
     DEF NetWorkerStep
<1>2. ASSUME NEW c \in NetClients, NetClientStep(c) PROVE NetInv'
  BY <1>2, NetSubmitStep, NetLinkStep, NetCountStep, NetWakeStep, NetWaitStep, NetDestroyStep
     DEF NetClientStep
<1>3. CASE UNCHANGED netVars
  BY <1>3, NetStutter
<1> QED BY <1>1, <1>2, <1>3 DEF NetNext

(* When all workers there are sleep and no submission is on its way, the    *)
(* count is 0 and exact, so what was queued has run.                        *)
LEMMA NetInvSafe == NetInv => NetSafe
<1> SUFFICES ASSUME NetInv PROVE NetSafe
  OBVIOUS
<1>1. NetTypeOK /\ NetWaitMeansDone /\ NetRunOnce
  BY DEF NetInv, NetRunOnce, NetPlaceInv
<1>2. NetSleepMeansIdle
  <2> DEFINE there == {w \in NetWorkers : net_wpc[w] # "exit"}
             submitting == {c \in NetClients : net_cpc[c] \in {"link", "count", "wake"}}
  <2>1. SUFFICES ASSUME NetClean, ~net_spent, net_running, there # {}, there \subseteq net_asleep,
                        submitting = {}
                 PROVE  \A k \in net_queued : net_ran[k] = 1
    BY DEF NetSleepMeansIdle
  <2>2. pending_count = 0
    BY <2>1 DEF NetInv, NetSleepInv
  <2>3. NetCounted = net_queued
    <3>1. \A k \in net_queued : k[1] \in NetClients
      BY <1>1, NetValues DEF NetTypeOK
    <3> QED BY <2>1, <3>1 DEF NetCounted, NetUncounted
  <2>4. NetPlaceInv /\ NetQueueInv /\ NetCountInv /\ NetLinkInv
    BY <2>1 DEF NetInv
  <2>5. NetRan \subseteq NetCounted
    <3>1. NetRan \subseteq NetTaken
      BY DEF NetRan, NetTaken
    <3> QED BY <1>1, <2>3, <2>4, <3>1, NetTakenQueued
  <2>6. pending_count <= 0
    BY <2>2
  <2> QED BY <1>1, <2>3, <2>4, <2>5, <2>6, NetAllRan
<1> QED BY <1>1, <1>2 DEF NetSafe

(* The inductive invariant of the network thread pool, for every number of  *)
(* workers, clients and tasks and every initial capacity of the deques:     *)
(* where each task is between cx_threadpool_submit and its run, what a      *)
(* thief has seen of a deque that grows, and what pending_count counts.     *)
THEOREM NetInvariant == NetSpec => []NetInv
<1>1. NetInit => NetInv
  BY NetInitInv
<1>2. NetInv /\ [NetNext]_netVars => NetInv'
  BY NetStepInv
<1> QED BY <1>1, <1>2, PTL DEF NetSpec

(* Without the two races cx_worker_main does not exclude, a task is run     *)
(* once, cx_threadpool_wait returns to a client whose tasks are done, and   *)
(* the workers do not all sleep while a task waits.                         *)
THEOREM NetIsSafe == NetSpec => []NetSafe
<1>1. NetSpec => []NetInv
  BY NetInvariant
<1>2. NetInv => NetSafe
  BY NetInvSafe
<1> QED BY <1>1, <1>2, PTL
=============================================================================
