------------------------------ MODULE LogQueue ------------------------------
(***************************************************************************)
(* The asynchronous log queue, runtime/io/lockfree_log.c: a bounded ring   *)
(* whose slots carry a sequence number, filled by any number of producers  *)
(* and emptied in batches by one drain thread, until a shutdown.           *)
(*                                                                         *)
(* A record is the pair of its producer and the number of the call.  One   *)
(* action is one access to shared memory.  Positions are 64 bits wide in   *)
(* the code and never wrap here.  writev's result is ignored by the code:  *)
(* log_out is what was handed to it.                                       *)
(***************************************************************************)
EXTENDS Integers, Sequences, FiniteSets

CONSTANTS
    LogProducers,  \* threads that call cpx_logq_try_push
    LogCap,        \* capacity_pow2
    LogBatch,      \* records of one pass: 32 in cpx_log_drain_once
    LogMaxPush     \* bound: calls of try_push per producer

ASSUME LogCapAssumption == LogCap \in Nat \ {0}
ASSUME LogBatchAssumption == LogBatch \in Nat \ {0}
ASSUME LogMaxPushAssumption == LogMaxPush \in Nat

VARIABLES
    enqueue_pos, dequeue_pos, dropped, log_running,
    slot_seq,      \* slots[i].seq
    slot_msg,      \* slots[i].msg, level and len
    log_slots,     \* "live", or "freed" once shutdown has freed the slots
    log_pc,        \* where each producer is in try_push
    log_pos,       \* its local pos
    log_calls,     \* calls it has begun
    drain_pc,      \* where the drain thread is
    drain_final,   \* it is in the pass that follows its loop
    picked,        \* positions taken by this pass: picked_pos
    log_stop,      \* where the thread in cpx_logq_shutdown is
    \* History:
    log_out,       \* records handed to writev, in order
    log_claims,    \* records in the order their positions were claimed
    log_early,     \* records whose call returned true before shutdown began
    log_pass       \* records taken by the latest pass

logShared == <<enqueue_pos, dequeue_pos, dropped, log_running, slot_seq, slot_msg, log_slots>>
logProducer == <<log_pc, log_pos, log_calls>>
logDrain == <<drain_pc, drain_final, picked>>
logHistory == <<log_out, log_claims, log_early, log_pass>>
logVars == <<logShared, logProducer, logDrain, log_stop, logHistory>>

LogRecords == LogProducers \X (1 .. LogMaxPush)
NoRecord == <<>>
LogSlot(pos) == pos % LogCap

\* The types; and the positions are never more than one round apart.
LogTypeOK ==
    /\ enqueue_pos \in Nat /\ dequeue_pos \in Nat /\ dropped \in Nat
    /\ enqueue_pos - dequeue_pos \in 0 .. LogCap
    /\ log_running \in BOOLEAN
    /\ slot_seq \in [0 .. LogCap - 1 -> Nat]
    /\ slot_msg \in [0 .. LogCap - 1 -> LogRecords \cup {NoRecord}]
    /\ log_slots \in {"live", "freed"}
    /\ log_pc \in [LogProducers -> {"idle", "seq", "cas", "copy", "publish", "fault"}]
    /\ log_pos \in [LogProducers -> Nat]
    /\ log_calls \in [LogProducers -> 0 .. LogMaxPush]
    /\ drain_pc \in {"loop", "pick", "write", "free", "done"}
    /\ drain_final \in BOOLEAN
    /\ picked \in Seq(Nat)
    /\ log_stop \in {"no", "join", "stopped"}
    /\ log_out \in Seq(LogRecords) /\ log_claims \in Seq(LogRecords)
    /\ log_early \subseteq LogRecords /\ log_pass \in 0 .. LogBatch

LogInit ==
    /\ enqueue_pos = 0 /\ dequeue_pos = 0 /\ dropped = 0 /\ log_running = TRUE
    /\ slot_seq = [i \in 0 .. LogCap - 1 |-> i]
    /\ slot_msg = [i \in 0 .. LogCap - 1 |-> NoRecord]
    /\ log_slots = "live"
    /\ log_pc = [p \in LogProducers |-> "idle"]
    /\ log_pos = [p \in LogProducers |-> 0]
    /\ log_calls = [p \in LogProducers |-> 0]
    /\ drain_pc = "loop" /\ drain_final = FALSE /\ picked = <<>>
    /\ log_stop = "no"
    /\ log_out = <<>> /\ log_claims = <<>> /\ log_early = {} /\ log_pass = 0

-----------------------------------------------------------------------------
(* cpx_logq_try_push.                                                       *)

LogRecord(p) == <<p, log_calls[p]>>
LogGoto(p, label) == log_pc' = [log_pc EXCEPT ![p] = label]

\* The call begins: slots is tested once, then enqueue_pos is loaded.  With
\* no slots it returns false at once.
LogPush(p) ==
    /\ log_pc[p] = "idle" /\ log_calls[p] < LogMaxPush
    /\ log_calls' = [log_calls EXCEPT ![p] = @ + 1]
    /\ IF log_slots = "live"
         THEN LogGoto(p, "seq") /\ log_pos' = [log_pos EXCEPT ![p] = enqueue_pos]
         ELSE UNCHANGED <<log_pc, log_pos>>
    /\ UNCHANGED <<logShared, logDrain, log_stop, logHistory>>

\* Mutation: a position that another producer has claimed counts as full.
LogLoadSeqLostIsFull(p) ==
    /\ log_pc[p] = "seq" /\ log_slots = "live"
    /\ LET dif == slot_seq[LogSlot(log_pos[p])] - log_pos[p] IN
         \/ dif = 0 /\ LogGoto(p, "cas") /\ UNCHANGED dropped
         \/ dif # 0 /\ LogGoto(p, "idle") /\ dropped' = dropped + 1
    /\ UNCHANGED <<enqueue_pos, dequeue_pos, log_running, slot_seq, slot_msg, log_slots,
                   log_pos, log_calls, logDrain, log_stop, logHistory>>

\* The slot's seq tells whether pos is free (dif = 0), the ring is full
\* (dif < 0: the record is dropped) or another producer was faster (dif > 0).
LogLoadSeq(p) ==
    /\ log_pc[p] = "seq" /\ log_slots = "live"
    /\ LET dif == slot_seq[LogSlot(log_pos[p])] - log_pos[p] IN
         \/ dif = 0 /\ LogGoto(p, "cas") /\ UNCHANGED <<dropped, log_pos>>
         \/ dif < 0 /\ LogGoto(p, "idle") /\ dropped' = dropped + 1 /\ UNCHANGED log_pos
         \/ dif > 0 /\ log_pos' = [log_pos EXCEPT ![p] = enqueue_pos]
                    /\ UNCHANGED <<dropped, log_pc>>
    /\ UNCHANGED <<enqueue_pos, dequeue_pos, log_running, slot_seq, slot_msg, log_slots,
                   log_calls, logDrain, log_stop, logHistory>>

\* The compare-and-swap on enqueue_pos claims pos; when it fails (also for no
\* reason: it is a weak one) the loop loads enqueue_pos again.
LogClaim(p) ==
    /\ log_pc[p] = "cas"
    /\ \/ /\ enqueue_pos = log_pos[p]
          /\ enqueue_pos' = enqueue_pos + 1
          /\ log_claims' = Append(log_claims, LogRecord(p))
          /\ LogGoto(p, "copy") /\ UNCHANGED log_pos
       \/ /\ LogGoto(p, "seq") /\ log_pos' = [log_pos EXCEPT ![p] = enqueue_pos]
          /\ UNCHANGED <<enqueue_pos, log_claims>>
    /\ UNCHANGED <<dequeue_pos, dropped, log_running, slot_seq, slot_msg, log_slots, log_calls,
                   logDrain, log_stop, log_out, log_early, log_pass>>

LogCopy(p) ==
    /\ log_pc[p] = "copy" /\ log_slots = "live"
    /\ slot_msg' = [slot_msg EXCEPT ![LogSlot(log_pos[p])] = LogRecord(p)]
    /\ LogGoto(p, "publish")
    /\ UNCHANGED <<enqueue_pos, dequeue_pos, dropped, log_running, slot_seq, log_slots,
                   log_pos, log_calls, logDrain, log_stop, logHistory>>

LogPublish(p) ==
    /\ log_pc[p] = "publish" /\ log_slots = "live"
    /\ slot_seq' = [slot_seq EXCEPT ![LogSlot(log_pos[p])] = log_pos[p] + 1]
    /\ LogGoto(p, "idle")
    /\ log_early' = IF log_stop = "no" THEN log_early \cup {LogRecord(p)} ELSE log_early
    /\ UNCHANGED <<enqueue_pos, dequeue_pos, dropped, log_running, slot_msg, log_slots,
                   log_pos, log_calls, logDrain, log_stop, log_out, log_claims, log_pass>>

\* A call that tested slots before they were freed goes on to touch freed
\* memory: what it does from there on is undefined, and the model ends it.
LogFault(p) ==
    /\ log_slots = "freed" /\ log_pc[p] \in {"seq", "copy", "publish"}
    /\ LogGoto(p, "fault")
    /\ UNCHANGED <<logShared, log_pos, log_calls, logDrain, log_stop, logHistory>>

-----------------------------------------------------------------------------
(* The drain thread: cpx_log_drain_thread, cpx_log_drain_once, pop_one.      *)

\* while (running) drain_once(); and one more drain_once() after the loop.
DrainLoop ==
    /\ drain_pc = "loop"
    /\ drain_pc' = "pick" /\ drain_final' = ~log_running
    /\ UNCHANGED <<logShared, logProducer, picked, log_stop, logHistory>>

EndPass == IF drain_final THEN "done" ELSE "loop"

\* pop_one succeeds: the slot at dequeue_pos is published.  There is one
\* consumer, so its compare-and-swap fails only spuriously, and is retried.
DrainPick ==
    /\ drain_pc = "pick" /\ Len(picked) < LogBatch
    /\ slot_seq[LogSlot(dequeue_pos)] = dequeue_pos + 1
    /\ dequeue_pos' = dequeue_pos + 1
    /\ picked' = Append(picked, dequeue_pos)
    /\ UNCHANGED <<enqueue_pos, dropped, log_running, slot_seq, slot_msg, log_slots, logProducer,
                   drain_pc, drain_final, log_stop, logHistory>>

\* Mutation: an empty pass ends the thread.
DrainPickedStops ==
    /\ drain_pc = "pick"
    /\ Len(picked) = LogBatch \/ slot_seq[LogSlot(dequeue_pos)] < dequeue_pos + 1
    /\ drain_pc' = IF picked = <<>> THEN "done" ELSE "write"
    /\ log_pass' = Len(picked)
    /\ UNCHANGED <<logShared, logProducer, drain_final, picked, log_stop,
                   log_out, log_claims, log_early>>

\* The batch is complete, or pop_one finds nothing published.
DrainPicked ==
    /\ drain_pc = "pick"
    /\ Len(picked) = LogBatch \/ slot_seq[LogSlot(dequeue_pos)] < dequeue_pos + 1
    /\ drain_pc' = IF picked = <<>> THEN EndPass ELSE "write"
    /\ log_pass' = Len(picked)
    /\ UNCHANGED <<logShared, logProducer, drain_final, picked, log_stop,
                   log_out, log_claims, log_early>>

\* Mutation: the slots are given back before they are written.
DrainFreeFirst ==
    /\ drain_pc = "write"
    /\ slot_seq' = [slot_seq EXCEPT ![LogSlot(Head(picked))] = Head(picked) + LogCap]
    /\ drain_pc' = "free"
    /\ UNCHANGED <<enqueue_pos, dequeue_pos, dropped, log_running, slot_msg, log_slots, logProducer,
                   drain_final, picked, log_stop, logHistory>>

\* cpx_io_writev_all_fd reads the messages where they lie, in the slots.
DrainWrite ==
    /\ drain_pc = "write"
    /\ log_out' = log_out \o [i \in 1 .. Len(picked) |-> slot_msg[LogSlot(picked[i])]]
    /\ drain_pc' = "free"
    /\ UNCHANGED <<logShared, logProducer, drain_final, picked, log_stop, log_claims, log_early, log_pass>>

\* The slots of the pass are given back one after the other.
DrainFree ==
    /\ drain_pc = "free"
    /\ slot_seq' = [slot_seq EXCEPT ![LogSlot(Head(picked))] = Head(picked) + LogCap]
    /\ picked' = Tail(picked)
    /\ drain_pc' = IF Len(picked) = 1 THEN EndPass ELSE "free"
    /\ UNCHANGED <<enqueue_pos, dequeue_pos, dropped, log_running, slot_msg, log_slots, logProducer,
                   drain_final, log_stop, logHistory>>

-----------------------------------------------------------------------------
(* cpx_logq_shutdown: clear running, join the drain thread, free the slots.  *)

LogShutdown ==
    /\ log_stop = "no"
    /\ log_running' = FALSE /\ log_stop' = "join"
    /\ UNCHANGED <<enqueue_pos, dequeue_pos, dropped, slot_seq, slot_msg, log_slots, logProducer,
                   logDrain, logHistory>>

LogFreeSlots ==
    /\ log_stop = "join" /\ drain_pc = "done"
    /\ log_slots' = "freed" /\ log_stop' = "stopped"
    /\ UNCHANGED <<enqueue_pos, dequeue_pos, dropped, log_running, slot_seq, slot_msg, logProducer,
                   logDrain, logHistory>>

LogPushStep(p) ==
    LogPush(p) \/ LogLoadSeq(p) \/ LogClaim(p) \/ LogCopy(p) \/ LogPublish(p) \/ LogFault(p)
LogDrainStep == DrainLoop \/ DrainPick \/ DrainPicked \/ DrainWrite \/ DrainFree
LogNext == (\E p \in LogProducers : LogPushStep(p)) \/ LogDrainStep \/ LogShutdown \/ LogFreeSlots

LogSpec == LogInit /\ [][LogNext]_logVars
-----------------------------------------------------------------------------
(* Properties.                                                              *)

\* What reaches the file is what was claimed, in the order of the claims: no
\* record is lost, written twice, overtaken, or overwritten by a producer one
\* round ahead before writev has read it (lockfree_log.c:177).
LogWrittenInOrder == log_out = SubSeq(log_claims, 1, Len(log_out))

\* A claimed slot has one owner: two producers never fill the same slot, and
\* none fills a slot of the pass the drain thread is writing, although it
\* has advanced dequeue_pos already (lockfree_log.c:30).
LogSlotOwned ==
    LET filling == {p \in LogProducers : log_pc[p] \in {"copy", "publish"}} IN
      /\ \A p, q \in filling : LogSlot(log_pos[p]) = LogSlot(log_pos[q]) => p = q
      /\ \A p \in filling : \A i \in DOMAIN picked : LogSlot(picked[i]) # LogSlot(log_pos[p])

\* Slots the drain thread has given back.
LogGivenBack == dequeue_pos - Len(picked)

\* A record is dropped only when every slot is taken, however stale the pos
\* that the producer compares with (lockfree_log.c:113).
LogDropOnlyWhenFull ==
    [][dropped' # dropped => enqueue_pos - LogGivenBack = LogCap]_logVars

\* At the end of the drain thread, unless its last pass filled a whole batch,
\* the oldest record not written is not one whose call had returned when
\* cpx_logq_shutdown was called: only a producer that is still filling an
\* older slot, or the batch limit, loses accepted records (lockfree_log.c:205).
LogFlushed ==
    LET n == Len(log_out) IN
      (drain_pc = "done" /\ log_pass < LogBatch /\ n < Len(log_claims))
        => log_claims[n + 1] \notin log_early

\* Safety of the ring and its drain thread: each record has its slot to
\* itself, reaches the file in its place, and is not left behind at the end.
LogSafe == LogTypeOK /\ LogWrittenInOrder /\ LogSlotOwned /\ LogFlushed

-----------------------------------------------------------------------------
(* The inductive invariant behind LogSafe and LogDropOnlyWhenFull.          *)

\* The ring: the slots of the pass, the claimed ones and the free ones follow
\* each other over one round, and a slot's seq tells which it is.
LogRingInv ==
    /\ \A i \in DOMAIN picked : picked[i] = LogGivenBack + i - 1
    /\ LogGivenBack \in Nat /\ enqueue_pos <= LogGivenBack + LogCap
    /\ \A i \in LogGivenBack .. dequeue_pos - 1 : slot_seq[LogSlot(i)] = i + 1
    /\ \A i \in dequeue_pos .. enqueue_pos - 1 : slot_seq[LogSlot(i)] \in {i, i + 1}
    /\ \A i \in enqueue_pos .. LogGivenBack + LogCap - 1 : slot_seq[LogSlot(i)] = i

\* A published slot holds the record that claimed its position.
LogContentInv ==
    /\ Len(log_claims) = enqueue_pos
    /\ \A i \in LogGivenBack .. enqueue_pos - 1 :
         slot_seq[LogSlot(i)] = i + 1 => slot_msg[LogSlot(i)] = log_claims[i + 1]

\* What a producer has read still holds as far as it relies on it.
LogProducerInv ==
    \A p \in LogProducers :
      /\ log_pc[p] # "idle" => log_calls[p] > 0
      /\ log_pc[p] \in {"seq", "cas"} => log_pos[p] <= enqueue_pos
      /\ log_pc[p] = "cas" /\ log_pos[p] = enqueue_pos =>
           slot_seq[LogSlot(enqueue_pos)] = enqueue_pos
      /\ log_pc[p] \in {"copy", "publish"} =>
           /\ log_pos[p] \in dequeue_pos .. enqueue_pos - 1
           /\ slot_seq[LogSlot(log_pos[p])] = log_pos[p]
           /\ log_claims[log_pos[p] + 1] = LogRecord(p)
      /\ log_pc[p] = "publish" => slot_msg[LogSlot(log_pos[p])] = LogRecord(p)

\* A call claims one position, and its record is early only when published.
LogClaimsInv ==
    /\ \A i, j \in 1 .. enqueue_pos : log_claims[i] = log_claims[j] => i = j
    /\ \A p \in LogProducers : \A i \in 1 .. enqueue_pos :
         log_claims[i][1] = p =>
           /\ log_claims[i][2] <= log_calls[p]
           /\ log_pc[p] \in {"seq", "cas"} => log_claims[i][2] # log_calls[p]
    /\ \A r \in log_early : \E i \in 1 .. enqueue_pos : log_claims[i] = r
    /\ \A i \in dequeue_pos .. enqueue_pos - 1 :
         slot_seq[LogSlot(i)] = i => log_claims[i + 1] \notin log_early

\* The drain thread has written up to where it gives back, or the whole pass;
\* and its last pass stopped where nothing was published.
LogDrainInv ==
    /\ Len(log_out) = IF drain_pc = "free" THEN dequeue_pos ELSE LogGivenBack
    /\ drain_pc \in {"loop", "done"} => picked = <<>>
    /\ drain_pc \in {"write", "free"} => picked # <<>>
    /\ Len(picked) <= LogBatch
    /\ drain_pc = "done" => drain_final
    /\ drain_final => ~log_running
    /\ ~log_running => log_stop # "no"
    /\ drain_final /\ drain_pc \in {"write", "free", "done"} /\ log_pass < LogBatch
         /\ dequeue_pos < enqueue_pos => log_claims[dequeue_pos + 1] \notin log_early

LogInv ==
    /\ LogTypeOK /\ LogWrittenInOrder
    /\ LogRingInv /\ LogContentInv /\ LogProducerInv /\ LogClaimsInv /\ LogDrainInv

-----------------------------------------------------------------------------
\* The drain thread is scheduled, and a producer that has claimed a slot
\* fills and publishes it.
LogFairness ==
    /\ WF_logVars(LogDrainStep)
    /\ \A p \in LogProducers : WF_logVars(LogCopy(p) \/ LogPublish(p))

LogUnwritten == {r \in log_early : \A i \in DOMAIN log_out : log_out[i] # r}

\* While the queue runs, every record accepted is written in the end: there
\* are finitely many calls, so a time comes when none is left in the ring.
LogEventuallyWritten == LogUnwritten # {} ~> (LogUnwritten = {} \/ ~log_running)
=============================================================================
