---------------------------- MODULE ChannelProofs ----------------------------
(***************************************************************************)
(* For every capacity and all finite sets of senders and receivers, no     *)
(* wakeup of the channel is lost and nobody sleeps on a closed one; with a *)
(* buffer, messages arrive once and in order, and the channel implements   *)
(* BoundedChannel.                                                         *)
(***************************************************************************)
EXTENDS Channel, FiniteSetTheorems, SequenceTheorems, TLAPS

-----------------------------------------------------------------------------
(* The ring.                                                               *)

(* Positions are at most once around the ring ahead of it. *)
LEMMA Wrap ==
  ASSUME NEW n \in Nat, n > 0, NEW x \in Nat, x < n + n
  PROVE  x % n = IF x < n THEN x ELSE x - n
<1> DEFINE q == x \div n
           m == x % n
<1>1. /\ q \in Int /\ m \in 0 .. n - 1
      /\ x = n * q + m
  OBVIOUS
<1> HIDE DEF q
<1> SUFFICES m = IF x < n THEN x ELSE x - n
  OBVIOUS
<1> HIDE DEF m
<1>2. CASE q <= -1
  <2>1. n * q <= -n
    BY <1>1, <1>2
  <2> QED BY <1>1, <2>1
<1>3. CASE q = 0
  BY <1>1, <1>3
<1>4. CASE q = 1
  BY <1>1, <1>4
<1>5. CASE q >= 2
  <2>1. n * q >= 2 * n
    BY <1>1, <1>5
  <2> QED BY <1>1, <2>1
<1> QED BY <1>1, <1>2, <1>3, <1>4, <1>5

(* A function on 1 .. n is a sequence of length n. *)
LEMMA FunctionIsSeq ==
  ASSUME NEW S, NEW n \in Nat, NEW f \in [1 .. n -> S]
  PROVE  f \in Seq(S) /\ Len(f) = n
<1>1. f \in Seq(S)
  BY SeqDef
<1>2. DOMAIN f = 1 .. n /\ DOMAIN f = 1 .. Len(f) /\ Len(f) \in Nat
  BY <1>1, LenProperties
<1> QED BY <1>1, <1>2

(* Positions and count of the ring, in their ranges. *)
RingType ==
  /\ buffer \in [0 .. Capacity - 1 -> Messages \cup {NoMessage}]
  /\ size \in 0 .. Capacity
  /\ read_pos \in Nat /\ (Capacity > 0 => read_pos < Capacity)
  /\ write_pos \in Nat /\ (Capacity > 0 => write_pos < Capacity)

(* The channel's contents are a sequence of messages. *)
LEMMA ContentsSeq ==
  ASSUME RingType, RingInv
  PROVE  Contents \in Seq(Messages) /\ Len(Contents) = size
<1> USE ChannelAssumption DEF RingType, RingInv
<1>1. Contents \in [1 .. size -> Messages]
  <2>1. CASE Capacity > 0
    BY <2>1 DEF Contents
  <2>2. CASE Capacity = 0
    BY <2>2 DEF Contents
  <2> QED BY <2>1, <2>2
<1> QED BY <1>1, FunctionIsSeq

(* The same after a step. *)
LEMMA ContentsSeqNext ==
  ASSUME RingType', RingInv'
  PROVE  Contents' \in Seq(Messages) /\ Len(Contents') = size'
<1> USE ChannelAssumption DEF RingType, RingInv
<1>1. Contents' \in [1 .. size' -> Messages]
  <2>1. CASE Capacity > 0
    BY <2>1 DEF Contents
  <2>2. CASE Capacity = 0
    BY <2>2 DEF Contents
  <2> QED BY <2>1, <2>2
<1> QED BY <1>1, FunctionIsSeq

(* A message that is deposited becomes the youngest one; no other is       *)
(* overwritten.                                                            *)
LEMMA DepositRing ==
  ASSUME RingType, RingInv, Capacity > 0, size < Capacity,
         NEW m \in Messages, Deposit(m)
  PROVE  RingType' /\ RingInv' /\ Contents' = Append(Contents, m)
<1> USE ChannelAssumption DEF RingType
<1>1. /\ buffer' = [buffer EXCEPT ![write_pos] = m]
      /\ write_pos' = (write_pos + 1) % Capacity
      /\ size' = size + 1
      /\ read_pos' = read_pos
  BY DEF Deposit
<1>2. /\ write_pos = (read_pos + size) % Capacity
      /\ \A k \in 1 .. size : Contents[k] \in Messages
  BY DEF RingInv
<1>3. write_pos = IF read_pos + size < Capacity THEN read_pos + size
                                                ELSE read_pos + size - Capacity
  BY <1>2, Wrap
<1>4. write_pos' = IF write_pos + 1 < Capacity THEN write_pos + 1
                                               ELSE write_pos + 1 - Capacity
  BY <1>1, Wrap
<1>5. (read_pos' + size') % Capacity =
        IF read_pos + size + 1 < Capacity THEN read_pos + size + 1
                                          ELSE read_pos + size + 1 - Capacity
  BY <1>1, Wrap
<1>6. write_pos' = (read_pos' + size') % Capacity
  BY <1>3, <1>4, <1>5
<1>7. RingType'
  BY <1>1, <1>3, <1>4
<1>8. ASSUME NEW k \in 1 .. size
      PROVE  Contents'[k] = Contents[k]
  <2>1. (read_pos + k - 1) % Capacity =
          IF read_pos + k - 1 < Capacity THEN read_pos + k - 1
                                         ELSE read_pos + k - 1 - Capacity
    BY Wrap
  <2>2. /\ (read_pos + k - 1) % Capacity # write_pos
        /\ (read_pos + k - 1) % Capacity \in 0 .. Capacity - 1
    BY <2>1, <1>3
  <2>3. buffer'[(read_pos + k - 1) % Capacity] = buffer[(read_pos + k - 1) % Capacity]
    BY <1>1, <2>2
  <2>4. k \in 1 .. size'
    BY <1>1
  <2> QED BY <1>1, <2>3, <2>4 DEF Contents
<1>9. Contents'[size + 1] = m
  <2>1. read_pos + (size + 1) - 1 = read_pos + size
    OBVIOUS
  <2>2. buffer'[write_pos] = m
    BY <1>1
  <2>3. Contents'[size + 1] = buffer'[(read_pos + (size + 1) - 1) % Capacity]
    BY <1>1 DEF Contents
  <2> QED BY <1>2, <2>1, <2>2, <2>3
<1>10. RingInv'
  <2>1. ASSUME NEW k \in 1 .. size' PROVE Contents'[k] \in Messages
    <3>1. k \in 1 .. size \/ k = size + 1
      BY <1>1
    <3> QED BY <1>2, <1>8, <1>9, <3>1
  <2> QED BY <1>6, <2>1 DEF RingInv
<1>11. /\ Contents \in Seq(Messages) /\ Len(Contents) = size
       /\ Contents' \in Seq(Messages) /\ Len(Contents') = size + 1
  BY <1>1, <1>7, <1>10, ContentsSeq, ContentsSeqNext
<1>12. /\ Append(Contents, m) \in Seq(Messages)
       /\ Len(Append(Contents, m)) = size + 1
       /\ \A k \in 1 .. size : Append(Contents, m)[k] = Contents[k]
       /\ Append(Contents, m)[size + 1] = m
  BY <1>11, AppendProperties
<1>13. Contents' = Append(Contents, m)
  <2>1. ASSUME NEW k \in 1 .. size + 1 PROVE Contents'[k] = Append(Contents, m)[k]
    <3>1. k \in 1 .. size \/ k = size + 1
      OBVIOUS
    <3> QED BY <1>8, <1>9, <1>12, <3>1
  <2> QED BY <1>11, <1>12, <2>1, SeqEqual
<1> QED BY <1>7, <1>10, <1>13

(* The oldest message is the one that is withdrawn. *)
LEMMA WithdrawRing ==
  ASSUME RingType, RingInv, size > 0, Withdraw
  PROVE  /\ RingType' /\ RingInv'
         /\ Contents # << >>
         /\ Contents' = Tail(Contents)
         /\ buffer[read_pos] = Head(Contents)
         /\ buffer[read_pos] \in Messages
<1> USE ChannelAssumption DEF RingType
<1>1. /\ read_pos' = (read_pos + 1) % Capacity
      /\ size' = size - 1
      /\ buffer' = buffer
      /\ write_pos' = write_pos
  BY DEF Withdraw
<1>2. /\ Capacity > 0
      /\ write_pos = (read_pos + size) % Capacity
      /\ \A k \in 1 .. size : Contents[k] \in Messages
  BY DEF RingInv
<1>3. read_pos' = IF read_pos + 1 < Capacity THEN read_pos + 1 ELSE read_pos + 1 - Capacity
  BY <1>1, <1>2, Wrap
<1>4. RingType'
  BY <1>1, <1>2, <1>3
<1>5. write_pos = IF read_pos + size < Capacity THEN read_pos + size
                                                ELSE read_pos + size - Capacity
  BY <1>2, Wrap
<1>6. (read_pos' + size') % Capacity =
        IF read_pos' + size' < Capacity THEN read_pos' + size'
                                        ELSE read_pos' + size' - Capacity
  <2>1. read_pos' + size' \in Nat /\ read_pos' + size' < Capacity + Capacity
    BY <1>1, <1>2, <1>3
  <2> QED BY <1>1, <1>2, <1>4, <2>1, Wrap
<1>7. write_pos' = (read_pos' + size') % Capacity
  BY <1>1, <1>2, <1>3, <1>5, <1>6
<1>8. ASSUME NEW k \in 1 .. size'
      PROVE  Contents'[k] = Contents[k + 1]
  <2>1. (read_pos' + k - 1) % Capacity =
          IF read_pos' + k - 1 < Capacity THEN read_pos' + k - 1
                                          ELSE read_pos' + k - 1 - Capacity
    <3>1. read_pos' + k - 1 \in Nat /\ read_pos' + k - 1 < Capacity + Capacity
      BY <1>1, <1>2, <1>3
    <3> QED BY <1>1, <1>2, <1>4, <3>1, Wrap
  <2>2. (read_pos + (k + 1) - 1) % Capacity =
          IF read_pos + (k + 1) - 1 < Capacity THEN read_pos + (k + 1) - 1
                                               ELSE read_pos + (k + 1) - 1 - Capacity
    BY <1>1, <1>2, <1>4, Wrap
  <2>3. (read_pos' + k - 1) % Capacity = (read_pos + (k + 1) - 1) % Capacity
    BY <1>1, <1>2, <1>3, <2>1, <2>2
  <2>4. k + 1 \in 1 .. size
    BY <1>1
  <2>5. Contents'[k] = buffer'[(read_pos' + k - 1) % Capacity]
    BY DEF Contents
  <2>6. Contents[k + 1] = buffer[(read_pos + (k + 1) - 1) % Capacity]
    BY <2>4 DEF Contents
  <2> QED BY <1>1, <2>3, <2>5, <2>6
<1>9. RingInv'
  <2>1. ASSUME NEW k \in 1 .. size' PROVE Contents'[k] \in Messages
    <3>1. k + 1 \in 1 .. size
      BY <1>1
    <3> QED BY <1>2, <1>8, <3>1
  <2> QED BY <1>7, <2>1 DEF RingInv
<1>10. /\ Contents \in Seq(Messages) /\ Len(Contents) = size
       /\ Contents' \in Seq(Messages) /\ Len(Contents') = size - 1
  BY <1>1, <1>4, <1>9, ContentsSeq, ContentsSeqNext
<1>11. Contents # << >>
  BY <1>10, EmptySeq
<1>12. /\ Tail(Contents) \in Seq(Messages)
       /\ Len(Tail(Contents)) = size - 1
       /\ \A k \in 1 .. size - 1 : Tail(Contents)[k] = Contents[k + 1]
       /\ Head(Contents) = Contents[1]
  BY <1>10, <1>11, HeadTailProperties
<1>13. Contents' = Tail(Contents)
  BY <1>1, <1>8, <1>10, <1>12, SeqEqual
<1>14. buffer[read_pos] = Contents[1]
  <2>1. read_pos + 1 - 1 = read_pos
    OBVIOUS
  <2>2. read_pos % Capacity = read_pos
    BY <1>2, Wrap
  <2> QED BY <2>1, <2>2 DEF Contents
<1> QED BY <1>2, <1>4, <1>9, <1>11, <1>12, <1>13, <1>14

-----------------------------------------------------------------------------
(* Sleepers and those on their way.                                        *)

(* Sets of threads are finite, and a larger one has no fewer. *)
LEMMA ThreadsCard ==
  ASSUME NEW S, S \subseteq Threads
  PROVE  /\ IsFiniteSet(S) /\ Cardinality(S) \in Nat
         /\ \A R : R \subseteq S => Cardinality(R) <= Cardinality(S)
<1>1. IsFiniteSet(Threads)
  BY ChannelAssumption, FS_Union DEF Threads
<1>2. IsFiniteSet(S)
  BY <1>1, FS_Subset
<1> QED BY <1>2, FS_CardinalityType, FS_Subset

(* One thread less counts at most one less. *)
LEMMA RemoveCard ==
  ASSUME NEW S, S \subseteq Threads, NEW x
  PROVE  Cardinality(S \ {x}) >= Cardinality(S) - 1
<1>1. IsFiniteSet(S) /\ Cardinality(S) \in Nat
  BY ThreadsCard
<1>2. CASE x \in S
  <2>1. Cardinality(S \ {x}) = Cardinality(S) - 1
    BY <1>1, <1>2, FS_RemoveElement
  <2> QED BY <1>1, <2>1
<1>3. CASE x \notin S
  <2>1. S \ {x} = S
    BY <1>3
  <2> QED BY <1>1, <2>1
<1> QED BY <1>2, <1>3

PcType == pc \in [Threads -> {"idle", "asleep", "woken"}]

(* p returns and signals the threads S at work on the other side: there is *)
(* one more of S on its way, unless all of S are awake, and at most one of *)
(* its own side T less.                                                    *)
LEMMA Transfer ==
  ASSUME PcType, NEW S, NEW T, S \subseteq Threads, T \subseteq Threads,
         S \cap T = {}, NEW p \in T, GotoAndSignal(p, "idle", S),
         NEW n \in Int, NEW k \in Int,
         Sleeping(S) # {} => Cardinality(Woken(S)) >= n,
         Sleeping(T) # {} => Cardinality(Woken(T)) >= k
  PROVE  /\ PcType'
         /\ Sleeping(Threads)' \subseteq Sleeping(Threads)
         /\ \A q \in T \ {p} : pc'[q] = pc[q]
         /\ pc'[p] = "idle"
         /\ Sleeping(S)' # {} => Cardinality(Woken(S)') >= n + 1
         /\ Sleeping(T)' # {} => Cardinality(Woken(T)') >= k - 1
<1> USE DEF PcType, Sleeping, Woken, At
<1>1. CASE Sleeping(S) \ {p} = {} /\ pc' = [pc EXCEPT ![p] = "idle"]
  <2>1. Sleeping(S)' = {}
    BY <1>1
  <2>2. /\ PcType' /\ Sleeping(Threads)' \subseteq Sleeping(Threads)
        /\ \A q \in T \ {p} : pc'[q] = pc[q]
        /\ pc'[p] = "idle"
    BY <1>1
  <2>3. Sleeping(T)' \subseteq Sleeping(T) /\ Woken(T)' = Woken(T) \ {p}
    BY <1>1
  <2> HIDE DEF Woken, Sleeping
  <2>4. Cardinality(Woken(T)') >= Cardinality(Woken(T)) - 1
    <3>1. Woken(T) \subseteq Threads
      BY DEF Woken
    <3> QED BY <2>3, <3>1, RemoveCard
  <2>5. Cardinality(Woken(T)) \in Nat /\ Cardinality(Woken(T)') \in Nat
    BY ThreadsCard DEF Woken
  <2> QED BY <2>1, <2>2, <2>3, <2>4, <2>5
<1>2. ASSUME NEW q \in Sleeping(S) \ {p}, pc' = [pc EXCEPT ![p] = "idle", ![q] = "woken"]
      PROVE  /\ PcType'
             /\ Sleeping(Threads)' \subseteq Sleeping(Threads)
             /\ \A r \in T \ {p} : pc'[r] = pc[r]
             /\ pc'[p] = "idle"
             /\ Sleeping(S)' # {} => Cardinality(Woken(S)') >= n + 1
             /\ Sleeping(T)' # {} => Cardinality(Woken(T)') >= k - 1
  <2>1. /\ PcType' /\ Sleeping(Threads)' \subseteq Sleeping(Threads)
        /\ \A r \in T \ {p} : pc'[r] = pc[r]
        /\ pc'[p] = "idle"
    BY <1>2
  <2>2. /\ Sleeping(T)' \subseteq Sleeping(T) /\ Woken(T)' = Woken(T) \ {p}
        /\ q \notin Woken(S) /\ Woken(S)' = Woken(S) \cup {q}
        /\ Sleeping(S) # {}
    BY <1>2
  <2> HIDE DEF Woken, Sleeping
  <2>3. /\ Woken(T) \subseteq Threads /\ Woken(S) \subseteq Threads
        /\ Woken(T)' \subseteq Threads /\ Woken(S)' \subseteq Threads
    BY DEF Woken
  <2>4. /\ IsFiniteSet(Woken(T)) /\ IsFiniteSet(Woken(S))
        /\ Cardinality(Woken(T)) \in Nat /\ Cardinality(Woken(T)') \in Nat
        /\ Cardinality(Woken(S)) \in Nat /\ Cardinality(Woken(S)') \in Nat
    BY <2>3, ThreadsCard
  <2>5. Cardinality(Woken(T)') >= Cardinality(Woken(T)) - 1
    BY <2>2, <2>3, RemoveCard
  <2>6. Cardinality(Woken(S)') = Cardinality(Woken(S)) + 1
    BY <2>2, <2>4, FS_AddElement
  <2> QED BY <2>1, <2>2, <2>4, <2>5, <2>6
<1> QED BY <1>1, <1>2 DEF GotoAndSignal

(* Counts of threads and slots that the invariant compares. *)
LEMMA CountTypes ==
  ASSUME RingType
  PROVE  /\ size \in Int /\ Capacity \in Int /\ Capacity - size \in Int
         /\ Cardinality(Woken(Senders)) \in Nat
         /\ Cardinality(Woken(Receivers)) \in Nat
         /\ Cardinality(Woken(Senders)') \in Nat
         /\ Cardinality(Woken(Receivers)') \in Nat
<1>1. /\ Woken(Senders) \subseteq Threads /\ Woken(Receivers) \subseteq Threads
      /\ Woken(Senders)' \subseteq Threads /\ Woken(Receivers)' \subseteq Threads
  BY DEF Woken, Threads
<1> QED BY <1>1, ThreadsCard, ChannelAssumption DEF RingType

-----------------------------------------------------------------------------
(* The actions.                                                            *)

(* TypeOK in parts. *)
LEMMA TypeParts ==
  TypeOK <=> /\ RingType /\ PcType
             /\ closed \in BOOLEAN
             /\ message \in [Senders -> Messages \cup {NoMessage}]
             /\ unsent \in SUBSET Messages
             /\ sent \in Seq(Messages)
             /\ received \in Seq(Messages)
BY DEF TypeOK, RingType, PcType

(* channel_create *)
LEMMA InitInv == Init => ChannelInv
<1> SUFFICES ASSUME Init PROVE ChannelInv
  OBVIOUS
<1> USE ChannelAssumption DEF Init
<1>1. TypeOK
  <2>1. << >> \in Seq(Messages)
    BY EmptySeq
  <2>2. buffer \in [0 .. Capacity - 1 -> Messages \cup {NoMessage}] /\ size \in 0 .. Capacity
    OBVIOUS
  <2> QED BY <2>1, <2>2 DEF TypeOK
<1>2. Sleeping(Senders) = {} /\ Sleeping(Receivers) = {} /\ Sleeping(Threads) = {}
  BY DEF Sleeping, At, Threads
<1>3. RingInv
  <2>1. CASE Capacity > 0
    <3>1. 0 % Capacity = 0
      BY <2>1, Wrap
    <3> QED BY <3>1 DEF RingInv
  <2> QED BY <2>1 DEF RingInv
<1>4. CarriesInv
  BY DEF CarriesInv, At, Threads
<1> QED BY <1>1, <1>2, <1>3, <1>4
        DEF ChannelInv, WaitersWoken, NoLostWakeup, NoSleepOnClosed

(* The message goes into a channel that is not full, and a receiver is     *)
(* signalled: the end of channel_send and channel_try_send.                *)
LEMMA DepositStep ==
  ASSUME ChannelInv, NEW p \in Senders, NEW m \in Messages,
         ~closed, closed' = closed, Capacity > 0, size < Capacity,
         Deposit(m), sent' = Append(sent, m), received' = received,
         message' \in [Senders -> Messages \cup {NoMessage}],
         unsent' \in SUBSET Messages,
         \A q \in Senders \ {p} : message'[q] = message[q],
         GotoAndSignal(p, "idle", Receivers)
  PROVE  ChannelInv' /\ Contents' = Append(Contents, m)
<1>1. /\ RingType /\ RingInv /\ PcType /\ closed \in BOOLEAN
      /\ sent \in Seq(Messages) /\ received \in Seq(Messages)
  BY TypeParts DEF ChannelInv, WaitersWoken
<1>2. RingType' /\ RingInv' /\ Contents' = Append(Contents, m)
  BY <1>1, DepositRing
<1>3. size' = size + 1
  BY DEF Deposit
<1>4. /\ Receivers \subseteq Threads /\ Senders \subseteq Threads
      /\ Receivers \cap Senders = {}
  BY ChannelAssumption DEF Threads
<1>5. /\ PcType'
      /\ Sleeping(Threads)' \subseteq Sleeping(Threads)
      /\ \A q \in Senders \ {p} : pc'[q] = pc[q]
      /\ pc'[p] = "idle"
      /\ Sleeping(Receivers)' # {} => Cardinality(Woken(Receivers)') >= size + 1
      /\ Sleeping(Senders)' # {} => Cardinality(Woken(Senders)') >= (Capacity - size) - 1
  BY <1>1, <1>4, CountTypes, Transfer DEF ChannelInv, WaitersWoken, NoLostWakeup
<1>6. TypeOK'
  <2>1. sent' \in Seq(Messages)
    BY <1>1, AppendProperties
  <2> QED BY <1>1, <1>2, <1>5, <2>1, TypeParts DEF TypeOK, RingType, PcType
<1>7. NoLostWakeup'
  BY <1>1, <1>3, <1>5, CountTypes DEF NoLostWakeup
<1>8. NoSleepOnClosed'
  BY DEF NoSleepOnClosed
<1>9. CarriesInv'
  BY <1>5 DEF ChannelInv, CarriesInv, At
<1> QED BY <1>2, <1>6, <1>7, <1>8, <1>9 DEF ChannelInv, WaitersWoken

(* A sender that finds the channel closed returns; one that finds it full  *)
(* goes to sleep, which no free slot has to answer for.                    *)
LEMMA SenderWaits ==
  ASSUME ChannelInv, NEW p \in Senders, NEW m \in Messages,
         \/ closed /\ pc' = [pc EXCEPT ![p] = "idle"]
         \/ ~closed /\ size >= Capacity /\ pc' = [pc EXCEPT ![p] = "asleep"],
         message' = [message EXCEPT ![p] = m], unsent' \in SUBSET Messages,
         UNCHANGED <<ring, closed, sent, received>>
  PROVE  ChannelInv' /\ Contents' = Contents
<1>1. /\ RingType /\ RingInv /\ PcType /\ closed \in BOOLEAN
      /\ message \in [Senders -> Messages \cup {NoMessage}]
      /\ sent \in Seq(Messages) /\ received \in Seq(Messages)
  BY TypeParts DEF ChannelInv, WaitersWoken
<1>2. Receivers \subseteq Threads /\ Senders \subseteq Threads /\ p \notin Receivers
  BY ChannelAssumption DEF Threads
<1>3. RingType' /\ RingInv' /\ Contents' = Contents
  BY <1>1 DEF ring, RingType, RingInv, Contents
<1>4. TypeOK'
  BY <1>1, <1>2 DEF TypeOK, ring, RingType, PcType
<1>5. Sleeping(Receivers)' = Sleeping(Receivers) /\ Woken(Receivers)' = Woken(Receivers)
  BY <1>1, <1>2 DEF Sleeping, Woken, At, PcType
<1>6. closed => Sleeping(Threads)' = {} /\ Sleeping(Senders)' = {}
  BY <1>1, <1>2 DEF ChannelInv, WaitersWoken, NoSleepOnClosed, Sleeping, At, PcType
<1>7. NoLostWakeup'
  BY <1>1, <1>5, <1>6, CountTypes
     DEF ChannelInv, WaitersWoken, NoLostWakeup, ring, RingType
<1>8. NoSleepOnClosed'
  BY <1>6 DEF NoSleepOnClosed
<1>9. CarriesInv'
  BY <1>1, <1>2 DEF ChannelInv, CarriesInv, At, PcType
<1> QED BY <1>3, <1>4, <1>7, <1>8, <1>9 DEF ChannelInv, WaitersWoken

(* channel_send once p has the mutex, for a new and for a woken caller. *)
LEMMA SendLockedStep ==
  ASSUME ChannelInv, NEW p \in Senders, NEW m \in Messages, SendLocked(p, m),
         message' = [message EXCEPT ![p] = m], unsent' \in SUBSET Messages,
         UNCHANGED <<closed, received>>
  PROVE  /\ ChannelInv'
         /\ \/ Contents' = Contents /\ sent' = sent
            \/ /\ ~closed /\ size < Capacity
               /\ Contents' = Append(Contents, m) /\ sent' = Append(sent, m)
<1>1. CASE /\ ~closed /\ size < Capacity /\ Deposit(m)
           /\ sent' = Append(sent, m) /\ GotoAndSignal(p, "idle", Receivers)
  <2>1. /\ message' \in [Senders -> Messages \cup {NoMessage}]
        /\ \A q \in Senders \ {p} : message'[q] = message[q]
        /\ size \in Nat /\ Capacity \in Nat
    BY ChannelAssumption DEF ChannelInv, WaitersWoken, TypeOK
  <2>2. Capacity > 0
    BY <1>1, <2>1
  <2> QED BY <1>1, <2>1, <2>2, DepositStep
<1>2. CASE ~(size < Capacity) \/ closed
  <2>1. /\ \/ closed /\ pc' = [pc EXCEPT ![p] = "idle"]
           \/ ~closed /\ size >= Capacity /\ pc' = [pc EXCEPT ![p] = "asleep"]
        /\ UNCHANGED <<ring, sent>>
    BY <1>2 DEF SendLocked
  <2> QED BY <2>1, SenderWaits
<1>3. ~closed /\ size < Capacity => ~(size >= Capacity)
  BY ChannelAssumption DEF ChannelInv, WaitersWoken, TypeOK
<1> QED BY <1>1, <1>2, <1>3 DEF SendLocked

(* channel_send *)
LEMMA SendStep ==
  ASSUME ChannelInv, NEW p \in Senders, NEW m \in Messages, Send(p, m)
  PROVE  /\ ChannelInv'
         /\ \/ Contents' = Contents /\ sent' = sent
            \/ /\ ~closed /\ size < Capacity
               /\ Contents' = Append(Contents, m) /\ sent' = Append(sent, m)
<1>1. unsent' \in SUBSET Messages
  BY DEF Send, ChannelInv, WaitersWoken, TypeOK
<1> QED BY <1>1, SendLockedStep DEF Send

(* channel_send after a wait *)
LEMMA SendWokenStep ==
  ASSUME ChannelInv, NEW p \in Senders, SendWoken(p)
  PROVE  /\ ChannelInv'
         /\ \/ Contents' = Contents /\ sent' = sent
            \/ /\ ~closed /\ size < Capacity
               /\ Contents' = Append(Contents, message[p])
               /\ sent' = Append(sent, message[p])
<1>1. message[p] \in Messages
  BY DEF SendWoken, ChannelInv, CarriesInv, At
<1>2. message' = [message EXCEPT ![p] = message[p]] /\ unsent' \in SUBSET Messages
  BY DEF SendWoken, ChannelInv, WaitersWoken, TypeOK
<1> QED BY <1>1, <1>2, SendLockedStep DEF SendWoken

(* channel_try_send; without a buffer it only signals. *)
LEMMA TrySendStep ==
  ASSUME ChannelInv, NEW p \in Senders, NEW m \in Messages, TrySend(p, m)
  PROVE  /\ ChannelInv'
         /\ Capacity > 0 => /\ ~closed /\ size < Capacity
                            /\ Contents' = Append(Contents, m) /\ sent' = Append(sent, m)
<1>1. /\ RingType /\ RingInv /\ PcType /\ closed \in BOOLEAN
      /\ message \in [Senders -> Messages \cup {NoMessage}]
      /\ unsent \in SUBSET Messages
      /\ sent \in Seq(Messages) /\ received \in Seq(Messages)
  BY TypeParts DEF ChannelInv, WaitersWoken
<1>2. CASE Capacity > 0
  BY <1>1, <1>2, DepositStep DEF TrySend
<1>3. CASE Capacity = 0
  <2>1. /\ UNCHANGED ring /\ sent' = Append(sent, m)
        /\ GotoAndSignal(p, "idle", Receivers) /\ UNCHANGED <<closed, message, received>>
        /\ unsent' = unsent \ {m} /\ ~closed
    BY <1>3 DEF TrySend, Deposit
  <2>2. size = 0 /\ size' = 0
    BY <1>1, <1>3, <2>1 DEF RingType, ring
  <2>3. /\ Receivers \subseteq Threads /\ Senders \subseteq Threads
        /\ Receivers \cap Senders = {}
    BY ChannelAssumption DEF Threads
  <2>4. /\ PcType'
        /\ \A q \in Senders \ {p} : pc'[q] = pc[q]
        /\ pc'[p] = "idle"
    BY <1>1, <2>1, <2>3, CountTypes, Transfer DEF ChannelInv, WaitersWoken, NoLostWakeup
  <2>5. TypeOK'
    <3>1. sent' \in Seq(Messages)
      BY <1>1, <2>1, AppendProperties
    <3> QED BY <1>1, <2>1, <2>4, <3>1 DEF TypeOK, RingType, PcType, ring
  <2>6. NoLostWakeup' /\ NoSleepOnClosed'
    BY <1>1, <1>3, <2>1, <2>2, CountTypes DEF NoLostWakeup, NoSleepOnClosed
  <2>7. RingInv' /\ CarriesInv'
    BY <1>3, <2>1, <2>4 DEF ChannelInv, RingInv, CarriesInv, At
  <2> QED BY <1>3, <2>5, <2>6, <2>7 DEF ChannelInv, WaitersWoken
<1> QED BY <1>2, <1>3, ChannelAssumption

(* channel_recv and channel_try_recv that find a message. *)
LEMMA WithdrawStep ==
  ASSUME ChannelInv, NEW p \in Receivers, size > 0, Withdraw,
         GotoAndSignal(p, "idle", Senders), UNCHANGED <<closed, message, unsent, sent>>
  PROVE  /\ ChannelInv'
         /\ Contents # << >> /\ Contents' = Tail(Contents)
         /\ received' = Append(received, Head(Contents))
<1>1. /\ RingType /\ RingInv /\ PcType /\ closed \in BOOLEAN
      /\ message \in [Senders -> Messages \cup {NoMessage}]
      /\ unsent \in SUBSET Messages
      /\ sent \in Seq(Messages) /\ received \in Seq(Messages)
  BY TypeParts DEF ChannelInv, WaitersWoken
<1>2. /\ RingType' /\ RingInv' /\ Contents # << >> /\ Contents' = Tail(Contents)
      /\ buffer[read_pos] = Head(Contents) /\ buffer[read_pos] \in Messages
  BY <1>1, WithdrawRing
<1>3. size' = size - 1 /\ received' = Append(received, buffer[read_pos])
  BY DEF Withdraw
<1>4. /\ Receivers \subseteq Threads /\ Senders \subseteq Threads
      /\ Senders \cap Receivers = {}
  BY ChannelAssumption DEF Threads
<1>5. /\ PcType'
      /\ Sleeping(Threads)' \subseteq Sleeping(Threads)
      /\ Sleeping(Senders)' # {} => Cardinality(Woken(Senders)') >= (Capacity - size) + 1
      /\ Sleeping(Receivers)' # {} => Cardinality(Woken(Receivers)') >= size - 1
  BY <1>1, <1>4, CountTypes, Transfer DEF ChannelInv, WaitersWoken, NoLostWakeup
<1>6. TypeOK'
  <2>1. received' \in Seq(Messages)
    BY <1>1, <1>2, <1>3, AppendProperties
  <2> QED BY <1>1, <1>2, <1>5, <2>1 DEF TypeOK, RingType, PcType
<1>7. NoLostWakeup'
  BY <1>1, <1>3, <1>5, CountTypes DEF NoLostWakeup
<1>8. NoSleepOnClosed'
  BY <1>5 DEF ChannelInv, WaitersWoken, NoSleepOnClosed
<1>9. CarriesInv'
  <2>1. \A q \in Senders : pc'[q] # "idle" => pc[q] # "idle"
    BY <1>1, <1>4 DEF GotoAndSignal, PcType, Sleeping, At
  <2> QED BY <2>1 DEF ChannelInv, CarriesInv, At
<1> QED BY <1>2, <1>3, <1>6, <1>7, <1>8, <1>9 DEF ChannelInv, WaitersWoken

(* channel_recv once p has the mutex, for a new and for a woken caller. *)
LEMMA RecvLockedStep ==
  ASSUME ChannelInv, NEW p \in Receivers, RecvLocked(p),
         UNCHANGED <<closed, message, unsent, sent>>
  PROVE  /\ ChannelInv'
         /\ \/ Contents' = Contents /\ received' = received
            \/ /\ Contents # << >> /\ Contents' = Tail(Contents)
               /\ received' = Append(received, Head(Contents))
<1>1. CASE size > 0 /\ Withdraw /\ GotoAndSignal(p, "idle", Senders)
  BY <1>1, WithdrawStep
<1>2. CASE /\ size = 0
           /\ pc' = [pc EXCEPT ![p] = IF closed THEN "idle" ELSE "asleep"]
           /\ UNCHANGED <<ring, received>>
  <2>1. /\ RingType /\ RingInv /\ PcType /\ closed \in BOOLEAN
    BY TypeParts DEF ChannelInv, WaitersWoken
  <2>2. Receivers \subseteq Threads /\ Senders \subseteq Threads /\ p \notin Senders
    BY ChannelAssumption DEF Threads
  <2>3. TypeOK' /\ RingInv' /\ Contents' = Contents
    BY <1>2, <2>1, <2>2 DEF ChannelInv, WaitersWoken, TypeOK, RingInv, Contents, ring, PcType
  <2>4. Sleeping(Senders)' = Sleeping(Senders) /\ Woken(Senders)' = Woken(Senders)
    BY <1>2, <2>1, <2>2 DEF Sleeping, Woken, At, PcType
  <2>5. closed => Sleeping(Threads)' = {}
    BY <1>2, <2>1, <2>2 DEF ChannelInv, WaitersWoken, NoSleepOnClosed, Sleeping, At, PcType
  <2>6. NoLostWakeup'
    BY <1>2, <2>1, <2>4, CountTypes DEF ChannelInv, WaitersWoken, NoLostWakeup, ring
  <2>7. NoSleepOnClosed'
    BY <2>5 DEF NoSleepOnClosed
  <2>8. CarriesInv'
    BY <1>2, <2>1, <2>2 DEF ChannelInv, CarriesInv, At, PcType
  <2> QED BY <1>2, <2>3, <2>6, <2>7, <2>8 DEF ChannelInv, WaitersWoken
<1> QED BY <1>1, <1>2 DEF RecvLocked

(* channel_close *)
LEMMA CloseStep ==
  ASSUME ChannelInv, Close
  PROVE  ChannelInv' /\ Contents' = Contents
<1>1. RingType /\ PcType
  BY TypeParts DEF ChannelInv, WaitersWoken
<1>2. TypeOK' /\ RingInv' /\ Contents' = Contents
  BY <1>1 DEF Close, ChannelInv, WaitersWoken, TypeOK, RingInv, Contents, ring, PcType, At
<1>3. Sleeping(Threads)' = {} /\ Sleeping(Senders)' = {} /\ Sleeping(Receivers)' = {}
  BY <1>1 DEF Close, Sleeping, At, Threads, PcType
<1>4. CarriesInv'
  BY <1>1 DEF Close, ChannelInv, CarriesInv, At, Threads, PcType
<1> QED BY <1>2, <1>3, <1>4 DEF ChannelInv, WaitersWoken, NoLostWakeup, NoSleepOnClosed

(* A wakeup without a signal adds a thread that is on its way. *)
LEMMA SpuriousStep ==
  ASSUME ChannelInv, NEW p \in Threads, Spurious(p)
  PROVE  ChannelInv' /\ Contents' = Contents
<1>1. RingType /\ PcType
  BY TypeParts DEF ChannelInv, WaitersWoken
<1>2. TypeOK' /\ RingInv' /\ Contents' = Contents
  BY <1>1 DEF Spurious, ChannelInv, WaitersWoken, TypeOK, RingInv, Contents, ring, PcType, At
<1>3. ASSUME NEW S, S \subseteq Threads
      PROVE  Sleeping(S)' \subseteq Sleeping(S) /\ Woken(S) \subseteq Woken(S)'
  BY <1>1, <1>3 DEF Spurious, Sleeping, Woken, At, PcType
<1>4. /\ Cardinality(Woken(Senders)) <= Cardinality(Woken(Senders)')
      /\ Cardinality(Woken(Receivers)) <= Cardinality(Woken(Receivers)')
  <2>1. Woken(Senders)' \subseteq Threads /\ Woken(Receivers)' \subseteq Threads
    BY DEF Woken, Threads
  <2>2. Woken(Senders) \subseteq Woken(Senders)' /\ Woken(Receivers) \subseteq Woken(Receivers)'
    BY <1>3 DEF Threads
  <2> QED BY <2>1, <2>2, ThreadsCard
<1>5. Sleeping(Senders)' \subseteq Sleeping(Senders) /\ Sleeping(Receivers)' \subseteq Sleeping(Receivers)
      /\ Sleeping(Threads)' \subseteq Sleeping(Threads)
  BY <1>3 DEF Threads
<1>6. NoLostWakeup' /\ NoSleepOnClosed'
  BY <1>1, <1>4, <1>5, CountTypes
     DEF ChannelInv, WaitersWoken, NoLostWakeup, NoSleepOnClosed, Spurious, ring
<1>7. CarriesInv'
  BY <1>1 DEF Spurious, ChannelInv, CarriesInv, At, Threads, PcType
<1> QED BY <1>2, <1>6, <1>7 DEF ChannelInv, WaitersWoken

(* What any step does to the contents and the two histories: nothing, one  *)
(* message in at the end, or one out at the front.                         *)
LEMMA AnyStep ==
  ASSUME ChannelInv, [Next]_vars
  PROVE  /\ ChannelInv'
         /\ Capacity > 0 =>
              \/ Contents' = Contents /\ sent' = sent /\ received' = received /\ closed' = closed
              \/ \E m \in Messages : /\ ~closed /\ size < Capacity
                                     /\ Contents' = Append(Contents, m)
                                     /\ sent' = Append(sent, m)
                                     /\ received' = received /\ closed' = closed
              \/ /\ Contents # << >> /\ Contents' = Tail(Contents)
                 /\ received' = Append(received, Head(Contents))
                 /\ sent' = sent /\ closed' = closed
              \/ /\ Contents' = Contents /\ sent' = sent /\ received' = received
                 /\ closed' = TRUE
<1>1. ASSUME NEW p \in Senders, NEW m \in Messages, Send(p, m) \/ TrySend(p, m)
      PROVE  /\ ChannelInv'
             /\ Capacity > 0 =>
                  \/ Contents' = Contents /\ sent' = sent /\ received' = received /\ closed' = closed
                  \/ /\ ~closed /\ size < Capacity
                     /\ Contents' = Append(Contents, m) /\ sent' = Append(sent, m)
                     /\ received' = received /\ closed' = closed
  <2>1. received' = received /\ closed' = closed
    BY <1>1 DEF Send, TrySend
  <2> QED BY <1>1, <2>1, SendStep, TrySendStep
<1>2. ASSUME NEW p \in Senders, SendWoken(p)
      PROVE  /\ ChannelInv' /\ message[p] \in Messages
             /\ \/ Contents' = Contents /\ sent' = sent /\ received' = received /\ closed' = closed
                \/ /\ ~closed /\ size < Capacity
                   /\ Contents' = Append(Contents, message[p])
                   /\ sent' = Append(sent, message[p])
                   /\ received' = received /\ closed' = closed
  <2>1. received' = received /\ closed' = closed
    BY <1>2 DEF SendWoken
  <2>2. message[p] \in Messages
    BY <1>2 DEF SendWoken, ChannelInv, CarriesInv, At
  <2> QED BY <1>2, <2>1, <2>2, SendWokenStep
<1>3. ASSUME NEW p \in Receivers, Recv(p) \/ RecvWoken(p) \/ TryRecv(p)
      PROVE  /\ ChannelInv' /\ sent' = sent /\ closed' = closed
             /\ \/ Contents' = Contents /\ received' = received
                \/ /\ Contents # << >> /\ Contents' = Tail(Contents)
                   /\ received' = Append(received, Head(Contents))
  <2>1. sent' = sent /\ closed' = closed /\ UNCHANGED <<closed, message, unsent, sent>>
    BY <1>3 DEF Recv, RecvWoken, TryRecv
  <2>2. CASE RecvLocked(p)
    BY <2>1, <2>2, RecvLockedStep
  <2>3. CASE size > 0 /\ Withdraw /\ GotoAndSignal(p, "idle", Senders)
    BY <2>1, <2>3, WithdrawStep
  <2> QED BY <1>3, <2>2, <2>3 DEF Recv, RecvWoken, TryRecv
<1>4. CASE Close
  <2>1. sent' = sent /\ received' = received /\ closed' = TRUE
    BY <1>4 DEF Close
  <2> QED BY <1>4, <2>1, CloseStep
<1>5. ASSUME NEW p \in Threads, Spurious(p)
      PROVE  /\ ChannelInv'
             /\ Contents' = Contents /\ sent' = sent /\ received' = received /\ closed' = closed
  <2>1. sent' = sent /\ received' = received /\ closed' = closed
    BY <1>5 DEF Spurious
  <2> QED BY <1>5, <2>1, SpuriousStep
<1>6. CASE UNCHANGED vars
  <2>1. ChannelInv' /\ Contents' = Contents
    BY <1>6 DEF vars, ring, ChannelInv, WaitersWoken, TypeOK, NoLostWakeup, NoSleepOnClosed,
                RingInv, CarriesInv, Contents, Sleeping, Woken, At
  <2> QED BY <1>6, <2>1 DEF vars
<1> QED BY <1>1, <1>2, <1>3, <1>4, <1>5, <1>6 DEF Next

(* The inductive invariant, for every capacity and any number of threads. *)
THEOREM ChannelInvariant == Spec => []ChannelInv
<1>1. Init => ChannelInv
  BY InitInv
<1>2. ChannelInv /\ [Next]_vars => ChannelInv'
  BY AnyStep
<1> QED BY <1>1, <1>2, PTL DEF Spec

(* channel_send, channel_recv, channel_close: as long as threads sleep,    *)
(* enough others are on their way to take every message and every free     *)
(* slot, and nobody sleeps on a closed channel.                            *)
THEOREM ChannelWaitersWoken == Spec => []WaitersWoken
<1>1. ChannelInv => WaitersWoken
  BY DEF ChannelInv
<1> QED BY <1>1, ChannelInvariant, PTL

(* A message moves from the front of the contents to the end of what has   *)
(* been received, or comes in at the end of both.                          *)
LEMMA DeliveryStep ==
  ASSUME Capacity > 0, ChannelInv, Delivery, [Next]_vars
  PROVE  Delivery'
<1>1. /\ RingType /\ RingInv /\ sent \in Seq(Messages) /\ received \in Seq(Messages)
  BY TypeParts DEF ChannelInv, WaitersWoken
<1>2. Contents \in Seq(Messages)
  BY <1>1, ContentsSeq
<1>3. ASSUME NEW m \in Messages, Contents' = Append(Contents, m),
             sent' = Append(sent, m), received' = received
      PROVE  Delivery'
  <2>1. <<m>> \in Seq(Messages)
    OBVIOUS
  <2>2. sent' = sent \o <<m>> /\ Contents' = Contents \o <<m>>
    BY <1>1, <1>2, <1>3, AppendIsConcat
  <2>3. (received \o Contents) \o <<m>> = received \o (Contents \o <<m>>)
    BY <1>1, <1>2, <2>1, ConcatAssociative
  <2> QED BY <1>3, <2>2, <2>3 DEF Delivery
<1>4. ASSUME Contents # << >>, Contents' = Tail(Contents),
             received' = Append(received, Head(Contents)), sent' = sent
      PROVE  Delivery'
  <2>1. Head(Contents) \in Messages /\ Tail(Contents) \in Seq(Messages)
    BY <1>2, <1>4, HeadTailProperties
  <2>2. <<Head(Contents)>> \in Seq(Messages)
    BY <2>1
  <2>3. received' = received \o <<Head(Contents)>>
    BY <1>1, <1>4, <2>1, AppendIsConcat
  <2>4. <<Head(Contents)>> \o Tail(Contents) = Contents
    BY <1>2, <1>4
  <2>5. (received \o <<Head(Contents)>>) \o Tail(Contents)
          = received \o (<<Head(Contents)>> \o Tail(Contents))
    BY SMTT(30), <1>1, <2>1, <2>2, ConcatAssociative
  <2> QED BY <1>4, <2>3, <2>4, <2>5 DEF Delivery
<1>5. ASSUME Contents' = Contents, sent' = sent, received' = received
      PROVE  Delivery'
  BY <1>5 DEF Delivery
<1> QED BY <1>3, <1>4, <1>5, AnyStep

(* With a buffer, the messages received and those in the ring are the      *)
(* messages sent, in the order of the sends: channel_send and channel_recv *)
(* lose none, double none and reorder none.                                *)
THEOREM ChannelDelivery ==
  ASSUME Capacity > 0
  PROVE  Spec => []Delivery
<1>1. Init => Delivery
  <2> SUFFICES ASSUME Init PROVE Delivery
    OBVIOUS
  <2>1. RingType /\ RingInv
    BY InitInv, TypeParts DEF ChannelInv, WaitersWoken
  <2>2. Contents = << >>
    BY <2>1, ContentsSeq, EmptySeq DEF Init
  <2>3. << >> \o << >> = << >>
    BY EmptySeq, ConcatEmptySeq
  <2> QED BY <2>2, <2>3 DEF Init, Delivery
<1>2. ChannelInv /\ Delivery /\ [Next]_vars => Delivery'
  BY DeliveryStep
<1> QED BY <1>1, <1>2, ChannelInvariant, PTL DEF Spec

(* With a buffer, every step of the channel is a step of the bounded queue *)
(* of channel.h or leaves it alone: the ring, its positions and its count  *)
(* are an implementation of it.                                            *)
THEOREM ChannelRefinement ==
  ASSUME Capacity > 0
  PROVE  Spec => ImplementsAbstract
<1>1. Init => Abstract!Init
  <2> SUFFICES ASSUME Init PROVE Abstract!Init
    OBVIOUS
  <2>1. RingType /\ RingInv
    BY InitInv, TypeParts DEF ChannelInv, WaitersWoken
  <2>2. Contents = << >>
    BY <2>1, ContentsSeq, EmptySeq DEF Init
  <2> QED BY <2>2 DEF Init, Abstract!Init
<1>2. ChannelInv /\ [Next]_vars => [Abstract!Next]_(Abstract!vars)
  <2> SUFFICES ASSUME ChannelInv, [Next]_vars PROVE [Abstract!Next]_(Abstract!vars)
    OBVIOUS
  <2>1. Len(Contents) = size
    BY TypeParts, ContentsSeq DEF ChannelInv, WaitersWoken
  <2> QED BY <2>1, AnyStep DEF Abstract!Next, Abstract!Send, Abstract!Receive, Abstract!Close,
                               Abstract!vars
<1> QED BY <1>1, <1>2, ChannelInvariant, PTL DEF Spec, ImplementsAbstract, Abstract!Spec
=============================================================================
