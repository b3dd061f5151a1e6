------------------------------- MODULE Channel -------------------------------
(***************************************************************************)
(* runtime/concurrent/channel.c: a bounded channel, a ring buffer under    *)
(* one mutex with two condition variables.  What a thread does between     *)
(* taking the mutex and releasing it, by returning or by going to sleep,   *)
(* is one action.  A thread that a signal has woken takes the mutex later, *)
(* and tests its condition again.                                          *)
(*                                                                         *)
(* waiting_senders and waiting_receivers are written and never read; the   *)
(* sets of sleeping and woken threads stand for them.                      *)
(***************************************************************************)
EXTENDS Integers, Sequences, FiniteSets

CONSTANTS Messages, NoMessage,
          Senders,     \* threads calling channel_send and channel_try_send
          Receivers,   \* threads calling channel_recv and channel_try_recv
          Capacity     \* ch->capacity; 0 for unbuffered

ASSUME ChannelAssumption ==
  /\ Capacity \in Nat
  /\ NoMessage \notin Messages
  /\ IsFiniteSet(Senders)
  /\ IsFiniteSet(Receivers)
  /\ Senders \cap Receivers = {}

Threads == Senders \cup Receivers

VARIABLES buffer, size, read_pos, write_pos, closed,
          pc,         \* "idle", asleep in pthread_cond_wait, or woken
          message,    \* the message a blocked channel_send carries
          unsent,     \* messages no call has been made with
          sent,       \* messages whose send returned true, in order
          received    \* messages received, in order

ring == <<buffer, size, read_pos, write_pos>>
vars == <<ring, closed, pc, message, unsent, sent, received>>

At(p, label) == pc[p] = label
Sleeping(S) == {p \in S : At(p, "asleep")}
Woken(S) == {p \in S : At(p, "woken")}

(* channel_create *)
Init ==
  /\ buffer = [i \in 0 .. Capacity - 1 |-> NoMessage]
  /\ size = 0
  /\ read_pos = 0
  /\ write_pos = 0
  /\ closed = FALSE
  /\ pc = [p \in Threads |-> "idle"]
  /\ message = [p \in Senders |-> NoMessage]
  /\ unsent = Messages
  /\ sent = << >>
  /\ received = << >>

-----------------------------------------------------------------------------
(* p goes to label and signals one sleeper of S, if there is one. *)
GotoAndSignal(p, label, S) ==
  \/ /\ Sleeping(S) \ {p} = {}
     /\ pc' = [pc EXCEPT ![p] = label]
  \/ \E q \in Sleeping(S) \ {p} : pc' = [pc EXCEPT ![p] = label, ![q] = "woken"]

(* The message goes into the ring; without a buffer nothing keeps it. *)
Deposit(m) ==
  IF Capacity > 0
    THEN /\ buffer' = [buffer EXCEPT ![write_pos] = m]
         /\ write_pos' = (write_pos + 1) % Capacity
         /\ size' = size + 1
         /\ UNCHANGED read_pos
    ELSE UNCHANGED ring

Withdraw ==
  /\ received' = Append(received, buffer[read_pos])
  /\ read_pos' = (read_pos + 1) % Capacity
  /\ size' = size - 1
  /\ UNCHANGED <<buffer, write_pos>>

(* The rest of channel_send once p holds the mutex with message m. *)
SendLocked(p, m) ==
  \/ /\ closed
     /\ pc' = [pc EXCEPT ![p] = "idle"]
     /\ UNCHANGED <<ring, sent>>
  \/ /\ ~closed
     /\ size >= Capacity
     /\ pc' = [pc EXCEPT ![p] = "asleep"]
     /\ UNCHANGED <<ring, sent>>
  \/ /\ ~closed
     /\ size < Capacity
     /\ Deposit(m)
     /\ sent' = Append(sent, m)
     /\ GotoAndSignal(p, "idle", Receivers)

Send(p, m) ==
  /\ At(p, "idle")
  /\ m \in unsent
  /\ unsent' = unsent \ {m}
  /\ message' = [message EXCEPT ![p] = m]
  /\ SendLocked(p, m)
  /\ UNCHANGED <<closed, received>>

(* Mutation: the test is not repeated after the wait. *)
SendWokenNoTest(p) ==
  /\ At(p, "woken")
  /\ \/ /\ closed
        /\ pc' = [pc EXCEPT ![p] = "idle"]
        /\ UNCHANGED <<ring, sent>>
     \/ /\ ~closed
        /\ Deposit(message[p])
        /\ sent' = Append(sent, message[p])
        /\ GotoAndSignal(p, "idle", Receivers)
  /\ UNCHANGED <<closed, message, unsent, received>>

SendWoken(p) ==
  /\ At(p, "woken")
  /\ SendLocked(p, message[p])
  /\ UNCHANGED <<closed, message, unsent, received>>

(* channel_try_send that returns true; when it returns false it has done   *)
(* nothing.                                                                *)
TrySend(p, m) ==
  /\ At(p, "idle")
  /\ m \in unsent
  /\ ~closed
  /\ Capacity > 0 => size < Capacity
  /\ Deposit(m)
  /\ unsent' = unsent \ {m}
  /\ sent' = Append(sent, m)
  /\ GotoAndSignal(p, "idle", Receivers)
  /\ UNCHANGED <<closed, message, received>>

-----------------------------------------------------------------------------
(* Mutation: a receive does not wake a sender. *)
RecvLockedNoSignal(p) ==
  \/ /\ size = 0
     /\ pc' = [pc EXCEPT ![p] = IF closed THEN "idle" ELSE "asleep"]
     /\ UNCHANGED <<ring, received>>
  \/ /\ size > 0
     /\ Withdraw
     /\ pc' = [pc EXCEPT ![p] = "idle"]

(* channel_recv once p holds the mutex *)
RecvLocked(p) ==
  \/ /\ size = 0
     /\ pc' = [pc EXCEPT ![p] = IF closed THEN "idle" ELSE "asleep"]
     /\ UNCHANGED <<ring, received>>
  \/ /\ size > 0
     /\ Withdraw
     /\ GotoAndSignal(p, "idle", Senders)

Recv(p) ==
  /\ At(p, "idle")
  /\ RecvLocked(p)
  /\ UNCHANGED <<closed, message, unsent, sent>>

RecvWoken(p) ==
  /\ At(p, "woken")
  /\ RecvLocked(p)
  /\ UNCHANGED <<closed, message, unsent, sent>>

(* channel_try_recv that returns true *)
TryRecv(p) ==
  /\ At(p, "idle")
  /\ size > 0
  /\ Withdraw
  /\ GotoAndSignal(p, "idle", Senders)
  /\ UNCHANGED <<closed, message, unsent, sent>>

-----------------------------------------------------------------------------
(* Mutation: channel_close wakes the receivers only. *)
CloseWakesReceivers ==
  /\ ~closed
  /\ closed' = TRUE
  /\ pc' = [p \in Threads |-> IF p \in Receivers /\ At(p, "asleep") THEN "woken" ELSE pc[p]]
  /\ UNCHANGED <<ring, message, unsent, sent, received>>

(* channel_close *)
Close ==
  /\ ~closed
  /\ closed' = TRUE
  /\ pc' = [p \in Threads |-> IF At(p, "asleep") THEN "woken" ELSE pc[p]]
  /\ UNCHANGED <<ring, message, unsent, sent, received>>

(* POSIX lets pthread_cond_wait return for no reason. *)
Spurious(p) ==
  /\ At(p, "asleep")
  /\ pc' = [pc EXCEPT ![p] = "woken"]
  /\ UNCHANGED <<ring, closed, message, unsent, sent, received>>

Next ==
  \/ \E p \in Senders :
       \/ \E m \in Messages : Send(p, m) \/ TrySend(p, m)
       \/ SendWoken(p)
  \/ \E p \in Receivers : Recv(p) \/ RecvWoken(p) \/ TryRecv(p)
  \/ Close
  \/ \E p \in Threads : Spurious(p)

Spec == Init /\ [][Next]_vars

(* A woken thread gets the mutex, and receivers go on receiving.  Nobody   *)
(* has to send or to close.                                                *)
FairSpec ==
  /\ Spec
  /\ \A p \in Senders : WF_vars(SendWoken(p))
  /\ \A p \in Receivers : WF_vars(RecvWoken(p)) /\ WF_vars(Recv(p))

-----------------------------------------------------------------------------
(* Type invariant. *)
TypeOK ==
  /\ buffer \in [0 .. Capacity - 1 -> Messages \cup {NoMessage}]
  /\ size \in 0 .. Capacity
  /\ read_pos \in Nat /\ (Capacity > 0 => read_pos < Capacity)
  /\ write_pos \in Nat /\ (Capacity > 0 => write_pos < Capacity)
  /\ closed \in BOOLEAN
  /\ pc \in [Threads -> {"idle", "asleep", "woken"}]
  /\ message \in [Senders -> Messages \cup {NoMessage}]
  /\ unsent \in SUBSET Messages
  /\ sent \in Seq(Messages)
  /\ received \in Seq(Messages)

(* The messages in the channel, oldest first. *)
Contents ==
  [k \in 1 .. size |-> buffer[(read_pos + k - 1) % Capacity]]

(* Every message whose send returned true has been received or is in the   *)
(* channel, in the order of the sends; none is lost, doubled or overtaken. *)
Delivery == sent = received \o Contents

(* No wakeup is lost, although one message or one free slot signals one    *)
(* thread only and newcomers may take it first: while threads sleep, there *)
(* are as many woken ones on their way as there are messages, or slots.    *)
NoLostWakeup ==
  /\ Sleeping(Receivers) # {} => Cardinality(Woken(Receivers)) >= size
  /\ Sleeping(Senders) # {} => Cardinality(Woken(Senders)) >= Capacity - size

(* Nobody sleeps on a closed channel: channel_close reaches every thread   *)
(* that waits, and a thread that was on its way to sleep sees the flag.    *)
NoSleepOnClosed == closed => Sleeping(Threads) = {}

(* Whoever sleeps in channel_send or channel_recv has a reason to: there   *)
(* is nothing to take that is not spoken for, and the channel is open.     *)
WaitersWoken == TypeOK /\ NoLostWakeup /\ NoSleepOnClosed

(* The positions and the count describe one window of the ring, and every  *)
(* slot in it holds a message.                                             *)
RingInv ==
  Capacity > 0 =>
    /\ write_pos = (read_pos + size) % Capacity
    /\ \A k \in 1 .. size : Contents[k] \in Messages

(* A blocked channel_send still has its message. *)
CarriesInv == \A p \in Senders : ~At(p, "idle") => message[p] \in Messages

(* The inductive invariant. *)
ChannelInv == WaitersWoken /\ RingInv /\ CarriesInv

(* channel.h: "Send a message (blocks if full)".  A blocked channel_send   *)
(* returns if receivers go on receiving.                                   *)
SendReturns ==
  \A p \in Senders : At(p, "asleep") ~> At(p, "idle")

(* Every message sent is received, also when the channel is closed first. *)
AllReceived ==
  \A n \in 1 .. Cardinality(Messages) : Len(sent) >= n ~> Len(received) >= n

(* A channel that is used passes on what is sent: neither side of it is    *)
(* left waiting.                                                           *)
PassesOn == SendReturns /\ AllReceived

(* The ring buffer, its two positions and its count implement the queue    *)
(* that channel.h promises.                                                *)
Abstract == INSTANCE BoundedChannel WITH queue <- Contents
ImplementsAbstract == Abstract!Spec
=============================================================================
