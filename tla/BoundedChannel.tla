--------------------------- MODULE BoundedChannel ---------------------------
(***************************************************************************)
(* What runtime/concurrent/channel.h promises of a buffered channel: a     *)
(* bounded queue between senders and receivers, first in, first out, which *)
(* takes no message once closed and still hands out those it has.          *)
(***************************************************************************)
EXTENDS Naturals, Sequences

CONSTANTS Messages, Capacity

VARIABLES queue, closed, sent

vars == <<queue, closed, sent>>

Init ==
  /\ queue = << >>
  /\ closed = FALSE
  /\ sent = << >>

Send(m) ==
  /\ ~closed
  /\ Len(queue) < Capacity
  /\ queue' = Append(queue, m)
  /\ sent' = Append(sent, m)
  /\ UNCHANGED closed

Receive ==
  /\ queue # << >>
  /\ queue' = Tail(queue)
  /\ UNCHANGED <<closed, sent>>

Close ==
  /\ closed' = TRUE
  /\ UNCHANGED <<queue, sent>>

Next ==
  \/ \E m \in Messages : Send(m)
  \/ Receive
  \/ Close

Spec == Init /\ [][Next]_vars
=============================================================================
