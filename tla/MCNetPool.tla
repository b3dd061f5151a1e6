------------------------------ MODULE MCNetPool ------------------------------
(***************************************************************************)
(* The instance of NetPool that TLC checks.  Two bounds: a race that       *)
(* NetClean excepts ends the behaviour, and the first submit is that of    *)
(* FirstClient, which loses nothing because the clients are alike.         *)
(***************************************************************************)
EXTENDS NetPool

CONSTANT FirstClient

FirstSubmit == net_sent[FirstClient] = 0 => net_sent' \in {net_sent, [net_sent EXCEPT ![FirstClient] = 1]}
Bounded(A) == NetClean /\ A

\* NetFairness, within the first bound; submits are not in it.
Fairness ==
    /\ \A w \in NetWorkers : WF_netVars(Bounded(NetWorkerStep(w)))
    /\ \A c \in NetClients : WF_netVars(Bounded(NetLink(c) \/ NetCount(c) \/ NetWake(c) \/ NetJoined(c)))

Spec == NetInit /\ [][Bounded(NetNext) /\ FirstSubmit]_netVars /\ Fairness
=============================================================================
