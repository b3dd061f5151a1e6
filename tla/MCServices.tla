----------------------------- MODULE MCServices -----------------------------
(***************************************************************************)
(* Three services of the runtime: the channel, the log queue and the HTTP  *)
(* server.  They share no state: a behaviour runs one of them while the    *)
(* others stay in an initial state, so that their state spaces are added   *)
(* and not multiplied.                                                     *)
(***************************************************************************)
EXTENDS Channel, LogQueue, HttpServer

VARIABLE component

services == <<component, vars, logVars, htVars>>

\* Requests: with a body of the declared length, a Content-Length that is not
\* kept, one that is cut down, headers that fill the buffer before they end,
\* and bytes without an end of line.
Lengths == [cl |-> 2, long |-> 3]
Wires == {<<"line", "cl", "end", "b", "b">>, <<"line", "hdr", "cl", "end", "b">>,
          <<"line", "long", "end", "b", "b", "b">>, <<"line", "cl", "hdr", "hdr", "end">>, <<"x">>}

ServicesInit ==
    /\ component \in {"channel", "log", "http"}
    /\ Init /\ LogInit
    /\ ht_wire \in IF component = "http" THEN [HtConns -> HtWires] ELSE [HtConns -> {<<"x">>}]
    /\ HtInit

\* A step of one service.
Chan(A) == component = "channel" /\ A /\ UNCHANGED <<component, logVars, htVars>>
Log(A) == component = "log" /\ A /\ UNCHANGED <<component, vars, htVars>>
Http(A) == component = "http" /\ A /\ UNCHANGED <<component, vars, logVars>>

ServicesNext == Chan(Next) \/ Log(LogNext) \/ Http(HtNext)

\* The fairness of Channel, LogQueue and HttpServer.  Only one of them runs in
\* a behaviour, so that conditions of different services may share a conjunct;
\* the threads of all have the same names for that.
ServicesFairness ==
    /\ \A t \in Senders :
         WF_services(Chan(SendWoken(t)) \/ Log(LogCopy(t) \/ LogPublish(t)) \/ Http(HtHandle(t)))
    /\ \A t \in Receivers : WF_services(Chan(RecvWoken(t)) \/ Log(LogDrainStep))
    /\ \A t \in Receivers : WF_services(Chan(Recv(t)))

ServicesSpec == ServicesInit /\ [][ServicesNext]_services /\ ServicesFairness
=============================================================================
