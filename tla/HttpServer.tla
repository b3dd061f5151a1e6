----------------------------- MODULE HttpServer -----------------------------
(***************************************************************************)
(* The HTTP server of runtime/net/http_server.c: the accept loop, the hand *)
(* over to the worker pool, and http_server_handle_connection.             *)
(*                                                                         *)
(* What a client sends is a sequence of cells: "line" the request line,    *)
(* "hdr" a header, a member of DOMAIN HtLengths a header Content-Length    *)
(* that declares that length, "end" the empty line, "b" a part of the      *)
(* body, and "x" for bytes without an end of line.  The network cuts it    *)
(* into segments anywhere, and a client may stall or close at any time: a  *)
(* recv then returns <= 0, by its time-out or at once.  The pool is its    *)
(* promise: accepted tasks run, HtWorkers at a time (WorkerPool shows when *)
(* it keeps it).                                                           *)
(***************************************************************************)
EXTENDS Integers, Sequences, FiniteSets

CONSTANTS
    HtConns,         \* connections
    HtWires,         \* what clients send
    HtLengths,       \* the lengths declared by the Content-Length headers
    HtMaxBody,       \* what a declared length is cut down to: 64 MiB
    HtMaxHeaders,    \* headers that are kept: 32
    HtBuffer,        \* cells in the header buffer
    HtWorkers,       \* workers of the pool
    HtMiddlewares    \* registered middleware functions

HtCells == {"line", "hdr", "end", "b", "x"} \cup DOMAIN HtLengths

\* Where a sequence of cells declares a body length.
HtDeclares(s) == {i \in DOMAIN s : s[i] \in DOMAIN HtLengths}

\* Headers are sent before the empty line.
HtOrdered(s) == \A i \in HtDeclares(s), j \in DOMAIN s : s[j] = "end" => i < j

ASSUME HtAssumption ==
    /\ HtLengths \in [DOMAIN HtLengths -> Nat] /\ HtMaxBody \in Nat /\ HtMaxHeaders \in Nat
    /\ HtMiddlewares \in Nat
    /\ \A w \in HtWires : w \in Seq(HtCells) /\ HtOrdered(w)

VARIABLES
    ht_pc,       \* per connection: where its handling is
    ht_wire,     \* cells sent and not yet received
    ht_buf,      \* header buffer
    ht_body,     \* body cells of the request; ht_want of them declared
    ht_want,
    ht_mw,       \* middleware functions called
    ht_status,   \* mw_response->status_code is set
    \* History: replies sent, sockets destroyed, the end of the headers was
    \* read, a middleware rejected the request, the body the handler saw.
    ht_replies, ht_closes, ht_whole, ht_rejected, ht_seen

htVars == <<ht_pc, ht_wire, ht_buf, ht_body, ht_want, ht_mw, ht_status,
            ht_replies, ht_closes, ht_whole, ht_rejected, ht_seen>>

NotCalled == -1

HtInit ==
    /\ ht_pc = [c \in HtConns |-> "new"]
    /\ ht_wire \in [HtConns -> HtWires]
    /\ ht_buf = [c \in HtConns |-> <<>>]
    /\ ht_body = [c \in HtConns |-> 0] /\ ht_want = [c \in HtConns |-> 0]
    /\ ht_mw = [c \in HtConns |-> 0] /\ ht_status = [c \in HtConns |-> FALSE]
    /\ ht_replies = [c \in HtConns |-> 0] /\ ht_closes = [c \in HtConns |-> 0]
    /\ ht_whole = [c \in HtConns |-> FALSE] /\ ht_rejected = [c \in HtConns |-> FALSE]
    /\ ht_seen = [c \in HtConns |-> NotCalled]

HtGo(c, from, to) == ht_pc[c] = from /\ ht_pc' = [ht_pc EXCEPT ![c] = to]

\* socket_destroy, the end of every path.
HtClose(c, from) ==
    /\ HtGo(c, from, "closed")
    /\ ht_closes' = [ht_closes EXCEPT ![c] = @ + 1]

HtHandled == {c \in HtConns : ht_pc[c] \notin {"new", "queued", "closed", "dropped"}}

-----------------------------------------------------------------------------
(* http_server_listen: accept, and pool_submit accepts or refuses.          *)

HtAccept(c) ==
    /\ HtGo(c, "new", "queued")
    /\ UNCHANGED <<ht_wire, ht_buf, ht_body, ht_want, ht_mw, ht_status,
                   ht_replies, ht_closes, ht_whole, ht_rejected, ht_seen>>

HtRefuse(c) ==
    /\ HtClose(c, "new")
    /\ UNCHANGED <<ht_wire, ht_buf, ht_body, ht_want, ht_mw, ht_status,
                   ht_replies, ht_whole, ht_rejected, ht_seen>>

\* handle_client_task on a free worker.
HtStart(c) ==
    /\ HtGo(c, "queued", "head") /\ Cardinality(HtHandled) < HtWorkers
    /\ UNCHANGED <<ht_wire, ht_buf, ht_body, ht_want, ht_mw, ht_status,
                   ht_replies, ht_closes, ht_whole, ht_rejected, ht_seen>>

-----------------------------------------------------------------------------
(* http_server_handle_connection.                                           *)

HasEnd(s) == \E i \in DOMAIN s : s[i] = "end"

\* One recv of the header loop, of 1 to as many cells as there is room for.
HtRecvHead(c) ==
    \E k \in 1 .. Len(ht_wire[c]) :
      LET buf == ht_buf[c] \o SubSeq(ht_wire[c], 1, k)
          stop == HasEnd(buf) \/ Len(buf) = HtBuffer
      IN /\ Len(buf) <= HtBuffer
         /\ HtGo(c, "head", IF stop THEN "parse" ELSE "head")
         /\ ht_buf' = [ht_buf EXCEPT ![c] = buf]
         /\ ht_wire' = [ht_wire EXCEPT ![c] = SubSeq(@, k + 1, Len(@))]
         /\ ht_whole' = [ht_whole EXCEPT ![c] = HasEnd(buf)]
         /\ UNCHANGED <<ht_body, ht_want, ht_mw, ht_status, ht_replies, ht_closes,
                        ht_rejected, ht_seen>>

\* Mutation: without socket_set_timeout a recv waits for a silent client.
HtRecvHeadBlocks(c) == FALSE

\* A recv that returns <= 0 ends the loop; what was read is parsed.
HtRecvHeadFails(c) ==
    /\ HtGo(c, "head", "parse")
    /\ UNCHANGED <<ht_wire, ht_buf, ht_body, ht_want, ht_mw, ht_status,
                   ht_replies, ht_closes, ht_whole, ht_rejected, ht_seen>>

\* Nothing at all was read: no reply.
HtEmpty(c) ==
    /\ ht_buf[c] = <<>>
    /\ HtClose(c, "parse")
    /\ UNCHANGED <<ht_wire, ht_buf, ht_body, ht_want, ht_mw, ht_status,
                   ht_replies, ht_whole, ht_rejected, ht_seen>>

\* parse_request fails: 400.
HtMalformed(c) ==
    /\ ht_buf[c] # <<>> /\ ht_buf[c][1] # "line"
    /\ HtClose(c, "parse")
    /\ ht_replies' = [ht_replies EXCEPT ![c] = @ + 1]
    /\ UNCHANGED <<ht_wire, ht_buf, ht_body, ht_want, ht_mw, ht_status,
                   ht_whole, ht_rejected, ht_seen>>

\* request_content_length: the first Content-Length among the headers that
\* were kept counts, and at most for HtMaxBody.
BodyLength(kept, buf) ==
    LET first == CHOOSE i \in kept : \A j \in kept : i <= j
        length == HtLengths[buf[first]]
    IN IF kept = {} THEN 0 ELSE IF length > HtMaxBody THEN HtMaxBody ELSE length

\* parse_request: without the empty line there is no body to wait for; the
\* headers after the request line are kept as long as there is room.
Parsed(buf) ==
    LET ends == {i \in DOMAIN buf : buf[i] = "end"}
        end == CHOOSE i \in ends : \A j \in ends : i <= j
        kept == {i \in HtDeclares(buf) : i < end /\ i <= HtMaxHeaders + 1}
    IN IF ends = {} THEN [have |-> 0, want |-> 0]
       ELSE [have |-> Len(buf) - end, want |-> BodyLength(kept, buf)]

HtParse(c) ==
    /\ ht_buf[c] # <<>> /\ ht_buf[c][1] = "line"
    /\ LET p == Parsed(ht_buf[c])
       IN /\ HtGo(c, "parse", IF p.want > p.have THEN "body" ELSE "middleware")
          /\ ht_body' = [ht_body EXCEPT ![c] = p.have]
          /\ ht_want' = [ht_want EXCEPT ![c] = p.want]
    /\ UNCHANGED <<ht_wire, ht_buf, ht_mw, ht_status, ht_replies, ht_closes,
                   ht_whole, ht_rejected, ht_seen>>

\* One recv of recv_exact, of at most what is missing.
HtRecvBody(c) ==
    \E k \in 1 .. Len(ht_wire[c]) :
      /\ ht_body[c] + k <= ht_want[c]
      /\ HtGo(c, "body", IF ht_body[c] + k = ht_want[c] THEN "middleware" ELSE "body")
      /\ ht_body' = [ht_body EXCEPT ![c] = @ + k]
      /\ ht_wire' = [ht_wire EXCEPT ![c] = SubSeq(@, k + 1, Len(@))]
      /\ UNCHANGED <<ht_buf, ht_want, ht_mw, ht_status, ht_replies, ht_closes,
                     ht_whole, ht_rejected, ht_seen>>

\* A recv that returns <= 0 before the body is complete: 400.
HtRecvBodyFails(c) ==
    /\ HtClose(c, "body")
    /\ ht_replies' = [ht_replies EXCEPT ![c] = @ + 1]
    /\ UNCHANGED <<ht_wire, ht_buf, ht_body, ht_want, ht_mw, ht_status,
                   ht_whole, ht_rejected, ht_seen>>

\* The next middleware returns ok or not and may set the status of a reply;
\* one that does not return ok ends the chain.
HtMiddleware(c) ==
    /\ ht_pc[c] = "middleware" /\ ht_mw[c] < HtMiddlewares
    /\ \E ok \in BOOLEAN, set \in BOOLEAN :
         /\ ht_status' = [ht_status EXCEPT ![c] = @ \/ set]
         /\ ht_mw' = [ht_mw EXCEPT ![c] = IF ok THEN @ + 1 ELSE HtMiddlewares]
         /\ ht_rejected' = [ht_rejected EXCEPT ![c] = ~ok]
    /\ UNCHANGED <<ht_pc, ht_wire, ht_buf, ht_body, ht_want,
                   ht_replies, ht_closes, ht_whole, ht_seen>>

\* Mutation: what the middleware answered is dropped.
HtChainEndDrops(c) == HtGo(c, "middleware", "route")

\* A status means a response; without one the request goes to its route.
HtChainEnd(c) == HtGo(c, "middleware", IF ht_status[c] THEN "send" ELSE "route")

HtAfterChain(c) ==
    /\ ht_mw[c] = HtMiddlewares
    /\ HtChainEnd(c)
    /\ UNCHANGED <<ht_wire, ht_buf, ht_body, ht_want, ht_mw, ht_status,
                   ht_replies, ht_closes, ht_whole, ht_rejected, ht_seen>>

\* The handler of the route, its future included.
HtRoute(c) ==
    /\ HtGo(c, "route", "send")
    /\ ht_seen' = [ht_seen EXCEPT ![c] = ht_body[c]]
    /\ UNCHANGED <<ht_wire, ht_buf, ht_body, ht_want, ht_mw, ht_status,
                   ht_replies, ht_closes, ht_whole, ht_rejected>>

\* The future of the handler gives NULL: the socket is closed without a reply.
HtRouteNull(c) ==
    /\ HtGo(c, "route", "dropped")
    /\ ht_seen' = [ht_seen EXCEPT ![c] = ht_body[c]]
    /\ ht_closes' = [ht_closes EXCEPT ![c] = @ + 1]
    /\ UNCHANGED <<ht_wire, ht_buf, ht_body, ht_want, ht_mw, ht_status,
                   ht_replies, ht_whole, ht_rejected>>

\* No route: 404.
HtNoRoute(c) ==
    /\ HtGo(c, "route", "send")
    /\ UNCHANGED <<ht_wire, ht_buf, ht_body, ht_want, ht_mw, ht_status,
                   ht_replies, ht_closes, ht_whole, ht_rejected, ht_seen>>

\* The response is sent, as far as the client takes it.
HtSend(c) ==
    /\ HtClose(c, "send")
    /\ ht_replies' = [ht_replies EXCEPT ![c] = @ + 1]
    /\ UNCHANGED <<ht_wire, ht_buf, ht_body, ht_want, ht_mw, ht_status,
                   ht_whole, ht_rejected, ht_seen>>

HtHandle(c) ==
    \/ HtStart(c) \/ HtRecvHead(c) \/ HtRecvHeadFails(c) \/ HtEmpty(c) \/ HtMalformed(c)
    \/ HtParse(c) \/ HtRecvBody(c) \/ HtRecvBodyFails(c) \/ HtMiddleware(c)
    \/ HtAfterChain(c) \/ HtRoute(c) \/ HtRouteNull(c) \/ HtNoRoute(c) \/ HtSend(c)

HtNext == \E c \in HtConns : HtAccept(c) \/ HtRefuse(c) \/ HtHandle(c)

HtSpec == HtInit /\ [][HtNext]_htVars

\* The workers run; with the time-outs of socket_set_timeout, every recv and
\* send returns.
HtFairness == \A c \in HtConns : WF_htVars(HtHandle(c))

-----------------------------------------------------------------------------

\* Every connection is answered at most once and its socket destroyed once:
\* when it is closed it was answered, unless it sent nothing, was refused, or
\* the future of its handler gave NULL.
HtAnsweredOnce ==
    \A c \in HtConns :
      /\ ht_closes[c] = (IF ht_pc[c] \in {"closed", "dropped"} THEN 1 ELSE 0)
      /\ ht_replies[c] <= ht_closes[c]
      /\ ht_pc[c] = "closed" /\ ht_buf[c] # <<>> => ht_replies[c] = 1

\* The handler never sees a body shorter than the Content-Length, however the
\* request was cut into segments and wherever the client stopped.  Excepted
\* are a header block that was cut itself, by a time-out in the header loop
\* (http_server.c:332) or a full buffer, and is then handled without the rest
\* of its headers and its body; a length beyond HtMaxBody (http_server.c:211),
\* of which the handler sees at least HtMaxBody; and a Content-Length after
\* the header that is the last one kept (http_server.c:258) or after another
\* Content-Length.
HtBodyComplete ==
    \A c \in HtConns : ht_seen[c] # NotCalled /\ ht_whole[c] =>
      \A i \in HtDeclares(ht_buf[c]) :
        (\A j \in HtDeclares(ht_buf[c]) : i <= j) /\ i <= HtMaxHeaders + 1 =>
          \/ ht_seen[c] >= HtLengths[ht_buf[c][i]]
          \/ HtLengths[ht_buf[c][i]] > HtMaxBody /\ ht_seen[c] >= HtMaxBody

\* A request that a middleware rejected with a status does not reach the
\* handler; one rejected without a status does (http_server.c:385).
HtRejectedNotRouted ==
    \A c \in HtConns : ht_rejected[c] /\ ht_status[c] => ht_seen[c] = NotCalled

\* Safety of a connection, on every way out of the handler.
HtSafe == HtAnsweredOnce /\ HtBodyComplete /\ HtRejectedNotRouted

\* The parts of the inductive invariant: the types; what is read so far is a
\* request with the rest of the wire behind it while the headers are read; the
\* body that is there when the middleware runs; the order of the ways out.
HtTypeOK ==
    /\ ht_pc \in [HtConns -> {"new", "queued", "head", "parse", "body", "middleware", "route",
                              "send", "closed", "dropped"}]
    /\ ht_wire \in [HtConns -> Seq(HtCells)] /\ ht_buf \in [HtConns -> Seq(HtCells)]
    /\ ht_body \in [HtConns -> Nat] /\ ht_want \in [HtConns -> Nat] /\ ht_mw \in [HtConns -> Nat]
    /\ ht_status \in [HtConns -> BOOLEAN] /\ ht_rejected \in [HtConns -> BOOLEAN]
    /\ ht_whole \in [HtConns -> BOOLEAN]
    /\ ht_replies \in [HtConns -> Nat] /\ ht_closes \in [HtConns -> Nat]
    /\ ht_seen \in [HtConns -> Nat \cup {NotCalled}]

HtHeadInv(c) ==
    /\ ht_pc[c] \in {"new", "queued"} => ht_buf[c] = <<>>
    /\ ht_whole[c] = HasEnd(ht_buf[c])
    /\ HtOrdered(ht_buf[c])
    /\ ht_pc[c] \in {"new", "queued", "head"} => HtOrdered(ht_buf[c] \o ht_wire[c])

HtBodyInv(c) ==
    /\ ht_pc[c] \in {"body", "middleware", "route"} => ht_want[c] = Parsed(ht_buf[c]).want
    /\ ht_pc[c] \in {"middleware", "route"} => ht_body[c] >= ht_want[c]
    /\ ht_seen[c] # NotCalled => ht_seen[c] >= Parsed(ht_buf[c]).want

HtOutInv(c) ==
    /\ ht_closes[c] = (IF ht_pc[c] \in {"closed", "dropped"} THEN 1 ELSE 0)
    /\ ht_replies[c] <= 1 /\ (ht_replies[c] = 1 => ht_pc[c] = "closed")
    /\ ht_pc[c] = "closed" /\ ht_buf[c] # <<>> => ht_replies[c] = 1
    /\ ht_seen[c] # NotCalled => ht_pc[c] \in {"send", "closed", "dropped"} /\ ~ht_status[c]
    /\ ht_pc[c] = "route" => ~ht_status[c]

HtInv == HtTypeOK /\ \A c \in HtConns : HtHeadInv(c) /\ HtBodyInv(c) /\ HtOutInv(c)

HtOpen == {c \in HtConns : ht_pc[c] \notin {"new", "closed", "dropped"}}

\* Every accepted connection is closed, with fewer workers than connections
\* and clients that go silent: a stalled client holds a worker for a bounded
\* number of time-outs, and a time comes when no connection is open.
HtAllClosed == HtOpen # {} ~> HtOpen = {}
=============================================================================
