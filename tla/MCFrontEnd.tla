----------------------------- MODULE MCFrontEnd -----------------------------
(* The connections the listeners of the process accept, for TLC: an       *)
(* accepted socket is either a front-end connection (HTTP or driver,      *)
(* FrontConnection) or a port-forward connection (PortRelay).  The        *)
(* request parser of an HTTP connection is, besides, followed callback by *)
(* callback (HttpRequestParser), where FrontConnection takes a whole      *)
(* request per read.  The fourth kind is the other end: a pooled HTTP     *)
(* client's connection to an upstream, read by get_response through the   *)
(* response parser (HttpResponseParser).  The fifth is the forward        *)
(* manager's per-thread fiber pool (FiberPool), where an async request's  *)
(* batch runs.  The five share no state, so each behaviour follows one of *)
(* them and leaves the others in their initial state; one run checks all  *)
(* five.                                                                   *)
EXTENDS Naturals

CONSTANTS
  MaxReq,     \* requests on a front-end connection
  MaxChunks,  \* chunks the client of a forward connection sends
  Chars, MaxMsgs, MaxHdrs, MaxLen, \* the messages the request parser reads
  Codes, RspHdrs, MaxCalls,        \* the responses the client reads
  b1, b2, b3, PoolRows, GROW_SIZE, MAX_GROW_SIZE \* the fiber pool's batches

VARIABLES
  req, sent, inbox, eof, rst, rd, cur, st, parser, shut, conn, aborted,
  csent, cin, cfin, crst, up, tries, usock, srv, rsent, rin, ufin, dn,
  srcShut, alive, delivered,
  pstate, url, nextReq, cont, handed, phase, cut, msg, msgs,
  cpstate, crsp, ccont, csock, ccall, cresult, ncalls,
  cphase, ccut, cmsg, ccomplete, cpeerEof,
  psize, prunning, pwaiting, pready, pqueue, pbst, ppushed, pcallNum, prst,
  server      \* the listener that accepted the connection

F == INSTANCE FrontConnection
R == INSTANCE PortRelay
H == INSTANCE HttpRequestParser
C == INSTANCE HttpResponseParser
       WITH pstate <- cpstate, rsp <- crsp, cont <- ccont, sock <- csock,
            call <- ccall, result <- cresult, phase <- cphase, cut <- ccut,
            msg <- cmsg, complete <- ccomplete, peerEof <- cpeerEof,
            MaxHdrs <- RspHdrs
P == INSTANCE FiberPool
       WITH size <- psize, running <- prunning, waiting <- pwaiting,
            ready <- pready, queue <- pqueue, bst <- pbst, pushed <- ppushed,
            callNum <- pcallNum, rst <- prst, Batches <- {b1, b2, b3},
            Rows <- PoolRows

Servers == {"front", "forward", "parse", "client", "pool"}

fvars == <<req, sent, inbox, eof, rst, rd, cur, st, parser, shut, conn,
           aborted>>
rvars == <<csent, cin, cfin, crst, up, tries, usock, srv, rsent, rin, ufin,
           dn, srcShut, alive, delivered>>
hvars == <<pstate, url, nextReq, cont, handed, phase, cut, msg, msgs>>
cvars == <<cpstate, crsp, ccont, csock, ccall, cresult, ncalls,
           cphase, ccut, cmsg, ccomplete, cpeerEof>>
pvars == <<psize, prunning, pwaiting, pready, pqueue, pbst, ppushed, pcallNum,
           prst>>
vars  == <<fvars, rvars, hvars, cvars, pvars, server>>

\* A forward or parser behaviour leaves the front-end variables in one
\* initial state.
Init ==
  /\ server \in Servers /\ F!Init /\ R!Init /\ H!Init /\ C!Init /\ P!Init
  /\ server # "front" =>
       conn = "http" /\ \A i \in F!Ids : req[i] = [kind |-> "sync", keep |-> TRUE]

OnFront(A)  == server = "front" /\ A /\ UNCHANGED <<rvars, hvars, cvars, pvars, server>>
OnRelay(A)  == server = "forward" /\ A /\ UNCHANGED <<fvars, hvars, cvars, pvars, server>>
OnParser(A) == server = "parse" /\ A /\ UNCHANGED <<fvars, rvars, cvars, pvars, server>>
OnClient(A) == server = "client" /\ A /\ UNCHANGED <<fvars, rvars, hvars, pvars, server>>
OnPool(A)   == server = "pool" /\ A /\ UNCHANGED <<fvars, rvars, hvars, cvars, server>>

Next ==
  \/ OnFront(F!Next) \/ OnRelay(R!Next) \/ OnParser(H!Next) \/ OnClient(C!Next)
  \/ OnPool(P!Next)

\* The fairness of FrontConnection, PortRelay and FiberPool, each on its
\* own kind.
Fairness ==
  /\ WF_vars(OnFront(F!ReadRequest)) /\ WF_vars(OnFront(F!ReadEof))
  /\ WF_vars(OnFront(F!ReadError)) /\ WF_vars(OnFront(F!ReaderWritten))
  /\ WF_vars(OnFront(F!ReaderWriteFails))
  /\ WF_vars(OnFront(F!ReaderResume)) /\ WF_vars(OnFront(F!ParseExit))
  /\ WF_vars(OnFront(F!DriverReadRequest))
  /\ WF_vars(OnFront(F!DriverReadError))
  /\ WF_vars(OnFront(F!DriverWritten)) /\ WF_vars(OnFront(F!DriverResume))
  /\ WF_vars(OnFront(F!DriverExit))
  /\ \A i \in F!Ids : /\ WF_vars(OnFront(F!CallDone(i)))
                     /\ WF_vars(OnFront(F!CallbackWritten(i)))
                     /\ WF_vars(OnFront(F!CallbackWriteFails(i)))
                     /\ WF_vars(OnFront(F!DriverCallbackWritten(i)))
  /\ WF_vars(OnRelay(R!ChainFail)) /\ WF_vars(OnRelay(R!ChainConnect))
  /\ WF_vars(OnRelay(R!UpRead)) /\ WF_vars(OnRelay(R!UpWrite))
  /\ WF_vars(OnRelay(R!UpExit))
  /\ WF_vars(OnRelay(R!DnRead)) /\ WF_vars(OnRelay(R!DnWrite))
  /\ WF_vars(OnRelay(R!DnExit))
  /\ WF_vars(OnPool(P!WorkerResumes))
  /\ \A b \in {b1, b2, b3} : /\ WF_vars(OnPool(P!PushRow(b)))
                            /\ WF_vars(OnPool(P!BatchResume(b)))
                            /\ \A r \in P!RowIdx : WF_vars(OnPool(P!RowDone(b, r)))

Spec == Init /\ [][Next]_vars /\ Fairness

-----------------------------------------------------------------------------
(* The properties of the five modules, stated there.                        *)

\* Every variable of both kinds of connection stays in its type.
TypeOK ==
  /\ F!TypeOK /\ R!TypeOK /\ H!TypeOK /\ C!TypeOK /\ P!TypeOK
  /\ server \in Servers

\* A front-end connection the client closes and never resets ends with its
\* reader and async responses done, the receive side shut and the parser
\* released.
ConnectionEnds == F!ConnectionEnds

\* Both fibers of a forward connection finish once either peer closes
\* (PortRelay: start() and handle_forward_rsp shutting each other's read).
RelayEnds == R!RelayEnds

\* handle_forward_rsp writes back every chunk the upstream sent while the
\* client keeps its connection open.
ResponsesRelayed == R!ResponsesRelayed

\* start() forwards every chunk the client sent while the upstream keeps
\* its side open.
RequestsRelayed == R!RequestsRelayed

\* Every request handed to handleRequest is the message http_parser
\* reported, whatever reads cut its url, header names and values, and
\* whatever messages came before it on the connection.
RequestsAssembled == H!RequestsAssembled

\* get_response succeeds exactly when a whole 200 response that began
\* during the call was read, and returns its body: never a response cut
\* by a close or an error, never the tail of an earlier call's response
\* on a kept connection.
ResponseReturned == C!ResponseReturned

\* No worker sleeps in cond_.waiting_ while a task pushed after it has no
\* fiber about to run it (FiberPool: notify_one against the workers'
\* empty-queue check).
NoLostWakeup == P!NoLostWakeup

\* Every batch posted to the fiber pool is answered (FiberPool: the rows
\* of a batch are run and the batch fiber resumes).
AllBatchesAnswered == P!AllBatchesAnswered

=============================================================================
