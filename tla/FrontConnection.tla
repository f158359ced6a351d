--------------------------- MODULE FrontConnection ---------------------------
(***************************************************************************)
(* One client connection of the HTTP front end (fiber-server/             *)
(* HttpConnection.cpp with the request parser of HttpProtocolHandler.cpp), *)
(* as FiberHttpServerV2 runs it: the factory has no FiberPoolMgr, so       *)
(* fiber_pool_ is null and handleRequestFunc runs inline in the reader     *)
(* fiber, inside the parser's on_msg_complete callback.                    *)
(*                                                                         *)
(* The reader fiber (start -> request_parser::do_parse) loops on           *)
(* async_read_some and feeds the bytes to http_parser, whose              *)
(* on_msg_complete runs request_cb.  A request is "bad" when http_parser  *)
(* stops inside it (nparsed != bytes_transferred, so close_cb_ runs);     *)
(* otherwise it ends in one of three ways:                                *)
(*   "error": no path, no handler or an exception: write_error_rsp writes *)
(*            a 400/404/500 and calls shutdown(), and request_cb returns  *)
(*            false;                                                       *)
(*   "sync":  invoke_raw, then write_rsp inline, then after_write;        *)
(*   "async": invoke_raw_async posts the call to the forward manager's    *)
(*            per-thread fiber pool (schedule_task_from_fiber yields) and *)
(*            returns; the completion callback write_rsp runs later on    *)
(*            that pool's fiber.                                           *)
(* shutdown() shuts the receive side and resets req_parser_, which        *)
(* destroys the request_parser and its parser_impl: do_parse runs on that *)
(* parser_impl and the parser's callbacks hold the only shared_ptr cycle   *)
(* (HttpConnection -> req_parser_ -> cb_ -> HttpConnection) that keeps the *)
(* connection alive.                                                       *)
(*                                                                         *)
(* All fibers of the connection run on one reactor thread, cooperatively: *)
(* each step below runs up to the next suspension point (async_read_some, *)
(* async_write, the yield of schedule_task_from_fiber).  One read returns *)
(* one request; http_parser's byte-level parsing and the response bytes   *)
(* are abstracted.                                                         *)
(*                                                                         *)
(* A response write (write_error_rsp, write_rsp) waits with the plain     *)
(* boost::fibers::asio::yield, which throws boost::system::system_error   *)
(* when async_write fails, as it does on a socket the client has reset.  *)
(* Nothing on the way out catches it (handleRequestFunc's catch writes a  *)
(* 500 to the same socket, which throws again; FiberPool::run_fiber only  *)
(* catches fiber_interrupted), so the exception leaves the fiber's        *)
(* function: shutdown() and after_write never run.  What happens then     *)
(* depends on the build: Boost.Fiber either calls std::terminate, or ends *)
(* the fiber and drops the exception, and from the reader fiber the       *)
(* exception also unwinds through the C frames of http_parser_execute.   *)
(* Each throw is taken as either outcome.                                 *)
(*                                                                         *)
(* The driver front end (FiberDriverConnection.cpp, run by                 *)
(* FiberDriverServerV2 on the same router, also without a fiber pool) is   *)
(* the other kind of connection (conn = "driver").  Its start() loop reads *)
(* a header and a payload per request and answers in the reader fiber     *)
(* (writeRsp, writeError) or, for an async handler, in the completion     *)
(* callback; it has no keep-alive and no parser object.  A driver request  *)
(* is "close" (a header of sequence 0 or size 0: the loop ends), "bad"     *)
(* (a payload over kLimitSize: an error response, then the loop ends),    *)
(* "error" (not a JSON object, no handler, or an exception: an error       *)
(* response, and the loop goes on), "sync" or "async".                     *)
(***************************************************************************)
EXTENDS Naturals, Sequences

CONSTANTS
  MaxReq    \* requests the client sends on the connection

ASSUME MaxReq \in Nat \ {0}

Ids   == 1..MaxReq
Kinds == {"bad", "error", "sync", "async"}
Conns == {"http", "driver"}
\* keep: http_should_keep_alive; a driver connection is always persistent.
HttpReqs   == [kind : Kinds, keep : BOOLEAN]
DriverReqs == [kind : Kinds \cup {"close"}, keep : {TRUE}]
Reqs       == HttpReqs \cup DriverReqs

VARIABLES
  req,     \* what each request of the client is (chosen by the client)
  sent,    \* requests the client has sent so far
  inbox,   \* sent requests not yet read by the server
  eof,     \* the client has closed its sending side
  rst,     \* the client has reset the connection
  rd,      \* the reader fiber: "read", "write", "posted", "exit", "done"
  cur,     \* request the reader is inside (0: the read-error response)
  st,      \* each request: "none", "inline", "posted", "writing", "done"
  parser,  \* req_parser_ and its parser_impl: "alive" or "freed"
  shut,    \* shutdown_receive has been called on the socket
  conn,    \* "http" (HttpConnection) or "driver" (FiberDriverConnection)
  aborted  \* an escaping exception has terminated the process

vars == <<req, sent, inbox, eof, rst, rd, cur, st, parser, shut, conn, aborted>>

TypeOK ==
  /\ req \in [Ids -> Reqs]
  /\ sent \in 0..MaxReq
  /\ inbox \in Seq(Ids)
  /\ eof \in BOOLEAN /\ rst \in BOOLEAN
  /\ rd \in {"read", "write", "posted", "exit", "done"}
  /\ cur \in 0..MaxReq
  /\ st \in [Ids -> {"none", "inline", "posted", "writing", "done", "failed"}]
  /\ parser \in {"alive", "freed", "none"}
  /\ shut \in BOOLEAN
  /\ conn \in Conns
  /\ aborted \in BOOLEAN

\* HttpConnection's constructor creates req_parser_ (a driver connection
\* has none); the accept handler starts the reader fiber, which waits for
\* bytes.
Init ==
  /\ conn \in Conns
  /\ req \in [Ids -> IF conn = "http" THEN HttpReqs ELSE DriverReqs]
  /\ sent = 0 /\ inbox = <<>>
  /\ eof = FALSE /\ rst = FALSE
  /\ rd = "read" /\ cur = 0
  /\ st = [i \in Ids |-> "none"]
  /\ parser = IF conn = "http" THEN "alive" ELSE "none"
  /\ shut = FALSE
  /\ aborted = FALSE

-----------------------------------------------------------------------------
(* The client.                                                             *)

ClientSend ==
  /\ ~eof /\ ~rst /\ sent < MaxReq
  /\ sent' = sent + 1
  /\ inbox' = Append(inbox, sent + 1)
  /\ UNCHANGED <<conn, req, eof, rst, rd, cur, st, parser, shut, aborted>>

ClientClose ==
  /\ ~eof /\ ~rst
  /\ eof' = TRUE
  /\ UNCHANGED <<conn, req, sent, inbox, rst, rd, cur, st, parser, shut,
                 aborted>>

\* A reset discards what the server has not read yet.
ClientReset ==
  /\ ~rst
  /\ rst' = TRUE
  /\ inbox' = <<>>
  /\ UNCHANGED <<conn, req, sent, eof, rd, cur, st, parser, shut, aborted>>

-----------------------------------------------------------------------------
(* HttpConnection helpers.                                                 *)

\* shutdown(): socket_.shutdown(shutdown_receive), then req_parser_.reset().
Shutdown ==
  /\ parser' = "freed"
  /\ shut' = TRUE

\* after_write: a response to a request without keep-alive closes.
AfterWrite(i) ==
  IF req[i].keep THEN UNCHANGED <<parser, shut>> ELSE Shutdown

\* request_cb: handleRequest(c) && c->req_.keep_alive_, which is what
\* on_msg_complete stores in should_continue_; do_parse leaves its loop
\* when it is false.
ReaderAfter(i) ==
  IF req[i].kind # "error" /\ req[i].keep THEN "read" ELSE "exit"

HandleRequestFuncNextCtx(i) ==
  /\ cur' = i + 1
  /\ IF req[i].kind = "async"
     THEN /\ rd' = "posted" /\ st' = [st EXCEPT ![i] = "posted"]
     ELSE /\ rd' = "write" /\ st' = [st EXCEPT ![i] = "inline"]

\* handleRequestFunc on request i, entered from on_msg_complete: an error
\* or a sync handler starts the response write in the reader fiber; an
\* async handler posts the call and yields.
HandleRequestFunc(i) ==
  /\ cur' = i
  /\ IF req[i].kind = "async"
     THEN /\ rd' = "posted" /\ st' = [st EXCEPT ![i] = "posted"]
     ELSE /\ rd' = "write" /\ st' = [st EXCEPT ![i] = "inline"]

-----------------------------------------------------------------------------
(* The reader fiber: request_parser::do_parse.                             *)

\* async_read_some returns the next request; http_parser_execute runs
\* on_msg_complete -> request_cb -> handleRequest -> handleRequestFunc.
\* Malformed bytes stop the parser short: close_cb_, then the loop breaks.
ReadRequest ==
  /\ conn = "http" /\ ~aborted
  /\ rd = "read" /\ ~shut /\ ~rst
  /\ inbox # <<>>
  /\ inbox' = Tail(inbox)
  /\ IF req[Head(inbox)].kind = "bad"
     THEN /\ rd' = "exit" /\ Shutdown
          /\ UNCHANGED <<cur, st>>
     ELSE /\ HandleRequestFunc(Head(inbox))
          /\ UNCHANGED <<parser, shut>>
  /\ UNCHANGED <<conn, req, sent, eof, rst, aborted>>

ReadEofNoClose ==
  /\ conn = "http" /\ ~aborted
  /\ rd = "read"
  /\ shut \/ (~rst /\ eof /\ inbox = <<>>)
  /\ rd' = "exit"
  /\ UNCHANGED <<conn, req, sent, inbox, eof, rst, cur, st, parser, shut,
                 aborted>>

\* The read returns 0 bytes (the client closed, or the receive side is
\* shut): close_cb_ is HttpConnection::shutdown, then the loop breaks.
ReadEof ==
  /\ conn = "http" /\ ~aborted
  /\ rd = "read"
  /\ shut \/ (~rst /\ eof /\ inbox = <<>>)
  /\ rd' = "exit"
  /\ Shutdown
  /\ UNCHANGED <<conn, req, sent, inbox, eof, rst, cur, st, aborted>>

\* The read fails: read_error_cb_ is onReadError, which writes a 500 in
\* the reader fiber (write_error_rsp) to the reset socket.
ReadError ==
  /\ conn = "http" /\ ~aborted
  /\ rd = "read" /\ ~shut /\ rst
  /\ rd' = "write" /\ cur' = 0
  /\ UNCHANGED <<conn, req, sent, inbox, eof, rst, st, parser, shut, aborted>>

\* The reader's async_write completes.  write_error_rsp then calls
\* shutdown() and the request ends the loop; write_rsp calls after_write
\* and the loop goes on as request_cb says.
ReaderWritten ==
  /\ conn = "http" /\ ~aborted
  /\ rd = "write" /\ ~rst
  /\ IF cur = 0 \/ req[cur].kind = "error"
     THEN /\ Shutdown /\ rd' = "exit"
     ELSE /\ AfterWrite(cur) /\ rd' = ReaderAfter(cur)
  /\ st' = IF cur = 0 THEN st ELSE [st EXCEPT ![cur] = "done"]
  /\ UNCHANGED <<conn, req, sent, inbox, eof, rst, cur, aborted>>

\* The exception of a failed write leaves a fiber: the process terminates,
\* or the fiber ends (the steps of ended, on the variables v) with the
\* exception dropped.
Unwind(ended, v) ==
  \/ ended /\ UNCHANGED aborted
  \/ aborted' = TRUE /\ UNCHANGED v

\* The reader's async_write fails on the reset socket and the yield
\* throws out of write_error_rsp or write_rsp (for a sync handler through
\* the catch of handleRequestFunc, whose 500 throws again), out of
\* request_cb, http_parser_execute and do_parse: neither shutdown(),
\* after_write nor http_parser_init runs.
ReaderWriteFails ==
  /\ conn = "http" /\ ~aborted
  /\ rd = "write" /\ rst
  /\ Unwind(/\ rd' = "done"
            /\ st' = IF cur = 0 THEN st ELSE [st EXCEPT ![cur] = "failed"],
            <<rd, st>>)
  /\ UNCHANGED <<conn, req, sent, inbox, eof, rst, cur, parser, shut>>

\* The yield in schedule_task_from_fiber returns to request_cb.
ReaderResume ==
  /\ conn = "http" /\ ~aborted
  /\ rd = "posted"
  /\ rd' = ReaderAfter(cur)
  /\ UNCHANGED <<conn, req, sent, inbox, eof, rst, cur, st, parser, shut,
                 aborted>>

\* After the loop: http_parser_init(&parser_, HTTP_REQUEST), and start()
\* returns.
ParseExit ==
  /\ conn = "http" /\ ~aborted
  /\ rd = "exit"
  /\ rd' = "done"
  /\ UNCHANGED <<conn, req, sent, inbox, eof, rst, cur, st, parser, shut,
                 aborted>>

-----------------------------------------------------------------------------
(* The driver's reader fiber: FiberDriverConnection::start.                *)

\* handleRequest and handleRequestFunc on request i: a malformed payload,
\* a missing handler, an exception or a sync handler answer in the reader
\* fiber (writeError, writeRsp); an async handler's invoke_async posts the
\* call and yields.
DriverHandleRequest(i) ==
  /\ cur' = i
  /\ IF req[i].kind = "async"
     THEN rd' = "posted" /\ st' = [st EXCEPT ![i] = "posted"]
     ELSE rd' = "write" /\ st' = [st EXCEPT ![i] = "inline"]

\* The header and payload reads return request i.  A close header breaks
\* the loop; a payload over kLimitSize is answered by writeError and then
\* breaks it; any other request goes to handleRequest.
DriverReadRequest ==
  /\ conn = "driver"
  /\ rd = "read" /\ ~rst
  /\ inbox # <<>>
  /\ inbox' = Tail(inbox)
  /\ LET i == Head(inbox) IN
       IF req[i].kind = "close"
       THEN rd' = "exit" /\ UNCHANGED <<cur, st>>
       ELSE DriverHandleRequest(i)
  /\ UNCHANGED <<conn, req, sent, eof, rst, parser, shut, aborted>>

\* The header read fails (a reset, or eof once the client has closed and
\* everything sent has been read): the sequence is set to 0 and
\* writeError answers in the reader fiber before the loop breaks.
DriverReadError ==
  /\ conn = "driver"
  /\ rd = "read"
  /\ rst \/ (eof /\ inbox = <<>>)
  /\ rd' = "write" /\ cur' = 0
  /\ UNCHANGED <<conn, req, sent, inbox, eof, rst, st, parser, shut, aborted>>

\* writeRsp's async_write completes (a failure is only logged).  After the
\* read-error and the size-limit responses the loop breaks; otherwise it
\* reads the next header.
DriverWritten ==
  /\ conn = "driver"
  /\ rd = "write"
  /\ rd' = IF cur = 0 \/ req[cur].kind = "bad" THEN "exit" ELSE "read"
  /\ st' = IF cur = 0 THEN st ELSE [st EXCEPT ![cur] = "done"]
  /\ UNCHANGED <<conn, req, sent, inbox, eof, rst, cur, parser, shut, aborted>>

\* invoke_async's yield returns and the loop reads the next header.
DriverResume ==
  /\ conn = "driver"
  /\ rd = "posted"
  /\ rd' = "read"
  /\ UNCHANGED <<conn, req, sent, inbox, eof, rst, cur, st, parser, shut,
                 aborted>>

\* After the loop: shutdownReceive, and start() returns.
DriverExit ==
  /\ conn = "driver"
  /\ rd = "exit"
  /\ rd' = "done" /\ shut' = TRUE
  /\ UNCHANGED <<conn, req, sent, inbox, eof, rst, cur, st, parser, aborted>>

\* The async handler's callback writeRsp completes its async_write.
DriverCallbackWritten(i) ==
  /\ conn = "driver"
  /\ st[i] = "writing"
  /\ st' = [st EXCEPT ![i] = "done"]
  /\ UNCHANGED <<conn, req, sent, inbox, eof, rst, rd, cur, parser, shut,
                 aborted>>

-----------------------------------------------------------------------------
(* The completion callback of an async handler, on a forward-manager fiber. *)

\* The upstream calls finish (each has a deadline) and the controller's
\* callback runs write_rsp, which starts its async_write.
CallDone(i) ==
  /\ st[i] = "posted" /\ ~aborted
  /\ st' = [st EXCEPT ![i] = "writing"]
  /\ UNCHANGED <<conn, req, sent, inbox, eof, rst, rd, cur, parser, shut,
                 aborted>>

\* The callback's write completes and after_write runs.
CallbackWritten(i) ==
  /\ conn = "http" /\ ~aborted
  /\ st[i] = "writing" /\ ~rst
  /\ st' = [st EXCEPT ![i] = "done"]
  /\ AfterWrite(i)
  /\ UNCHANGED <<conn, req, sent, inbox, eof, rst, rd, cur, aborted>>

\* The callback's write fails on the reset socket: the exception leaves
\* write_rsp, the controller's callback and the pool task, and
\* FiberPool::run_fiber does not catch it; after_write does not run.
CallbackWriteFails(i) ==
  /\ conn = "http" /\ ~aborted
  /\ st[i] = "writing" /\ rst
  /\ Unwind(st' = [st EXCEPT ![i] = "failed"], st)
  /\ UNCHANGED <<conn, req, sent, inbox, eof, rst, rd, cur, parser, shut>>

\* The reader has returned and every response is written or has failed:
\* nothing of the connection runs any more.
Idle ==
  rd = "done" /\ \A i \in Ids : st[i] \in {"none", "done", "failed"}

\* The connection is over, or the process has terminated.
Finished ==
  /\ (Idle /\ (eof \/ rst)) \/ aborted
  /\ UNCHANGED vars

Next ==
  \/ ClientSend \/ ClientClose \/ ClientReset
  \/ ReadRequest \/ ReadEof \/ ReadError \/ ReaderWritten \/ ReaderWriteFails
  \/ ReaderResume
  \/ ParseExit
  \/ DriverReadRequest \/ DriverReadError \/ DriverWritten \/ DriverResume
  \/ DriverExit
  \/ \E i \in Ids : \/ CallDone(i) \/ CallbackWritten(i) \/ CallbackWriteFails(i)
                    \/ DriverCallbackWritten(i)
  \/ Finished

\* The reactor thread's fibers are scheduled round-robin and asio completes
\* a read once bytes, a FIN or a reset arrive, and a write once the client
\* reads or resets; the client itself is not forced to do anything.
Fairness ==
  /\ WF_vars(ReadRequest) /\ WF_vars(ReadEof) /\ WF_vars(ReadError)
  /\ WF_vars(ReaderWritten) /\ WF_vars(ReaderWriteFails)
  /\ WF_vars(ReaderResume) /\ WF_vars(ParseExit)
  /\ WF_vars(DriverReadRequest) /\ WF_vars(DriverReadError)
  /\ WF_vars(DriverWritten) /\ WF_vars(DriverResume) /\ WF_vars(DriverExit)
  /\ \A i \in Ids : /\ WF_vars(CallDone(i)) /\ WF_vars(CallbackWritten(i))
                   /\ WF_vars(CallbackWriteFails(i))
                   /\ WF_vars(DriverCallbackWritten(i))

Spec == Init /\ [][Next]_vars /\ Fairness

-----------------------------------------------------------------------------
(* Properties.                                                             *)

\* Once nothing of the connection runs any more, the parser has been reset:
\* otherwise the shared_ptr cycle HttpConnection -> req_parser_ -> cb_
\* keeps the connection and its socket alive for ever.  About the
\* shutdown() calls spread over close_cb_, write_error_rsp and after_write,
\* between the reader and the async callbacks, which a response write that
\* throws on a reset socket skips.
ReleasedWhenIdle ==
  Idle => parser # "alive"

\* Once the client has closed its side, unless it goes on to reset the
\* connection, the reader fiber eventually returns, every pending async
\* response is written, the receive side is shut and an HTTP connection's
\* parser is released: every path out of the do_parse loop or of the
\* driver's start() loop ends in shutdown() or shutdownReceive.  (A reset
\* makes the response writes throw; see ReleasedWhenIdle.)
ConnectionEnds ==
  (eof /\ ~rst) ~> (rst \/ (Idle /\ shut /\ parser # "alive"))

\* do_parse runs on the parser_impl that shutdown() destroys: while the
\* reader fiber is inside do_parse (parked in async_read_some, in a
\* callback of http_parser_execute, or at the final http_parser_init) the
\* parser must not have been reset.  About req_parser_.reset() in
\* HttpConnection::shutdown, called from close_cb_, write_error_rsp and
\* after_write while do_parse is on the stack.
ParserOutlivesParse ==
  conn = "http" /\ rd # "done" => parser = "alive"

=============================================================================
