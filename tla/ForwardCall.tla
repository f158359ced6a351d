---------------------------- MODULE ForwardCall ----------------------------
(***************************************************************************)
(* One front-end request through the forward manager                       *)
(* (forward-manager/FibpForwardManager.cpp): call_services_in_fiber runs   *)
(* each row of the request's call list through call_single_service, the    *)
(* retry loop over the service address and the client, waits for all      *)
(* rows, runs the transaction step when asked and calls the handler's      *)
(* callback.                                                               *)
(*                                                                         *)
(* A single row is called inline by the orchestrating fiber; several rows *)
(* are scheduled as fiber-pool tasks on the same thread, each decrementing *)
(* call_num when it finishes, while the orchestrator waits on a condition *)
(* until call_num is 0.  Rows interleave at their client calls and share  *)
(* the process-wide response cache.                                       *)
(*                                                                         *)
(* What a lookup, a send and a response return is chosen by the          *)
(* environment: get_service_address may find no node, send_request may    *)
(* return a null client/future, get_response may fail, retryably or not   *)
(* (the RPC client reports every error reply with can_retry = false, a    *)
(* timeout or a broken connection with can_retry = true).                 *)
(***************************************************************************)
EXTENDS Naturals, FiniteSets, Sequences

CONSTANTS
  Reqs,        \* distinct ServiceCallReq values (model values)
  Cacheable,   \* the requests with enable_cache set
  MaxRows,     \* bound on the size of call_api_list
  MAX_RETRY,   \* call_single_service's MAX_RETRY (3)
  MAX_CLIENT_NUM  \* FibpClientMgr's MAX_CLIENT_NUM (100)

ASSUME Cacheable \subseteq Reqs /\ MaxRows \in Nat /\ MAX_RETRY \in Nat \ {0}
ASSUME MAX_CLIENT_NUM \in Nat

Rows == 1..MaxRows
Types == {"http", "rpc"}

\* The errors a row can end with.  "none" is an empty rsp.error.
Errors == {"none", "notfound", "sendfail", "rspfail", "txnunsupported"}

RowStates == {"idle", "queued", "loop", "waitrsp", "after", "done"}

VARIABLES
  n,          \* call_api_list.size()
  rreq,       \* the request of each row
  rtype,      \* the service_type of each row
  txn,        \* do_transaction
  cache,      \* the requests FibpServiceCache holds a response for
  row,        \* each row: step, retry_counter, success, cached, rsp.error
  callNum,    \* call_num
  pc,         \* the orchestrating fiber
  cbCount,    \* how often the handler's callback has run
  idle,       \* the HTTP client pool of the destination: idle clients, front first
  cnum,       \* client_num_ of the destination: HTTP clients created
  held,       \* the HTTP client each row has checked out, 0 = none
  csock,      \* each HTTP client's ClientSession socket_
  wire        \* each HTTP client's requests whose response is still unread

pool == <<idle, cnum, held, csock, wire>>
vars == <<n, rreq, rtype, txn, cache, row, callNum, pc, cbCount, pool>>

\* Clients are numbered in creation order.
Clients == 1..(MAX_CLIENT_NUM + 1)

Active == 1..n

\* "stale": open on this side, closed by the upstream while the client was
\* idle in the pool.
Socks == {"closed", "open", "stale"}

\* A request on the wire: the row and the attempt that sent it.
Sent == [r : Rows, a : 1..MAX_RETRY]

NewRow == [st |-> "idle", att |-> 0, ok |-> FALSE, cached |-> FALSE, err |-> "none"]

TypeOK ==
  /\ n \in 0..MaxRows
  /\ rreq \in [Rows -> Reqs]
  /\ rtype \in [Rows -> Types]
  /\ txn \in BOOLEAN
  /\ cache \subseteq Cacheable
  /\ row \in [Rows -> [st : RowStates, att : 0..MAX_RETRY, ok : BOOLEAN,
                       cached : BOOLEAN, err : Errors]]
  /\ callNum \in 0..MaxRows
  /\ pc \in {"start", "waiting", "txn", "cb", "done", "crashed"}
  /\ cbCount \in 0..1
  /\ idle \in Seq(Clients)
  /\ cnum \in 0..(MAX_CLIENT_NUM + 1)
  /\ held \in [Rows -> Clients \cup {0}]
  /\ csock \in [Clients -> Socks]
  /\ wire \in [Clients -> Seq(Sent)]

\* Any request the handlers can pass: any list length, any requests and
\* service types, with or without do_transaction, against whatever the
\* cache holds from earlier requests.
Init ==
  /\ n \in 0..MaxRows
  /\ rreq \in [Rows -> Reqs]
  /\ rtype \in [Rows -> Types]
  /\ txn \in BOOLEAN
  /\ cache \in SUBSET Cacheable
  /\ row = [i \in Rows |-> NewRow]
  /\ callNum = 0
  /\ pc = "start"
  /\ cbCount = 0
  /\ idle = <<>>
  /\ cnum = 0
  /\ held = [i \in Rows |-> 0]
  /\ csock = [c \in Clients |-> "closed"]
  /\ wire = [c \in Clients |-> <<>>]

-----------------------------------------------------------------------------
(* call_single_service, one row.                                           *)

-----------------------------------------------------------------------------
(* The HTTP client pool (FibpClientMgr).  Every row of the model calls the *)
(* same destination, so one pool and one client_num_ are modelled.          *)

\* send_request(HTTP) refuses when no client is idle and client_num_ >
\* MAX_CLIENT_NUM.
PoolRefuses == idle = <<>> /\ cnum > MAX_CLIENT_NUM

\* The pooled client a send takes: the front idle one, or a new one.
Taken == IF idle # <<>> THEN Head(idle) ELSE cnum + 1

\* ClientSession::shutdown(true): the socket is closed, and whatever the
\* upstream still sends on it is never read.
CloseSession(c) ==
  /\ csock' = [csock EXCEPT ![c] = "closed"]
  /\ wire' = [wire EXCEPT ![c] = <<>>]

\* async_connect fails (resolve, connect or the connect deadline):
\* shutdown(true), and send_data returns false.
ConnectFails(c) == CloseSession(c)

\* async_write of the request on a socket in state st: on an error
\* shutdown(true).  A connection the upstream has closed still takes the
\* bytes, and nothing answers them.
Write(c, st, w, ok) ==
  IF ok THEN /\ csock' = [csock EXCEPT ![c] = st]
             /\ wire' = [wire EXCEPT ![c] = IF st = "stale" THEN @ ELSE Append(@, w)]
        ELSE CloseSession(c)

\* send_data: connect first when the socket is closed, then write.
SessionSend(c, w, ok) ==
  IF csock[c] = "closed"
  THEN \/ ~ok /\ ConnectFails(c)
       \/ Write(c, "open", w, ok)
  ELSE Write(c, csock[c], w, ok)

\* FibpHttpClient::send_request and send_http_request: can_retry_ = true,
\* the timeouts, the request text (abstracted to who sent it), send_data.
HttpClientSend(c, w, ok) == SessionSend(c, w, ok)

HttpSendRequestNoReturn(i, a, ok) ==
  LET c == Taken
      rest == IF idle # <<>> THEN Tail(idle) ELSE idle
  IN  /\ ~PoolRefuses
      /\ cnum' = IF idle # <<>> THEN cnum ELSE cnum + 1
      /\ HttpClientSend(c, [r |-> i, a |-> a], ok)
      /\ idle' = rest
      /\ held' = IF ok THEN [held EXCEPT ![i] = c] ELSE held

HttpSendRequestKeepPooled(i, a, ok) ==
  LET c == Taken
      rest == IF idle # <<>> THEN Tail(idle) ELSE idle
  IN  /\ ~PoolRefuses
      /\ cnum' = IF idle # <<>> THEN cnum ELSE cnum + 1
      /\ HttpClientSend(c, [r |-> i, a |-> a], ok)
      /\ IF ok THEN /\ idle' = IF idle # <<>> THEN idle ELSE <<c>>
                    /\ held' = [held EXCEPT ![i] = c]
               ELSE /\ idle' = Append(rest, c)
                    /\ UNCHANGED held

\* FibpClientMgr::send_request(HTTP): the front idle client, or a new one
\* counted in client_num_, sends; when the send fails the client goes to
\* the back of the pool and a null client is returned.
HttpSendRequest(i, a, ok) ==
  LET c == Taken
      rest == IF idle # <<>> THEN Tail(idle) ELSE idle
  IN  /\ ~PoolRefuses
      /\ cnum' = IF idle # <<>> THEN cnum ELSE cnum + 1
      /\ HttpClientSend(c, [r |-> i, a |-> a], ok)
      /\ IF ok THEN /\ idle' = rest
                    /\ held' = [held EXCEPT ![i] = c]
               ELSE /\ idle' = Append(rest, c)
                    /\ UNCHANGED held

\* What parser_impl::parse, under the read deadline, ends with on client c:
\*   "ok", "final" (400 or 404: can_retry_ = false), "retry" (another
\*   code): a whole response was parsed (on_msg_complete);
\*   "timeout": check_deadline cancelled the read (operation_aborted);
\*   "eof": end of file or a read error before a whole response; the
\*   cleared response keeps code_ = GATEWAY_TIMEOUT.
\* A connection the upstream has closed only gives "eof".
ParseOutcomes(c) ==
  IF csock[c] = "open" /\ wire[c] # <<>>
  THEN {"ok", "final", "retry", "timeout", "eof"}
  ELSE {"eof"}

\* check_deadline: socket_.cancel() and shutdown(true).
Deadline(c) == CloseSession(c)

\* FibpHttpClient::get_response: the response's keep_alive_ is set only by
\* on_msg_complete (clear() resets it), and the session is shut down when
\* it is false, at end of file and after a timeout; a kept connection has
\* consumed exactly the response read.
SessionAfterResponse(c, o) ==
  IF o = "timeout" THEN Deadline(c)
  ELSE \E keep \in (IF o = "eof" THEN {FALSE} ELSE BOOLEAN) :
         IF keep THEN /\ wire' = [wire EXCEPT ![c] = Tail(@)]
                      /\ UNCHANGED csock
                 ELSE CloseSession(c)

\* FibpClientMgr::get_response(HTTP): whatever the response, the client
\* goes to the back of the pool (a closed session reconnects on its next
\* send).
HttpGetResponse(i, o) ==
  LET c == held[i] IN
  /\ SessionAfterResponse(c, o)
  /\ idle' = Append(idle, c)
  /\ held' = [held EXCEPT ![i] = 0]
  /\ UNCHANGED cnum

\* The upstream closes a keep-alive connection that sits idle in the pool.
IdleClose(c) ==
  /\ \E k \in 1..Len(idle) : idle[k] = c
  /\ csock[c] = "open"
  /\ csock' = [csock EXCEPT ![c] = "stale"]
  /\ UNCHANGED <<n, rreq, rtype, txn, cache, row, callNum, pc, cbCount,
                 idle, cnum, held, wire>>

\* The send of a row fails: a null client (refused or failed send) or a
\* null future (RPC).
SendFails(i, a) ==
  IF rtype[i] = "http"
  THEN \/ PoolRefuses /\ UNCHANGED pool
       \/ HttpSendRequest(i, a, FALSE)
  ELSE UNCHANGED pool

SendSucceeds(i, a) ==
  IF rtype[i] = "http" THEN HttpSendRequest(i, a, TRUE) ELSE UNCHANGED pool

\* What get_response can end with: an RPC call any result (the RPC client
\* is modelled in RpcClient), an HTTP call what its connection allows.
Outcomes(i) ==
  IF rtype[i] = "http" THEN ParseOutcomes(held[i]) ELSE {"ok", "final", "retry"}

GetResponse(i, o) ==
  IF rtype[i] = "http" THEN HttpGetResponse(i, o) ELSE UNCHANGED pool

-----------------------------------------------------------------------------
\* The head of while (++retry_counter <= MAX_RETRY): a new attempt with
\* timeout 5000 * retry_counter looks the service up and sends.  No node:
\* "Service Not Found." and the loop ends.  A failed send: the attempt is
\* over, with "Send Service Request Failed. " on the last one.  Otherwise
\* the row waits on the client's response.
RowAttemptUnbounded(i) ==
  /\ row[i].st = "loop"
  /\ LET a == row[i].att + 1 IN
     \/ /\ row' = [row EXCEPT ![i].att = a, ![i].err = "notfound", ![i].st = "after"]
        /\ UNCHANGED pool
     \/ /\ row' = [row EXCEPT ![i].att = a,
                              ![i].err = IF a = MAX_RETRY THEN "sendfail" ELSE row[i].err]
        /\ SendFails(i, a)
     \/ /\ row' = [row EXCEPT ![i].att = a, ![i].st = "waitrsp"]
        /\ SendSucceeds(i, a)
  /\ UNCHANGED <<n, rreq, rtype, txn, cache, callNum, pc, cbCount>>

RowAttempt(i) ==
  /\ row[i].att < MAX_RETRY
  /\ RowAttemptUnbounded(i)

\* The loop condition fails after the last attempt.
RowLoopExit(i) ==
  /\ row[i].st = "loop"
  /\ row[i].att = MAX_RETRY
  /\ row' = [row EXCEPT ![i].st = "after"]
  /\ UNCHANGED <<n, rreq, rtype, txn, cache, callNum, pc, cbCount, pool>>

\* get_response returns.  Success ends the loop; a failure ends it with
\* "Get Service Response Failed. " when it cannot be retried or was the
\* last attempt, and otherwise goes round again.
RowResponseNoLastCheck(i) ==
  /\ row[i].st = "waitrsp"
  /\ \E o \in Outcomes(i) :
       /\ row' = CASE o = "ok"    -> [row EXCEPT ![i].ok = TRUE, ![i].st = "after"]
                   [] o = "final" -> [row EXCEPT ![i].err = "rspfail", ![i].st = "after"]
                   [] OTHER       -> [row EXCEPT ![i].st = "loop"]
       /\ GetResponse(i, o)
  /\ UNCHANGED <<n, rreq, rtype, txn, cache, callNum, pc, cbCount>>

\* Every outcome but "final" leaves can_retry_ set.
CanRetry(o) == o # "final"

RowResponse(i) ==
  /\ row[i].st = "waitrsp"
  /\ \E o \in Outcomes(i) :
       /\ row' = CASE o = "ok" -> [row EXCEPT ![i].ok = TRUE, ![i].st = "after"]
                   [] ~CanRetry(o) \/ row[i].att = MAX_RETRY ->
                        [row EXCEPT ![i].err = "rspfail", ![i].st = "after"]
                   [] OTHER -> [row EXCEPT ![i].st = "loop"]
       /\ GetResponse(i, o)
  /\ UNCHANGED <<n, rreq, rtype, txn, cache, callNum, pc, cbCount>>

\* After the loop: a success is cached (FibpServiceCache::set, only for an
\* empty error and enable_cache); a failure of a cacheable request takes
\* the cached response if there is one (FibpServiceCache::get swaps it in
\* whole, error included, and marks it cached).  A pool task then runs
\* the wrapper's --call_num (notify_all at 0 wakes the orchestrator).
FinishRow(i) ==
  LET r == rreq[i] IN
  /\ row[i].st = "after"
  /\ IF row[i].ok
     THEN /\ cache' = IF r \in Cacheable /\ row[i].err = "none"
                      THEN cache \cup {r} ELSE cache
          /\ row' = [row EXCEPT ![i].st = "done"]
     ELSE /\ UNCHANGED cache
          /\ row' = IF r \in Cacheable /\ r \in cache
                    THEN [row EXCEPT ![i].err = "none", ![i].cached = TRUE,
                                     ![i].st = "done"]
                    ELSE [row EXCEPT ![i].st = "done"]

RowFinishNoCount(i) ==
  /\ FinishRow(i)
  /\ UNCHANGED <<n, rreq, rtype, txn, callNum, pc, cbCount, pool>>

RowFinish(i) ==
  /\ FinishRow(i)
  /\ callNum' = IF n > 1 THEN callNum - 1 ELSE callNum
  /\ UNCHANGED <<n, rreq, rtype, txn, pc, cbCount, pool>>

\* A pool worker fiber picks up a scheduled row.
RowStart(i) ==
  /\ row[i].st = "queued"
  /\ row' = [row EXCEPT ![i].st = "loop"]
  /\ UNCHANGED <<n, rreq, rtype, txn, cache, callNum, pc, cbCount, pool>>

-----------------------------------------------------------------------------
(* call_services_in_fiber, the orchestrating fiber.                        *)

\* A transaction is refused unless every row is an HTTP service: every row
\* gets the error and no service is called.
TxnRefused == txn /\ \E i \in Active : rtype[i] # "http"

\* rsp_list is resized; one row is called inline, several are scheduled on
\* the thread's fiber pool with call_num = their number.
Begin ==
  /\ pc = "start"
  /\ IF TxnRefused
     THEN /\ row' = [i \in Rows |-> IF i \in Active
                                    THEN [NewRow EXCEPT !.err = "txnunsupported",
                                                        !.st = "done"]
                                    ELSE row[i]]
          /\ pc' = "cb"
          /\ UNCHANGED callNum
     ELSE /\ row' = [i \in Rows |-> IF i \in Active
                                    THEN [NewRow EXCEPT !.st = IF n = 1 THEN "loop"
                                                                    ELSE "queued"]
                                    ELSE row[i]]
          /\ callNum' = IF n = 1 THEN 0 ELSE n
          /\ pc' = "waiting"
  /\ UNCHANGED <<n, rreq, rtype, txn, cache, cbCount, pool>>

\* while (call_num > 0) cond.wait(guard); for a single row, the inline call
\* has returned.
BatchDoneEarly == callNum <= 1 /\ (n = 1 => row[1].st = "done")

BatchDone == callNum = 0 /\ (n = 1 => row[1].st = "done")

AllRowsDone ==
  /\ pc = "waiting"
  /\ BatchDone
  /\ pc' = IF txn THEN "txn" ELSE "cb"
  /\ UNCHANGED <<n, rreq, rtype, txn, cache, row, callNum, cbCount, pool>>

\* The transaction step calls transaction_mgr_->get_transaction_id for
\* every row, then confirm or cancel for the rows with an id, and
\* FibpForwardManager::init never creates transaction_mgr_.  The calls
\* through the null pointer are undefined behaviour; FibpTransactionMgr's
\* members read no member data, so the build either runs them (their
\* confirm/cancel calls take a pooled client and give it back, abstracted
\* to this one step) or the process dies.
Transaction ==
  /\ pc = "txn"
  /\ pc' \in IF n = 0 THEN {"cb"} ELSE {"cb", "crashed"}
  /\ UNCHANGED <<n, rreq, rtype, txn, cache, row, callNum, cbCount, pool>>

\* if (cb) cb();
Callback ==
  /\ pc = "cb"
  /\ cbCount' = cbCount + 1
  /\ pc' = "done"
  /\ UNCHANGED <<n, rreq, rtype, txn, cache, row, callNum, pool>>

\* The request is over (answered, or the process has died): nothing is
\* left to do in this model.
Finished ==
  /\ pc \in {"done", "crashed"}
  /\ UNCHANGED vars

-----------------------------------------------------------------------------
Next ==
  \/ Begin \/ AllRowsDone \/ Transaction \/ Callback \/ Finished
  \/ \E i \in Rows :
       \/ RowStart(i) \/ RowAttempt(i) \/ RowLoopExit(i)
       \/ RowResponse(i) \/ RowFinish(i)
  \/ \E c \in Clients : IdleClose(c)

\* Fibers of one thread are scheduled round-robin, so a ready fiber runs;
\* every client call returns by its deadline.
Fairness ==
  /\ WF_vars(Begin) /\ WF_vars(AllRowsDone) /\ WF_vars(Transaction)
  /\ WF_vars(Callback)
  /\ \A i \in Rows :
       /\ WF_vars(RowStart(i)) /\ WF_vars(RowAttempt(i))
       /\ WF_vars(RowLoopExit(i)) /\ WF_vars(RowResponse(i))
       /\ WF_vars(RowFinish(i))

Spec == Init /\ [][Next]_vars /\ Fairness

-----------------------------------------------------------------------------
(* Properties.                                                             *)

\* The handler's callback runs at most once, and only when every row of
\* rsp_list is final: no row is rendered while its call is still retrying.
\* About the call_num barrier between the pool tasks and the orchestrator.
CallbackAfterRows ==
  /\ cbCount <= 1
  /\ cbCount = 1 => \A i \in Active : row[i].st = "done"

\* Every final row is either a response (fresh or from the cache) with an
\* empty error, or carries an error, never both and never neither: a row
\* that ran out of attempts is never rendered as an empty success.  About
\* the retry loop's last-attempt checks and the cache fallback.
RowSettled ==
  \A i \in Active :
    row[i].st = "done" =>
      ((row[i].ok \/ row[i].cached) <=> row[i].err = "none")

\* Every HTTP client created for the destination is, exactly once, either
\* idle in the pool or checked out by the one row that waits on its
\* response: no client is lost to the pool (client_num_ would count it for
\* good and the cap would close in) and none serves two rows at once (their
\* requests would share one connection).  About FibpClientMgr's push_back
\* after a failed send and after every response, against the rows'
\* retries.
HttpClientsAccounted ==
  /\ \A c \in 1..cnum :
       Cardinality({k \in 1..Len(idle) : idle[k] = c})
         + Cardinality({i \in Rows : held[i] = c}) = 1
  /\ \A k \in 1..Len(idle) : idle[k] <= cnum
  /\ \A i \in Rows :
       held[i] # 0 <=> (held[i] <= cnum /\ row[i].st = "waitrsp" /\ rtype[i] = "http")

\* A request without do_transaction is always answered: its callback runs
\* sooner or later, whatever the services do.  About the barrier and the
\* bounded retry loop.
PlainBatchAnswered ==
  ~txn => <>(cbCount = 1)

\* A pooled HTTP connection carries at most one unread response, and only
\* the one the row holding the client is waiting for on its current
\* attempt: a row never reads the answer to another row's request, or to
\* its own earlier attempt that timed out.  About FibpClientMgr handing
\* clients out one at a time, get_response shutting the session down
\* unless a whole keep-alive response was read, and check_deadline.
HttpResponseOwned ==
  \A c \in Clients : \A k \in 1..Len(wire[c]) :
    LET w == wire[c][k] IN
    /\ k = 1
    /\ held[w.r] = c
    /\ row[w.r].att = w.a
    /\ row[w.r].st = "waitrsp"

=============================================================================
