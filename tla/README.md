# TLA+ models of fiberproxy

fiberproxy is a gateway built on boost.fiber. Each reactor thread runs cooperative fibers on an
asio `io_service`, and a fiber is suspended only at I/O, `this_fiber::yield`, a timer or
condition wait. Requests arrive by HTTP, by the "driver" protocol or by msgpack-RPC. The
forward manager resolves the target service through Consul, calls one or several upstream
services over pooled clients, and answers. Around that core run background fibers: Consul
long-poll watchers, a port-forward manager and a log drain.

## The system's parts

| Part | Source | Interacts with |
|---|---|---|
| Client session and futures | `forward-manager/FibpClient.cpp` (`ClientSession`), `FibpClientFuture.cpp` | every client |
| RPC client | `FibpClient.cpp` (`FibpRpcClient`) | one per upstream host:port, shared by all fibers of a thread |
| Raw client | `FibpClient.cpp` (`FibpRawClient`) | same pattern as RPC, 8-byte header framing; the reader does not shut the session down on error |
| HTTP client | `FibpClient.cpp` (`FibpHttpClient`) | pooled, one request at a time |
| Client manager | `FibpClientMgr.cpp` | HTTP pool with `MAX_CLIENT_NUM`, one RPC/raw client per key |
| Forward manager | `FibpForwardManager.cpp` | retry loop (3 attempts, timeouts 5/10/15 s), batch fan-in on a condition, transactions, response cache |
| Transaction manager | `FibpTransactionMgr.cpp` | confirm/cancel calls after a batch |
| Service cache | `FibpServiceCache.cpp` | set on success, read on failure |
| Service discovery | `FibpServiceMgr.cpp` | Consul watchers for nodes, services, cluster name and port-forward keys |
| Port forwarding | `FibpPortForwardMgr.cpp`, `fiber-server/FibpPortForward*.cpp` | ports opened and closed by the watcher; each accepted connection relays bytes to the service in two fibers |
| Log ring | `log-manager/FibpLogger.cpp` | `startServiceCall`/`endServiceCall` from the controllers and the RPC server, with an in-order drain fiber |
| Fiber pool | `fiber-server/FiberPool.hpp` | runs the sub-calls of batch requests |
| Front-end servers | `fiber-server/*Server*`, `HttpConnection`, `FiberDriverConnection`, `FibpRpcServer` | parse requests, call the controllers |
| Reactor pool | `fiber-server/AsyncMultiIOServicesServer.h`, `FiberHttpServerV2.cpp` | one io_service per thread, an acceptor posting connections round robin, the run loop that `stop()` ends |
| Controllers | `process/controllers/*` | JSON in and out, log start and end |

## What is modelled

### `RpcClient` (`MCRpcClient`, `RpcClient.cfg`, `RpcClientFraming.cfg`)

This module models `FibpRpcClient` together with its `ClientSession` and `FibpClientFuture`,
and `FibpRawClient` with the same machine. Several caller fibers (`Callers`) share one client.
`proto` (fixed in `Init`) says which of the two it is. The raw client differs only in its
reader: `send_request` and `set_all_error` are the same code, framing aside. The raw reader
hands every body to `set_response` as a success, because a raw frame has no error field.

- **Variables.** `fid` is `fid_`, `flist` is the key set of `future_list_` and `fut` holds
  the futures. `connecting` is `connecting_`, and `sock` is the socket's open/closed state. A
  connection is an `epoch`. I/O started in an older epoch, or on a reset connection
  (`broken`), fails when it completes (`IoFails`). `reader`/`rep` stand for
  `reading_fiber_` and its pending read.
- **Caller actions.** Each action is the code between two suspension points:
  - `SendRequest`: msgid, future, then the `send_data` decision.
  - `YieldResume`: the `while (connecting_) yield` loop.
  - `ConnectOk` / `ConnectFail`: `async_connect`.
  - `WriteOk`, `WriteHead`/`WriteTail`, `WriteFail`: `async_write`. A large frame leaves in
    two `write_some`s.
  - `GetRsp` / `GetRspTimeout`: `getRsp`.
- **Reader actions.** `ReadReply` covers `execute`, `convert` and `set_response`.
  `RawReadReply` reads the raw header and body and calls `RawSetResponse`, which always
  reports success. `ReadFail`
  is `rpc_fail`: shutdown, `set_all_error`, then the reader exits. `RawReadFail` is the raw
  reader's error path: `set_all_error` and exit, with no session shutdown. The socket stays
  open until the next write on it fails. (`readRpsHeader` and its helpers are reached only
  from dead code after `get_response`'s `return`.)
- **Environment.** The upstream and the network are not code of this repository:
  - `Server` receives whole frames and answers in any order with success or error.
  - A frame interleaved with another is dropped.
  - `PeerReset` breaks the connection.
- **Data.** Payloads are reduced to msgids. The 10 MiB limit and malformed replies are
  abstracted into the read failure.

Runs:

- `rpc_client` (pass). Two fibers, three msgids, two connections, chunked writes, both
  protocols. It checks:
  - `NoStrandedFuture`: a fiber parked on a registered, unanswered future always has a
    running reader.
  - `RegisteredIdRemoved` (liveness): every msgid put in `future_list_` is eventually
    erased. This includes the msgid of a caller that timed out and left, which `getRsp`
    leaves registered. The erase comes from the late reply's `set_response` or from a
    read failure's `set_all_error`. The premise `[]WireWellFramed` excludes frames split by
    the write interleaving below, which the upstream never answers.
  - `RpcCallRefined`: the client implements `RpcCall`, the interface its callers rely on.
    `RpcCall` is a module of its own. It has only callers, msgids and futures: a call takes
    a fresh msgid, a pending future is completed once, by the reply to its own msgid or by
    a connection error, and the caller returns what the future holds, or a timeout or a
    send failure. The mapping (`Abstract` in `RpcClient`) keeps `cur`, `fid`, `fut` and
    `outcome`. It collapses every caller state except idle into "busy". Connection,
    reader and wire steps are stuttering steps of the abstract spec. The refinement
    includes that a successful call returns the reply to its own msgid, even with
    out-of-order replies and timeouts.

  All interleavings of connect failures, resets, reconnects and late replies are explored.
  There is no symmetry reduction, since the run checks liveness. About 140k distinct states,
  under a minute.
- `rpc_write_interleave` (violation of `WireWellFramed`). `send_data` waits only for
  `connecting_`, and nothing serialises writes. A second fiber therefore puts its frame in
  the middle of the first fiber's partly written frame. This is a finding in PROJECT.json.

**Bounds.** Two fibers are enough for every two-party interleaving. Three msgids let one
call time out while two others are answered out of order. Two epochs allow a reconnect after
a failure, which is the case where the old reader meets the new connection.
`CallsExhausted` is the stopping point once the msgid bound is used up. It is not a state
of the program, and deadlock is still checked everywhere else.

**Fairness.** Weak fairness holds for the fibers' resumptions, because the reactor's
scheduler is round-robin. It holds for connect failure, write completion and `getRsp`,
because connects and `getRsp` have deadlines and a write completes once the upstream
takes the bytes or fails once the connection breaks. It holds for both reader steps for a
different reason: the reader's `async_read` has no deadline, but in the model it is pending
only while the upstream owes a reply (which `ServerAnswers` delivers) or the connection is
broken (which fails the read). It also holds for the upstream taking and answering requests
(`ServerTakes`, `ServerAnswers`). New calls, `ConnectOk` and `PeerReset` are not forced.
`Kept` adds `UNCHANGED proto` to each fair action.

### `LogRing` (`LogRing.cfg`, `LogRingSkipEnd.cfg`)

This module models `FibpLogger`'s ring and the handlers that fill it.

- **Variables.** `auto` is `auto_inc_id_`. `slot` is `logged_call_list_`, reduced to
  `wait_send` and `id`. `next` and `cnt` are the drain's `next_send` and batch count. `sent`
  and `dropped` record what the drain shipped and what it discarded.
- **Actions.**
  - `StartServiceCall`: a busy slot is refused, and the caller gets id 0.
  - `EndServiceCall`: the handlers' callbacks.
  - `AbandonCall`: the early returns after `startServiceCall` that skip `endServiceCall`.
    These are the parse errors in `CommandsController` and the `convert` throw in
    `FibpRpcServer::dispatch`.
  - `DrainSlot`: one turn of the drain's inner loop, including the N/2 drop rule.
  - `ShipBatch`: the POST, whose failure is only logged.
- **Atomicity.** The test of a slot and the write of its id are one step. The window between
  them needs two starts whose ids are exactly N apart, which is listed as a hazard.
- **Fairness.** Weak fairness on the drain, which loops forever on its own thread. Weak
  fairness also on ending a started call. Every forward call finishes: the retries are
  bounded and every wait has a deadline.

Runs:

- `log_ring` (pass). N = 2, batches of 2 and 6 calls, with abandoning allowed. The ring
  wraps, starts are refused on busy slots, and calls are abandoned. It checks:
  - `TypeOK`, which includes the batch bound: the drain's `cnt < MAX_LOG_SEND_NUM` test
    keeps a batch within `MAX_LOG_SEND_NUM` records.
  - `SentRecordIsEnded`: only answered requests are shipped, through wraps and refusals.
  - `EndedCallLoggedWithoutHoles`: in every behaviour where no start is refused and no
    call is abandoned, every answered call is eventually drained. The drop rule is
    exercised.

  A hole is a refused start (id 0) or an abandoned call. The walk waits at the hole's id
  until a later id of the same slot ends there. It then takes that later record under the
  hole's id, and waits again at the later id. So after a hole, records wait for more
  traffic and are shipped out of id order. The model reaches this case, but within a
  bounded number of calls it cannot be told apart from a permanent stall. So the liveness
  property is stated without holes, and the delay is listed as a hazard.
- `log_ring_skip_end` (violation of `EndedCallLogged`). One request that fails to parse
  stops the drain for good. This is a finding.

### `ForwardCall` (`MCForwardCall`, `ForwardCall.cfg`)

This module models one request through `FibpForwardManager::call_services_in_fiber` and
`call_single_service`.

- **Inputs.** Init chooses the call list: 0 to 2 rows, their requests and service types, and
  `do_transaction`. It also chooses what the cache holds from earlier requests.
- **Row actions.**
  - `RowStart`: a pool fiber picks up a scheduled row.
  - `RowAttempt`: one pass of the retry loop's head, covering lookup and send, with "Service
    Not Found." and "Send Service Request Failed. " on the last attempt.
  - `RowLoopExit`: the loop condition fails.
  - `RowResponse`: `get_response`, with `can_retry` chosen freely. The RPC client reports
    every error reply with `can_retry = false`, and timeouts and broken connections with
    `true`.
  - `RowFinish`: cache set or cache fallback, then `--call_num`.
- **HTTP client pool.** This is `FibpClientMgr`, composed in. Every row calls the same
  destination, so there is one pool (`idle`, front first), one `client_num_` (`cnum`), and
  the client each row has checked out (`held`).
  - `HttpSendRequest` takes the front idle client, or creates one and counts it.
    `PoolRefuses` is the cap test `client_num_ > MAX_CLIENT_NUM`.
  - A failed write puts the client at the back of the pool.
  - `HttpGetResponse` puts it back after every response.
  - RPC rows leave the pool alone.
- **HTTP client.** `FibpHttpClient` and its `ClientSession` are composed into the pool.
  - `csock` is each client's socket: `closed`, `open`, or `stale` (open on this side but
    closed by the upstream while idle, which is `IdleClose`).
  - `wire` holds the requests whose response is still unread, tagged with row and attempt.
  - `SessionSend` is `send_data`: it connects a closed socket (`ConnectFails`), then
    `Write`s. A stale socket takes the bytes, and nothing answers them.
  - `ParseOutcomes` is what `parser_impl::parse` can end with under the read deadline: a
    whole response (`ok`; `final` for 400/404, which clears `can_retry_`; `retry` for any
    other code), `timeout` (`Deadline`, i.e. `check_deadline`), or `eof`. On end of file
    before a response, `parse` returns true with the cleared code 504. A stale connection
    only gives `eof`.
  - `SessionAfterResponse` is `get_response`. The session is kept only after a whole
    keep-alive response (`clear()` resets `keep_alive_`), and shut down otherwise.
  - The RPC rows' results stay free choices, since `RpcClient` models that client.
  - The pool hands out its oldest idle client first. Each stale client therefore costs a
    row one attempt. With three or more stale clients, a row can lose all `MAX_RETRY`
    attempts against a healthy upstream. Showing that needs three pooled clients and a
    violation run, so it is listed as a hazard.
- **Orchestrator actions.**
  - `Begin`: the transaction rejection, the inline single row, or scheduling on the pool.
  - `AllRowsDone`: the `call_num` wait.
  - `Transaction`: the null `transaction_mgr_`. Calling through it is undefined
    behaviour, so the step has two outcomes: the process crashes, or the calls run on
    and the callback follows. The confirm/cancel calls themselves are abstracted into
    this one step.
  - `Callback`.
- **Fairness.** Weak fairness on every step. The fibers of a thread are scheduled
  round-robin, and every client call returns by its deadline.

Runs:

- `forward_call` (pass). About 80k states. It checks:
  - `TypeOK`.
  - `CallbackAfterRows`: the callback runs at most once, and only after every row is final.
  - `RowSettled`: each final row is a response, fresh or cached, or an error, never both and
    never neither.
  - `PlainBatchAnswered`: a request without `do_transaction` always gets its callback.
  - `HttpClientsAccounted`: every client created is, exactly once, either idle in the pool
    or held by the one row waiting on its response. No client is lost, and none serves two
    rows at once. `MAX_CLIENT_NUM = 0` allows one client, so a second concurrent HTTP row
    is refused. (The code allows `MAX_CLIENT_NUM + 1` clients where the spec says 100. This
    is listed as a hazard, and the run budget leaves no room for a violation run.)
  - `HttpResponseOwned`: a pooled HTTP connection carries at most one unread response, and
    only the one that the row holding the client waits for on its current attempt. A row
    never reads the answer to another row's request, or to its own timed-out attempt. The
    guarantee comes from three places: the pool hands a client out once, `get_response`
    shuts the session down unless a whole keep-alive response was read, and
    `check_deadline` closes the socket.

The transaction step is modelled but not given a run. `init` never creates
`transaction_mgr_`, so a transactional all-HTTP batch dereferences a null pointer and is
may never be answered. That is plain from the code (the pointer is assigned nowhere), and
`Transaction` may end in `crashed`. The run that once showed it now checks the port-forward
relay (`relay_uaf`), whose defect depends on the order of two fibers.

**Bounds.** Two rows give the pool path, with two tasks and the barrier, next to the inline
path and the empty list. Two requests, one of them cacheable, let rows share or not share a
cache entry. `MAX_RETRY = 3` as in the code.

### `FiberPool` (`MCFrontEnd`, `FrontConnection.cfg`)

This module models the forward manager's per-thread pool (`FiberPool.hpp`, used through
`post_to_fiber_pool`) together with the batch requests that run on it.

- **Variables.**
  - `size` is `fiber_pool_.size()` and `running` is `running_fiber_num_`.
  - `waiting` counts the workers in `cond_`'s `waiting_` queue. `ready` counts the workers
    that were created or notified and have not run since.
  - `queue` is `fiber_task_list_`.
  - A batch request has a state `bst`, the row tasks it has `pushed` so far and its
    `call_num`. Each row task has a state in `rst`.
  - Workers are interchangeable, so they are counted rather than named.
- **Actions.**
  - `PostBatch`: `schedule_task_from_fiber` called from a handler fiber outside the pool.
  - `WorkerResumes`: a ready worker runs. It is a new fiber entering `run_fiber`, or a
    notified one returning from `condition::wait`.
  - `RunFiberLoop`: one turn of `run_fiber`'s loop. It pops the head and does
    `++running_fiber_num_`. On an empty list it does `CondWait`, which is
    `condition::wait` putting the fiber in `waiting_` (`boost/fiber/condition.hpp`).
    `RowDone` and `BatchResume` end with it, because the worker loops as soon as its task
    returns.
  - `PushRow`: one turn of the scheduling loop of `call_services_in_fiber`.
  - `BatchResume`: the `call_num` wait returns and the task ends.
  - `RowDone`: the `call_single_service` wrapper.
  - Every push applies `PoolSizeAfterPush`: lazy creation, doubling when
    `running >= size - 1`, and the cap test. The new fibers are ready. The push's
    `notify_one` moves one waiting worker to ready, and is lost when none waits.
- **Fairness.** Weak fairness on every pool step, because the fibers of a thread are
  scheduled round-robin: a ready worker is resumed. A worker in `waiting_` has no
  fairness; only a notify moves it. Posting is not forced.

Runs:

- In `front_conn` (pass, on `MCFrontEnd`, as its fifth kind of behaviour). Three batches of two rows. The pool starts at 2 fibers, and the cap of
  3 is reached: the pool doubles to 4, past the cap, and stops. (The cap is tested on the
  size before doubling, so the pool overshoots it by one doubling: 20480 workers against
  the stated 15000. That is plain arithmetic and is listed as a hazard, not checked.) It
  checks:
  - `TypeOK`.
  - `NoLostWakeup`: no worker sleeps in `waiting_` while the list holds more tasks than
    there are ready workers to look at it. No `notify_one` is lost at a moment that
    matters: when a push finds nobody waiting, every idle worker is already ready and
    will look at the list. Dropping the notify breaks it.
  - `AllBatchesAnswered`: the "keep one worker spare" growth rule leaves a worker for the
    rows, even when batches are posted while the workers are idle and growth has stopped.

Once growth has stopped with fewer workers than waiting batches, the batches hold every
worker and wait for rows queued behind them: with `MAX_GROW_SIZE = 1` the pool stays at 2
workers and TLC finds `AllBatchesAnswered` violated (the deadlock hazard at
`FibpForwardManager.cpp:304`). In the program it takes more than 10240 concurrent batch
requests on one thread, so the run keeps a cap that the three batches cannot exhaust.

**Bounds.** `GROW_SIZE = 2` stands for 10, and the cap is scaled to the small pool. Three
batches are the fewest for which a batch is queued ahead of another batch's rows while
workers are held.

### `PortForward` (`MCDiscovery`, `Discovery.cfg`; `MCPortForward`, `PortForwardEmpty.cfg`)

This module models the port-forward key watcher (`FibpServiceMgr::watchPortForwardChangeFunc`)
together with the listener registry of `FibpPortForwardMgr` that it drives.

- **Data.** A key is an (agent, service) pair.
- **Variables.**
  - The watcher's locals: `prev` is `previous_keys`, `newk` is `new_keys`, `lp`/`lpDom` is
    `last_ports` and `spm` is `service_port_map`.
  - The registry: `fsrv` is `forward_server_list_` and `fsl` is `forward_service_list_`.
  - `pua` is `ports_used_by_agent_`.
- **Actions.**
  - `PollEmpty`: the early `continue` on an empty list.
  - `Poll`: an answer with keys.
  - `HandleKey`: one key of the pass. This is the value fetch for a new key
    (`GetForwardPortInfo`), which fails when the request fails or the key is already gone.
    It is followed by the `service_port_map` lookup or `StartPortForward`, which is
    `FibpForwardManager::startPortForward`: `PortForwardMgrStart`, then
    `UpdateForwardService`.
  - `EndPass`: `previous_keys = new_keys`, the retire loop (`getForwardService`, then
    `StopPortForward`) and the `ports_used_by_agent_` update.
  - The OS may give a new listener the number of a port closed earlier.
  - `ChangeKeys` is the agents editing the registry.
  - A failed or unparsable poll changes nothing and is left out.
- **Atomicity.** The watcher is the only writer, so a whole pass step is one action. Only
  readers run in between.

Runs:

- `discovery` (pass, on `MCDiscovery`, a disjoint union with `ServiceNodes`, whose
  variable `watcher` picks the watcher family in `Init`). Two agents, two services and
  three port numbers, with symmetry over the agents and over the services (no liveness
  property mentions them). It checks:
  - `TypeOK`, the conjunction of both modules' type invariants (see `ServiceNodes` for
    what it catches).
  - `ServicePortMapSound`: every map entry names a running listener registered for that
    service, even when numbers are reused.
  - `OneListenerPerService`.
- `port_forward_empty` (violation of `PortsFollowKeys`). Deleting the last key leaves its
  listener open, because the empty answer skips the diff. The spec says such a port is closed
  within one cycle. This is a finding.

**Bounds.** Two agents are needed for a port shared by agents. Two services and three port
numbers let a retired port's number be handed to the other service. Four answers and three
registry changes cover adding, sharing, removing and re-adding a key.

### `ServiceNodes` (`MCDiscovery`, `Discovery.cfg`)

This module models service discovery in `FibpServiceMgr`: the node table
`reg_service_host_info_`, the fibers that fill it, the cluster name, and the lookup
`get_service_address`.

- **Variables.**
  - `health` and `regCluster` are the registry: per service and host, an instance entry
    (type, cluster tags, passing) or `Absent`; and the cluster name the agent reports.
  - `cw`, `nw` and `clw` are the catalog watcher, each service's node watcher (`off` until
    the catalog watcher starts it) and the cluster watcher.
  - `ans`, `ti` and `last` are a node watcher's parsed answer, its position in the loop
    over types, and `last_service_names`.
  - `tbl` is the table: type → (service, cluster) → hosts. `cur` is `curClusterName_`.
- **Actions.**
  - `ChangeNode` and `ChangeCluster`: the registry changes, at most `MaxChanges` times.
  - `CatalogPoll`: an answer of `/v1/catalog/services`. A watcher fiber starts for every
    listed service not yet watched.
  - `NodePoll`: an answer of `/v1/health/service/<name>`, parsed by
    `ParseServiceInfoRsp`. Parsing keeps only the nodes whose checks pass. Each node goes
    under its protocol's type and under every cluster tag it has, or `dev` if it has none.
  - `ApplyType`: one turn of the loop over types, under the unique lock. It erases the
    keys of `last_service_names`, then writes the answer's keys.
  - `ClusterPoll`: `watchCurrentClusterName` plus `changeCluster`. An empty name is
    ignored.
  - `CatalogHang`, `NodeHang` and `ClusterHang`: every long poll is sent with
    `timeout_ms = 0`, and `prepare_timeout(0)` arms no deadline. So a server that stops
    answering holds the poll for good.
  - A failed request only sleeps and switches server, and an answer that does not parse
    is polled again at once (`FibpServiceMgr.cpp:535`). Neither changes the table, so
    neither is an action.
  - `Lookup(s, t)` is the host list `get_service_address` picks from.
- **Fairness.** Weak fairness on the watchers' answers and updates, because their fibers
  loop for the life of the process. Hanging is not forced.

In the `discovery` run (pass), the node watchers get two services, one host, the HTTP and
RPC types, one cluster tag besides `dev`, and 3 registry changes. One host suffices: a key's host set is then
empty or not, which is what erasing and writing distinguish. The changes cover a protocol
change, a tag change, failing checks and removal. It checks:

- `TypeOK`, which includes that the loop over types stays within the type list: ending the
  loop one type late (`ti` past `Len(TypeSeq)`) breaks it.
- `TableMatchesAnswer`: between two answers, a service's keys in every type's map are
  exactly those of its last answer. A key of an earlier answer never lingers, even when a
  node changes protocol or cluster.
- `RegistryReflected`: in every behaviour where no poll hangs, the table eventually
  settles on what the registry holds. Lookups then find the hosts of the cluster the agent
  reports. The hang fault shows why the premise is needed: a hung watcher never updates
  its part of the table. This is listed as a hazard.

Not modelled here:

- The lock-free read of `curClusterName_` (a data race, listed as a hazard).
- Key collisions between `"a-b"+"-c"` and `"a"+"-b-c"`.
- The lower-casing of tags but not of the cluster name.
- `reportServiceStats`.

### `FrontConnection` (`MCFrontEnd`, `FrontConnection.cfg`, `FrontConnectionUaf.cfg`, `FrontConnectionLeak.cfg`)

This module models one client connection of the HTTP front end: `HttpConnection.cpp` with
the request parser of `HttpProtocolHandler.cpp`. It follows `FiberHttpServerV2`, which the
process starts. That server gives its connections no fiber pool, so `handleRequestFunc` runs
inline in the reader fiber, inside the parser's `on_msg_complete`.

The same module models the driver front end, `FiberDriverConnection.cpp`, which
`FiberDriverServerV2` runs on the same router, also without a fiber pool. `conn`, fixed in
`Init`, says which kind the connection is. Both kinds share the client, `st`, `CallDone`
and the reader states. The driver has no parser object (`parser = "none"`) and no
keep-alive.

- **Data.** The client's requests are fixed in `Init` (`req`), each with a kind and a
  keep-alive flag:
  - `bad`: `http_parser` stops short, and `close_cb_` runs;
  - `error`: no path, no handler or an exception, answered by `write_error_rsp` and
    `shutdown()`;
  - `sync`: `invoke_raw`, then `write_rsp` inline;
  - `async`: `call_services_async` and `call_single_service_async`. The call is posted to the
    forward manager's fiber pool, and the response is written by the completion callback.

  A driver request is `close` (a header of sequence 0 or size 0, which ends the loop),
  `bad` (a payload over `kLimitSize`: `writeError`, then the loop ends), `error` (not a
  JSON object, no handler, or an exception: `writeError`, and the loop goes on), `sync` or
  `async`.
- **Variables.**
  - `rd` is where the reader fiber is: parked in `async_read_some`, writing an inline
    response, yielded after posting, leaving the loop, or returned.
  - `st` is each request's progress.
  - `parser` is whether `req_parser_` (and the `parser_impl` that `do_parse` runs on) still
    exists.
  - `shut` is whether `shutdown_receive` has been called.
- **Actions.**
  - The client sends, closes or resets.
  - `ReadRequest`, `ReadEof`, `ReadError`, `ReaderWritten`, `ReaderResume` and `ParseExit`
    are the do_parse loop with the inline handlers.
  - `CallDone` and `CallbackWritten` are an async request's callback fiber.
  - The driver's `start()` loop is `DriverReadRequest` (with `DriverHandleRequest` for
    `handleRequest`/`handleRequestFunc`), `DriverReadError`, `DriverWritten`, `DriverResume`
    and `DriverExit` (`shutdownReceive`). Its callback write is `DriverCallbackWritten`.
    A failed header read, EOF included, is answered by `writeError` before the loop ends.
  - `Shutdown` and `AfterWrite` are `shutdown()` and `after_write`. Every step runs up to the
    next suspension point: all the connection's fibers share one reactor thread.
  - `ReaderWriteFails` and `CallbackWriteFails` are an HTTP response written to a reset
    socket. `HttpConnection` writes with the plain `yield` (lines 62 and 96), so a failed
    write throws: the fiber leaves before `shutdown()` and `after_write`. The 500 that
    `onReadError` writes after a reset is such a write. `Unwind` gives the throw the two
    outcomes a boost.fiber build can have: the exception ends only that fiber (the
    request becomes `failed`), or it ends the process (`aborted`, after which nothing
    runs).
- **Fairness.** Weak fairness on the reader and the callbacks: fibers are scheduled
  round-robin, and asio completes a read once bytes, a FIN or a reset arrive. The client is
  not forced to do anything.
- **Abstraction.** One read returns one request. A response is one atomic write, and its
  bytes are not modelled.

Runs:

- `front_conn` (pass, on `MCFrontEnd`, together with `PortRelay` and `HttpRequestParser`). Both connection kinds,
  three pipelined requests of every kind, then a close or a reset. About 80k states for
  this module. It checks:
  - `TypeOK`.
  - `ConnectionEnds`: after the client closes without a reset, the connection ends: the
    reader returns, every async response is written, the receive side is shut, and an
    HTTP connection's parser is released. A reset is allowed to end it otherwise, which
    `front_conn_leak` below shows is a leak.
  - `ResponseReturned` (from `HttpResponseParser`): a pooled client's call succeeds
    exactly when a whole 200 response begun during that call was read, and returns its
    body.
- `front_conn_uaf` (violation of `ParserOutlivesParse`). `shutdown()` destroys the parser
  while `do_parse` still runs on it. This is a finding. On every client close, `close_cb_`
  resets `req_parser_`, and `do_parse` then runs `http_parser_init(&parser_)` on freed
  memory. The same happens:
  - after a malformed request;
  - after an error response written inside `on_msg_complete`;
  - with two fibers, when an async callback's `after_write` closes a non-keep-alive
    connection while the reader is parked in `async_read_some`.

  TLC's shortest trace takes the malformed-request trigger.
- `front_conn_leak` (violation of `ReleasedWhenIdle`: once nothing of the connection runs,
  the parser has been reset). The parser's callbacks hold `shared_from_this()`, so only
  `shutdown()` breaks the cycle that keeps the connection and its socket alive. After a
  client reset, `onReadError`'s 500 fails, the yield throws out of the reader fiber
  before `shutdown()`, and the connection, its parser and its socket are never freed.
  This is a finding. The same throw in a callback fiber also skips
  `--running_fiber_num_` in `run_fiber`, and the pool worker dies with it; that is not
  modelled.

Not checked: HTTP/1.1 pipelining requires responses in request order, but an async response
can be overtaken by an inline one. Nor are the bytes of two concurrent writes checked, on
either kind: the driver's loop also answers the next request inline while an async
callback's `writeRsp` may still be writing.

### `PortRelay` (`MCFrontEnd`, `FrontConnection.cfg`, `PortRelayUaf.cfg`)

This module models one connection accepted by a port-forward listener
(`FibpPortForwardConnection.cpp`, with `create_forward_connection` and `handle_forward_rsp`
of `FibpPortForwardMgr.cpp`). `runConnection` starts `start()` in a detached fiber that holds
the only `shared_ptr` to the connection.

- **Up fiber** (`up`), which is `start()`:
  - `ChainFail`: the port has no forward entry, its service has no machine, or the last
    connect attempt failed. `start()` shuts `socket_`'s receive side and returns.
  - `ChainConnectRetry`: a failed connect, then the next host. `retry = 3; while (--retry
    > 0)` allows `ConnectTries` = 2 attempts.
  - `ChainConnect`: connected. The down fiber is spawned with `boost::ref(socket_)`.
  - `UpRead`, `UpWrite`: the copy loop from the client to the upstream.
  - `UpExit`: `forward_client->shutdown(false)`, `shutdown()`, and the return.
    `StartReturns` destroys the connection (`alive`).
- **Down fiber** (`dn`), which is `handle_forward_rsp`:
  - `DnRead`: `ClientSession::async_read_some` with no read timeout. At end of file,
    `SessionReadEof` (its `shutdown(true)`) closes the upstream socket.
  - `DnWrite`: the write back to `src_socket`.
  - `DnExit`: `client->shutdown(false)` and `src_socket.shutdown`.
- **Peers.** The client sends, half-closes or resets. The upstream answers one chunk per
  chunk received and may close. Data is counted in chunks. A socket whose receive side is
  shut still hands out what is queued, then reports end of file.
- **Fairness.** Weak fairness on every fiber step: the reactor resumes a fiber once its
  operation can complete. The peers are not forced to do anything.

The pass properties run in `front_conn`, through `MCFrontEnd`. That module composes
`FrontConnection` and `PortRelay` as the two kinds of accepted connection. Each behaviour
follows one of them, and the other stays in an initial state.

- `RelayEnds`: once either peer closes or resets, both fibers finish. Each fiber's exit
  shuts the other fiber's read.
- `ResponsesRelayed`: while the client keeps its side open, every chunk the upstream sent
  before closing is written back.
- `RequestsRelayed`: while the upstream keeps its side open, every chunk the client sent
  before closing reaches the upstream.

The violation run is `relay_uaf`, which breaks `SrcSocketAlive`. This is a finding:

1. The client closes first.
2. `start()` returns without suspending, and the connection is destroyed with its socket.
3. The down fiber then wakes from its upstream read at end of file.
4. It calls `src_socket.shutdown` on the destroyed socket.

A client that half-closes also loses the response: its FIN makes `start()` shut the
upstream's receive side. That is listed as a hazard.

**Bounds.** Two chunks each way (one in `relay_uaf`) are enough for data in flight in
both directions when a peer closes.

### `HttpRequestParser` (`MCFrontEnd`, `FrontConnection.cfg`)

This module models the request parser of an HTTP connection callback by callback, where
`FrontConnection` takes a whole request per read. `do_parse` feeds each read to
`http_parser_execute`, which calls the callbacks of `request::parser_impl`
(`HttpProtocolHandler.cpp`). A url, a header name or a header value cut by a read boundary
reaches them in several pieces, one per read. `state_` alone tells a continuation from a
new token.

- **Parser.** `OnMsgBegin`, `OnUrl`, `OnHeaderField`, `OnHeaderValue`, `OnBody` and
  `OnMsgComplete` are the callbacks. `pstate` is `state_`, `url` is `url_`, and `nextReq`
  is the request being filled in `next_context_`.
- **Handing the request over.** `OnMsgComplete` calls `RequestCb` (`request_cb`).
  `CreateContext` swaps `next_context_` into the context that goes to `handleRequest`
  (`handed`). `cont` is `should_continue_`.
- **`http_parser`'s side.** This is not code of this repository, and the environment
  actions (`MsgBegin`, `Url`, `FieldStart`, `FieldMore`, `Value`, `Body`, `MsgComplete`)
  keep to its contract:
  - one callback per token per read buffer, so a token continues only after `ReadSome`;
  - a value follows its name;
  - trailers may follow a chunked body.

  They record in the ghost `msgs` the messages they reported.
- **Abstraction.** A string is a sequence of characters, one piece per character. The url is
  not split into host, port, path and query.

`RequestsAssembled` runs in `front_conn`. It checks that every request handed to
`handleRequest` equals the message reported: url, headers and body. This holds across
cuts and pipelined messages.

**Bounds.** Two pipelined messages, up to two headers each, and tokens of up to two
characters, so that every token can be cut once. One character suffices: a misassembly
changes the number of headers or a token's length. The bounds add about 100k states.

### `HttpResponseParser` (`MCFrontEnd`, `FrontConnection.cfg`)

This module models the client side of an HTTP forward: `FibpHttpClient::get_response`
(`FibpClient.cpp`) driving `response::parser_impl::parse` (`HttpProtocolHandler.cpp`) on a
pooled connection that is kept across calls.

- **Call.** `StartGetResponse` clears `response_t` (`Cleared`) and starts a read (`call` is
  "reading"). `GetResponseEnd` is the end of `get_response`: the session is closed unless
  the response asked for keep-alive and the read ended cleanly, and the answer (`result`)
  is the body on a 200, else a status, with a retry flag unless the code is 400 or 404.
  `Reconnect` is `send_data` reopening a closed socket for the next call.
- **Parser.** `OnMsgBegin`, `OnStatus`, `OnHeaderField`, `OnHeaderValue`, `OnBody` and
  `OnMsgComplete` are the callbacks; `pstate` is `state_`, `rsp` is `response_`, `cont` is
  `should_continue_`. `MsgComplete` is `on_msg_complete` stopping `parse`'s loop;
  `ReadEof` is the end-of-file read, which either completes an unframed response or returns
  true with a partial one; `ReadFails` is a read error, the deadline (`aborted`) or a parse
  error.
- **Upstream.** The ghost `msg` is the response the upstream sent, tagged with the call it
  began in (`msg.call`), and `complete` says whether it was reported whole. `IdleClose` is
  the upstream closing a kept connection between calls.

`ResponseReturned` runs in `front_conn`: a call succeeds exactly when a whole 200 response
begun during that call was read, and then returns its body. It needs several calls:
keeping a connection after a read that ended at end-of-file or on the deadline would hand
the next call the rest of an old response.

**Bounds.** Two calls, one header, tokens of up to two characters, codes 200 and 404.

### `ServerPool` (`ServerStop.cfg`)

This module models a front-end server's reactor pool and the loop that runs it:
`io_service_pool` and `AsyncMultiIOServicesServer` (`AsyncMultiIOServicesServer.h`)
driven by `FiberHttpServerV2::run` and `::stop` (`FiberDriverServerV2` has the same code).

- **Pool.** `stopped` is each io_service's stopped flag and `threads` the threads inside
  its `run`. Each io_service holds a work object, so its threads leave only once it is
  stopped (`ThreadsExit`). `Reset` is `io_service_pool::reset`.
- **Server thread.** `pc` follows `FiberHttpServerV2::run`:
  - `RunStart` clears `normal_stop_` and opens the acceptor;
  - `PoolRun` is `io_service_pool::run`: it starts one thread per io_service and joins
    them (`Joined`), or throws after creating some of them;
  - `Returned` breaks on `normal_stop_` and otherwise resets and loops;
  - `Caught` is the catch block, which resets and loops.
- **Acceptor.** `OnAccept` posts an accepted connection to the io_service that
  `get_io_service` picked (round robin, `GetIoService`) and accepts again. After an accept
  error no accept is started again.
- **Exit hook.** `Stop` is `stop()` as `FibpProcess::stopConnectionServer` calls it from
  the signal thread, at most once. The exit hook is registered in `FibpProcess::init`,
  before `FibpProcess::run` starts the server threads.

Fairness: weak fairness on the server thread's steps and on `ThreadsExit` (OS threads,
and `io_service::stop` makes `run` return). There is none on `Stop` or on `OnAccept`.

Run `server_stop_lost` (violation of `StopEnds`: once stop has been called, `run` returns).
This is a finding. TLC's trace runs `Stop` after `RunStart`, before `io_service_pool::run`
starts its threads; `run` then throws after creating some of them, and the catch block
(`Caught`) resets the stopped io_services and loops, so the next `run` never returns. A
`Stop` before `RunStart` is lost the same way, because `RunStart` clears `normal_stop_`. `FibpProcess::run` waits in
`server_group.join_all`, so the process does not exit on the signal.

**Bounds.** Two reactor io_services and the main one, one connection per io_service, one
exception.

## Plan (modules to come, in this order)

The project has twelve runs. A new module's checks therefore replace a run that says less,
or join a run of the component they compose with (`MCFrontEnd` holds five components as
one disjoint union, so that a component costs its own states, not a product).

1. The order of an async response against a later inline one, and the byte interleaving
   of the two writes, when a run can be spared for them.
2. The acceptor that stops for good after one failed accept (`OnAccept` in `ServerPool`
   has the path). Showing it needs a second violation run of `ServerPool`.

## Not modelled

- XML configuration and process options: one-shot parsing at start-up.
- The driver protocol's byte-level parsing, `get_http_response` (the twin of
  `get_response` that service discovery calls: the same control, with the whole response
  as its answer) and `http_parser` itself, which is
  not code of this repository.
- `FibpRpcServer`'s connections: they belong to the msgpack-rpc library's server, which is
  not code of this repository. Its `dispatch` only starts a logged call and posts it to the
  forward manager. The call it can abandon after `startServiceCall` is `AbandonCall` in
  `LogRing`.
- The driver's callback-driven read path (`asyncReadFormHeader` and the functions after
  it): `FiberDriverServerV2` runs `start()` instead.
- JSON and msgpack codecs: data conversion that no property distinguishes.
- `MultiThreadObjMgr`: a hash table of per-thread objects. `getThreadObj` finds or inserts
  the calling thread's object under its bucket's write lock, and a thread only ever finds
  its own entry. What can go wrong is outside a passing run. `clear()` in
  `FibpForwardManager::stop` destroys the client managers and fiber pools while reactor
  threads that `stop()` did not join may still use them. `init(0)` (a `threadnum` of 0)
  leaves no bucket, so the first `getThreadObj` takes a remainder by zero. Both would be
  violation runs, and none is left.
- Metrics and log shipping I/O.
- The Thrift connection header.
- The remaining code of `src/`: `operator<<` formatters, the static `http_parser`
  callback trampolines and settings tables, the V1 servers that no process starts, and
  `FiberPool`'s cross-thread bridge, which nothing calls. None of it holds state that a
  property could tell apart. This is why the map covers about a quarter of the lines.
