----------------------------- MODULE RpcClient -----------------------------
(***************************************************************************)
(* The msgpack-RPC client of the gateway (FibpRpcClient in                 *)
(* forward-manager/FibpClient.cpp), with the ClientSession it writes       *)
(* through and the FibpClientFuture each call waits on.                    *)
(*                                                                         *)
(* Several caller fibers of one reactor thread share one client per        *)
(* upstream host:port (FibpClientMgr keeps a single long-lived RPC client  *)
(* per key).  Each call takes the next msgid, registers a future in        *)
(* future_list_, connects the socket if it is closed (other callers yield  *)
(* while connecting_ is set), writes its frame and parks on the future's   *)
(* deadline timer.  One detached reader fiber, started by the first        *)
(* caller that finds none, reads replies, completes the future whose       *)
(* msgid the reply names, and on any read error shuts the session down,   *)
(* fails every registered future (set_all_error) and exits.               *)
(*                                                                         *)
(* Fibers are cooperative: an action is the code between two suspension   *)
(* points (async_connect, async_write, async_read_some, the future's      *)
(* timer wait, this_fiber::yield).                                         *)
(*                                                                         *)
(* The raw client (FibpRawClient, same file) is the same machine with an   *)
(* 8-byte header (sequence number, body length) for framing: send_request *)
(* is the same, its handle_read reads a header then the body, and         *)
(* set_response and set_all_error are the same.  Its read loop differs on *)
(* failure: it fails every registered future and exits without shutting   *)
(* the session down.  Which of the two a client is (FibpClientMgr makes   *)
(* one per service type) is fixed when it is created.                     *)
(*                                                                         *)
(* Data is abstracted: a request frame is its msgid, a reply is its msgid *)
(* and whether it carries a result or an error object.  The connection is *)
(* an epoch number: every successful connect starts a new epoch, and an   *)
(* I/O operation started in an earlier epoch completes with an error.     *)
(***************************************************************************)
EXTENDS Naturals, Sequences, FiniteSets

CONSTANTS
  Callers,      \* caller fibers sharing the client (model values)
  MaxCalls,     \* bound on send_request calls: msgids are 1..MaxCalls
  MaxEpoch,     \* bound on successful connects
  ChunkedWrite  \* TRUE: a frame may need two write_some calls to leave

ASSUME Callers # {} /\ MaxCalls \in Nat \ {0} /\ MaxEpoch \in Nat \ {0}
ASSUME ChunkedWrite \in BOOLEAN

Ids == 1..MaxCalls

VARIABLES
  pc,          \* where each caller fiber is suspended
  cur,         \* the msgid of each caller's current (or last) call, 0 = none
  fid,         \* FibpRpcClient::fid_, the last msgid handed out
  fut,         \* the FibpClientFuture of each msgid
  flist,       \* the msgids in future_list_
  sock,        \* the session's socket: "closed", "connecting" or "open"
  connecting,  \* ClientSession::connecting_
  epoch,       \* number of the current connection
  wep,         \* the epoch each caller's pending write was started on
  broken,      \* the peer reset the current connection (next I/O fails)
  reader,      \* the reading fiber: "none" or "running"
  rep,         \* the epoch the reader's pending read was started on
  wire,        \* request frames on the way to the upstream (write chunks)
  pending,     \* msgids the upstream has received and not answered
  replies,     \* reply frames on the way back, in stream order
  outcome,     \* what each caller's last get_response returned
  proto        \* "rpc" (FibpRpcClient) or "raw" (FibpRawClient)

vars == <<pc, cur, fid, fut, flist, sock, connecting, epoch, wep, broken,
          reader, rep, wire, pending, replies, outcome, proto>>

PcStates == {"idle", "yield", "connecting", "writing", "writing2", "waiting"}
Outcomes == {"none", "ok", "error", "timeout", "sendfail"}
FutStates == {"unused", "pending", "done"}
Parts == {"whole", "head", "tail"}
Protos == {"rpc", "raw"}

NoFuture == [st |-> "unused", ok |-> FALSE, val |-> 0]

Init ==
  /\ pc = [c \in Callers |-> "idle"]
  /\ cur = [c \in Callers |-> 0]
  /\ fid = 0
  /\ fut = [i \in Ids |-> NoFuture]
  /\ flist = {}
  /\ sock = "closed"
  /\ connecting = FALSE
  /\ epoch = 0
  /\ wep = [c \in Callers |-> 0]
  /\ broken = FALSE
  /\ reader = "none"
  /\ rep = 0
  /\ wire = <<>>
  /\ pending = {}
  /\ replies = <<>>
  /\ outcome = [c \in Callers |-> "none"]
  /\ proto \in Protos

-----------------------------------------------------------------------------
(* Helpers for the session and the future list.                            *)

\* ClientSession::shutdown(true): the socket is closed; what was in flight
\* on the connection, both ways, is lost with it.
Shutdown ==
  /\ sock' = "closed"
  /\ broken' = FALSE
  /\ wire' = <<>>
  /\ pending' = {}
  /\ replies' = <<>>

\* An I/O operation started on connection epoch e fails when it completes.
IoFails(e) == sock # "open" \/ e # epoch \/ broken

\* The future of msgid id gets its result (FibpClientFuture::set_result).
SetResult(f, id, ok, val) ==
  [f EXCEPT ![id] = [st |-> "done", ok |-> ok, val |-> val]]

\* FibpRpcClient::set_response: complete the future registered under the
\* msgid the reply names, then erase the msgid.  A msgid that is no longer
\* registered (its caller's send failed, or set_all_error ran) is ignored.
SetResponse(id, ok) ==
  IF id \in flist
  THEN /\ fut' = SetResult(fut, id, ok, id)
       /\ flist' = flist \ {id}
  ELSE UNCHANGED <<fut, flist>>

\* FibpRpcClient::set_all_error: every registered future fails with the
\* read error, retryable, and future_list_ is cleared.
SetAllError ==
  /\ fut' = [i \in Ids |-> IF i \in flist
                            THEN [st |-> "done", ok |-> FALSE, val |-> 0]
                            ELSE fut[i]]
  /\ flist' = {}

\* The send_data decision taken by caller c, right after registering its
\* future or after a yield: wait while another fiber connects, connect a
\* closed socket, or start writing on the open one.
SendData(c) ==
  \/ /\ connecting
     /\ pc' = [pc EXCEPT ![c] = "yield"]
     /\ UNCHANGED <<connecting, sock, wep>>
  \/ /\ ~connecting
     /\ sock = "closed"
     /\ connecting' = TRUE
     /\ sock' = "connecting"
     /\ pc' = [pc EXCEPT ![c] = "connecting"]
     /\ UNCHANGED wep
  \/ /\ ~connecting
     /\ sock = "open"
     /\ pc' = [pc EXCEPT ![c] = "writing"]
     /\ wep' = [wep EXCEPT ![c] = epoch]
     /\ UNCHANGED <<connecting, sock>>

\* The tail of send_request after a successful write: start the reading
\* fiber if there is none, and hand the future to the caller.
StartReaderNever == UNCHANGED <<reader, rep>>

StartReaderIfNone ==
  IF reader = "none"
  THEN /\ reader' = "running"
       /\ rep' = epoch
  ELSE UNCHANGED <<reader, rep>>

\* send_request's failure path: the msgid is erased, the caller gets a
\* null future and get_response returns false at once.
SendFailed(c) ==
  /\ flist' = flist \ {cur[c]}
  /\ pc' = [pc EXCEPT ![c] = "idle"]
  /\ outcome' = [outcome EXCEPT ![c] = "sendfail"]

-----------------------------------------------------------------------------
(* Caller fibers.                                                          *)

\* send_request: msgid = ++fid_, future registered, then send_data.
SendRequest(c) ==
  /\ pc[c] = "idle"
  /\ fid < MaxCalls
  /\ fid' = fid + 1
  /\ cur' = [cur EXCEPT ![c] = fid + 1]
  /\ fut' = [fut EXCEPT ![fid + 1] = [st |-> "pending", ok |-> FALSE, val |-> 0]]
  /\ flist' = flist \cup {fid + 1}
  /\ outcome' = [outcome EXCEPT ![c] = "none"]
  /\ SendData(c)
  /\ UNCHANGED <<epoch, broken, reader, rep, wire, pending, replies>>

\* The while (connecting_) yield loop of send_data resumes.
YieldResume(c) ==
  /\ pc[c] = "yield"
  /\ ~connecting
  /\ SendData(c)
  /\ UNCHANGED <<cur, fid, fut, flist, epoch, broken, reader, rep, wire,
                 pending, replies, outcome>>

\* async_connect completes: the socket is open, the caller goes on to write.
ConnectOk(c) ==
  /\ pc[c] = "connecting"
  /\ sock = "connecting"
  /\ epoch < MaxEpoch
  /\ sock' = "open"
  /\ epoch' = epoch + 1
  /\ connecting' = FALSE
  /\ pc' = [pc EXCEPT ![c] = "writing"]
  /\ wep' = [wep EXCEPT ![c] = epoch + 1]
  /\ UNCHANGED <<cur, fid, fut, flist, broken, reader, rep, wire, pending,
                 replies, outcome>>

\* async_connect fails (refused, resolver error, the connect deadline, or
\* the socket closed under it): shutdown(true), connecting_ cleared, and
\* send_request fails.
ConnectFail(c) ==
  /\ pc[c] = "connecting"
  /\ Shutdown
  /\ connecting' = FALSE
  /\ SendFailed(c)
  /\ UNCHANGED <<cur, fid, fut, epoch, wep, reader, rep>>

\* The frame leaves in one write_some.
WriteOk(c) ==
  /\ pc[c] = "writing"
  /\ ~IoFails(wep[c])
  /\ wire' = Append(wire, <<cur[c], "whole">>)
  /\ StartReaderIfNone
  /\ pc' = [pc EXCEPT ![c] = "waiting"]
  /\ UNCHANGED <<cur, fid, fut, flist, sock, connecting, epoch, wep, broken,
                 pending, replies, outcome>>

\* A large frame: async_write's first write_some sends its head and the
\* fiber stays suspended until the rest has gone.
WriteHead(c) ==
  /\ ChunkedWrite
  /\ pc[c] = "writing"
  /\ ~IoFails(wep[c])
  /\ wire' = Append(wire, <<cur[c], "head">>)
  /\ pc' = [pc EXCEPT ![c] = "writing2"]
  /\ UNCHANGED <<cur, fid, fut, flist, sock, connecting, epoch, wep, broken,
                 reader, rep, pending, replies, outcome>>

WriteTail(c) ==
  /\ pc[c] = "writing2"
  /\ ~IoFails(wep[c])
  /\ wire' = Append(wire, <<cur[c], "tail">>)
  /\ StartReaderIfNone
  /\ pc' = [pc EXCEPT ![c] = "waiting"]
  /\ UNCHANGED <<cur, fid, fut, flist, sock, connecting, epoch, wep, broken,
                 pending, replies, outcome>>

\* async_write fails: the session is shut down unless a fiber is
\* connecting, and send_request fails.
WriteFail(c) ==
  /\ pc[c] \in {"writing", "writing2"}
  /\ IoFails(wep[c])
  /\ IF connecting
     THEN UNCHANGED <<sock, broken, wire, pending, replies>>
     ELSE Shutdown
  /\ SendFailed(c)
  /\ UNCHANGED <<cur, fid, fut, connecting, epoch, wep, reader, rep>>

GetRspIgnoreError(c) ==
  /\ pc[c] = "waiting"
  /\ fut[cur[c]].st = "done"
  /\ outcome' = [outcome EXCEPT ![c] = "ok"]
  /\ pc' = [pc EXCEPT ![c] = "idle"]
  /\ UNCHANGED <<cur, fid, fut, flist, sock, connecting, epoch, wep, broken,
                 reader, rep, wire, pending, replies>>

\* getRsp finds the future done (before parking, or woken by set_result
\* cancelling the timer).
GetRsp(c) ==
  /\ pc[c] = "waiting"
  /\ fut[cur[c]].st = "done"
  /\ outcome' = [outcome EXCEPT ![c] = IF fut[cur[c]].ok THEN "ok" ELSE "error"]
  /\ pc' = [pc EXCEPT ![c] = "idle"]
  /\ UNCHANGED <<cur, fid, fut, flist, sock, connecting, epoch, wep, broken,
                 reader, rep, wire, pending, replies>>

\* The future's deadline fires first: "Server Timed Out.", retryable.  The
\* msgid stays in future_list_.
GetRspTimeout(c) ==
  /\ pc[c] = "waiting"
  /\ fut[cur[c]].st = "pending"
  /\ outcome' = [outcome EXCEPT ![c] = "timeout"]
  /\ pc' = [pc EXCEPT ![c] = "idle"]
  /\ UNCHANGED <<cur, fid, fut, flist, sock, connecting, epoch, wep, broken,
                 reader, rep, wire, pending, replies>>

-----------------------------------------------------------------------------
(* The reading fiber (FibpRpcClient::handle_read).                         *)

\* A complete reply is unpacked and its future completed.
ReadReply ==
  /\ proto = "rpc"
  /\ reader = "running"
  /\ ~IoFails(rep)
  /\ replies # <<>>
  /\ replies' = Tail(replies)
  /\ SetResponse(Head(replies)[1], Head(replies)[2])
  /\ UNCHANGED <<pc, cur, fid, sock, connecting, epoch, wep, broken, reader,
                 rep, wire, pending, outcome>>

\* FibpRawClient::set_response as handle_read calls it: the body is a
\* success whatever the upstream meant by it (a raw frame has no error
\* field), and not retryable.
RawSetResponse(id) == SetResponse(id, TRUE)

\* FibpRawClient::handle_read: the 8-byte header, then the body it sizes,
\* are read and the frame's sequence number completes its future.
RawReadReply ==
  /\ proto = "raw"
  /\ reader = "running"
  /\ ~IoFails(rep)
  /\ replies # <<>>
  /\ replies' = Tail(replies)
  /\ RawSetResponse(Head(replies)[1])
  /\ UNCHANGED <<pc, cur, fid, sock, connecting, epoch, wep, broken, reader,
                 rep, wire, pending, outcome>>

\* async_read_some fails (peer reset, EOF, the socket closed under it):
\* rpc_fail shuts the session down, fails every registered future and the
\* fiber exits.
ReadFail ==
  /\ proto = "rpc"
  /\ reader = "running"
  /\ IoFails(rep)
  /\ Shutdown
  /\ SetAllError
  /\ reader' = "none"
  /\ UNCHANGED <<pc, cur, fid, connecting, epoch, wep, rep, outcome>>

RawReadFailNoError ==
  /\ proto = "raw"
  /\ reader = "running"
  /\ IoFails(rep)
  /\ reader' = "none"
  /\ UNCHANGED <<pc, cur, fid, fut, flist, sock, connecting, epoch, wep,
                 broken, rep, wire, pending, replies, outcome>>

\* FibpRawClient::handle_read: the header or body async_read fails; every
\* registered future fails and the fiber exits, but the session is left
\* as it is: a socket the peer has reset stays open until a write on it
\* fails.
RawReadFail ==
  /\ proto = "raw"
  /\ reader = "running"
  /\ IoFails(rep)
  /\ SetAllError
  /\ reader' = "none"
  /\ UNCHANGED <<pc, cur, fid, sock, connecting, epoch, wep, broken, rep,
                 wire, pending, replies, outcome>>

-----------------------------------------------------------------------------
(* The upstream RPC server and the network.                                *)

\* The server takes the next complete frame off the connection.  Bytes of
\* another frame inside a frame do not decode as the request the caller
\* sent: the upstream drops what it has read (in the model, the rest of
\* the stream; the callers then time out or see the connection fail).
ServerRecv ==
  \/ /\ wire # <<>>
     /\ Head(wire)[2] = "whole"
     /\ pending' = pending \cup {Head(wire)[1]}
     /\ wire' = Tail(wire)
  \/ /\ Len(wire) >= 2
     /\ wire[1][2] = "head"
     /\ wire[2] = <<wire[1][1], "tail">>
     /\ pending' = pending \cup {wire[1][1]}
     /\ wire' = Tail(Tail(wire))
  \/ /\ Len(wire) >= 2
     /\ wire[1][2] = "head"
     /\ wire[2] # <<wire[1][1], "tail">>
     /\ pending' = pending
     /\ wire' = <<>>

\* The server answers any request it holds, in any order, with a result or
\* an error object.
ServerReply(id, ok) ==
  /\ id \in pending
  /\ pending' = pending \ {id}
  /\ replies' = Append(replies, <<id, ok>>)

Server ==
  /\ \/ ServerRecv /\ UNCHANGED replies
     \/ \E id \in pending, ok \in BOOLEAN : ServerReply(id, ok) /\ UNCHANGED wire
  /\ UNCHANGED <<pc, cur, fid, fut, flist, sock, connecting, epoch, wep,
                 broken, reader, rep, outcome>>

\* The connection breaks: the next read or write on it fails.
PeerReset ==
  /\ sock = "open"
  /\ ~broken
  /\ broken' = TRUE
  /\ UNCHANGED <<pc, cur, fid, fut, flist, sock, connecting, epoch, wep,
                 reader, rep, wire, pending, replies, outcome>>

\* Every msgid of the bound has been used and every fiber is back between
\* calls: the model has nothing left to do (not a state of the program).
CallsExhausted ==
  /\ fid = MaxCalls
  /\ \A c \in Callers : pc[c] = "idle"
  /\ UNCHANGED vars

-----------------------------------------------------------------------------
Step ==
  \/ \E c \in Callers :
       \/ SendRequest(c) \/ YieldResume(c) \/ ConnectOk(c) \/ ConnectFail(c)
       \/ WriteOk(c) \/ WriteHead(c) \/ WriteTail(c) \/ WriteFail(c)
       \/ GetRsp(c) \/ GetRspTimeout(c)
  \/ ReadReply \/ RawReadReply
  \/ ReadFail
  \/ RawReadFail
  \/ Server
  \/ PeerReset
  \/ CallsExhausted

\* An action of the client, which never changes its protocol.
Kept(A) == A /\ UNCHANGED proto

Next == Kept(Step)

\* The server answers a request it holds.
ServerAnswers(id) ==
  /\ \E ok \in BOOLEAN : ServerReply(id, ok)
  /\ UNCHANGED <<wire, pc, cur, fid, fut, flist, sock, connecting, epoch, wep,
                 broken, reader, rep, outcome>>

ServerTakes ==
  /\ ServerRecv
  /\ UNCHANGED <<replies, pc, cur, fid, fut, flist, sock, connecting, epoch,
                 wep, broken, reader, rep, outcome>>

\* The fibers of the reactor thread are scheduled round-robin and every
\* suspended I/O completes (connects and reads have deadlines, a failed
\* connection fails its pending operations); the upstream eventually
\* takes and answers every request it receives.  Calls and resets are not
\* forced.
Fairness ==
  /\ \A c \in Callers :
       /\ WF_vars(Kept(YieldResume(c)))
       /\ WF_vars(Kept(ConnectFail(c)))
       /\ WF_vars(Kept(WriteOk(c)))
       /\ WF_vars(Kept(WriteTail(c)))
       /\ WF_vars(Kept(WriteFail(c)))
       /\ WF_vars(Kept(GetRsp(c)))
  /\ WF_vars(Kept(ReadReply)) /\ WF_vars(Kept(RawReadReply))
  /\ WF_vars(Kept(ReadFail))
  /\ WF_vars(Kept(RawReadFail))
  /\ WF_vars(Kept(ServerTakes))
  /\ \A id \in Ids : WF_vars(Kept(ServerAnswers(id)))

Spec == Init /\ [][Next]_vars /\ Fairness

-----------------------------------------------------------------------------
(* Properties.                                                             *)

\* A caller parked on a future that is still registered and unanswered has
\* a reading fiber that will either deliver its reply or fail it with the
\* read error: no future is stranded with nobody left to complete it (its
\* caller would only ever see the timeout, and the msgid would stay in
\* future_list_ for good).  About send_request starting the reader only when
\* reading_fiber_ is null, and handle_read's rpc_fail path.
NoStrandedFuture ==
  \A c \in Callers :
    (pc[c] = "waiting" /\ cur[c] \in flist /\ fut[cur[c]].st = "pending")
      => reader = "running"

\* Request frames reach the upstream whole: no frame's bytes are split by
\* another frame.  About two fibers in async_write on the one socket.
WireWellFramed ==
  \A i \in 1..Len(wire) :
    wire[i][2] = "head" => (i = Len(wire) \/ wire[i + 1] = <<wire[i][1], "tail">>)

\* A msgid registered in future_list_ is eventually erased, also when its
\* caller has timed out and left: the late reply, or the read error's
\* set_all_error, removes it.  The premise excludes the frames that two
\* fibers' writes split (WireWellFramed), which the upstream cannot
\* decode and never answers.  About the timed-out futures that getRsp
\* leaves registered (FibpClientFuture), set_response's erase and the
\* read-failure paths of both clients.
RegisteredIdRemoved ==
  []WireWellFramed => \A i \in Ids : (i \in flist ~> i \notin flist)

-----------------------------------------------------------------------------
(* Refinement of the caller-facing promise.                               *)

\* A caller is busy from send_request until get_response returns; the
\* connection, the reader and the wire have no counterpart.
Abstract == INSTANCE RpcCall
  WITH st <- [c \in Callers |-> IF pc[c] = "idle" THEN "idle" ELSE "busy"]

\* Every behaviour of the client is one of RpcCall: fresh msgids, a future
\* completed at most once and only by the reply to its own msgid or by the
\* read error, and every call returning what its future holds (or a
\* timeout or send failure).  About set_response, set_all_error, the
\* send_request failure paths and getRsp's reading of the future.
RpcCallRefined == Abstract!Spec

=============================================================================
