------------------------------ MODULE PortRelay ------------------------------
(***************************************************************************)
(* One accepted connection of a port-forward listener                      *)
(* (fiber-server/FibpPortForwardConnection.cpp, run by PortForwardServer   *)
(* through AsyncMultiIOServicesServer::runConnection, whose detached fiber *)
(* holds the only shared_ptr to the connection).                           *)
(*                                                                         *)
(* The up fiber is PortForwardConnection::start: chain_forward_connection *)
(* calls FibpPortForwardMgr::create_forward_connection, which looks the    *)
(* listening port up in forward_service_list_, makes up to two connect    *)
(* attempts (retry = 3; while (--retry > 0)) with no connect timeout       *)
(* (set_timeout(0, 0)), and on success spawns the detached down fiber     *)
(* handle_forward_rsp(client, boost::ref(socket_)).  The up fiber then     *)
(* copies client bytes to the upstream until a read or a write fails, and *)
(* ends with forward_client->shutdown(false) and shutdown(); when start()  *)
(* returns, the connection and its socket_ are destroyed.  The down fiber *)
(* copies upstream bytes to the client through its reference to socket_  *)
(* until a read or a write fails, then shuts the upstream's receive side  *)
(* and socket_'s receive side.                                             *)
(*                                                                         *)
(* Both fibers run on the connection's reactor thread; a step runs up to  *)
(* the next suspension point.  Bytes are counted in chunks (one           *)
(* async_read_some each); a socket whose receive side is shut still hands *)
(* out the bytes already queued, then reports end of file.                *)
(***************************************************************************)
EXTENDS Naturals

CONSTANTS
  MaxChunks   \* chunks the client sends; the upstream answers one per chunk

ASSUME MaxChunks \in Nat \ {0}

\* retry = 3; while (--retry > 0): two connect attempts.
ConnectTries == 2

UpPcs   == {"chain", "read", "write", "exit", "done"}
DnPcs   == {"none", "read", "write", "exit", "done"}
USocks  == {"none", "open", "rdshut", "closed"}

VARIABLES
  csent,     \* chunks the client has sent
  cin,       \* chunks queued on socket_ for the up fiber
  cfin,      \* the client has shut its sending side
  crst,      \* the client has reset the connection
  up,        \* the up fiber (start)
  tries,     \* connect attempts made by create_forward_connection
  usock,     \* forward_client->socket_
  srv,       \* chunks the upstream has received
  rsent,     \* chunks the upstream has sent
  rin,       \* chunks queued on the upstream socket for the down fiber
  ufin,      \* the upstream has shut its sending side
  dn,        \* the down fiber (handle_forward_rsp)
  srcShut,   \* socket_'s receive side has been shut
  alive,     \* the PortForwardConnection (and socket_) still exists
  delivered  \* chunks written back to the client

vars == <<csent, cin, cfin, crst, up, tries, usock, srv, rsent, rin, ufin,
          dn, srcShut, alive, delivered>>

TypeOK ==
  /\ csent \in 0..MaxChunks /\ cin \in 0..MaxChunks
  /\ cfin \in BOOLEAN /\ crst \in BOOLEAN
  /\ up \in UpPcs /\ tries \in 0..ConnectTries /\ usock \in USocks
  /\ srv \in 0..MaxChunks /\ rsent \in 0..MaxChunks /\ rin \in 0..MaxChunks
  /\ ufin \in BOOLEAN /\ dn \in DnPcs
  /\ srcShut \in BOOLEAN /\ alive \in BOOLEAN
  /\ delivered \in 0..MaxChunks

\* The connection is accepted and start() runs in its fiber.
Init ==
  /\ csent = 0 /\ cin = 0 /\ cfin = FALSE /\ crst = FALSE
  /\ up = "chain" /\ tries = 0 /\ usock = "none"
  /\ srv = 0 /\ rsent = 0 /\ rin = 0 /\ ufin = FALSE
  /\ dn = "none" /\ srcShut = FALSE /\ alive = TRUE /\ delivered = 0

-----------------------------------------------------------------------------
(* The peers.                                                              *)

ClientSend ==
  /\ alive /\ ~cfin /\ ~crst /\ csent < MaxChunks
  /\ csent' = csent + 1 /\ cin' = cin + 1
  /\ UNCHANGED <<cfin, crst, up, tries, usock, srv, rsent, rin, ufin, dn,
                 srcShut, alive, delivered>>

ClientFin ==
  /\ ~cfin /\ ~crst
  /\ cfin' = TRUE
  /\ UNCHANGED <<csent, cin, crst, up, tries, usock, srv, rsent, rin, ufin,
                 dn, srcShut, alive, delivered>>

\* A reset discards what socket_ has queued.
ClientReset ==
  /\ alive /\ ~crst
  /\ crst' = TRUE /\ cin' = 0
  /\ UNCHANGED <<csent, cfin, up, tries, usock, srv, rsent, rin, ufin, dn,
                 srcShut, alive, delivered>>

UpstreamReply ==
  /\ usock \in {"open", "rdshut"} /\ ~ufin /\ rsent < srv
  /\ rsent' = rsent + 1 /\ rin' = rin + 1
  /\ UNCHANGED <<csent, cin, cfin, crst, up, tries, usock, srv, ufin, dn,
                 srcShut, alive, delivered>>

UpstreamFin ==
  /\ usock \in {"open", "rdshut"} /\ ~ufin
  /\ ufin' = TRUE
  /\ UNCHANGED <<csent, cin, cfin, crst, up, tries, usock, srv, rsent, rin,
                 dn, srcShut, alive, delivered>>

-----------------------------------------------------------------------------
(* The up fiber.                                                           *)

\* ClientSession::shutdown(false): shut the receive side; on a socket the
\* down fiber has already closed it throws and close() leaves it closed.
ShutUpstream == usock' = IF usock = "open" THEN "rdshut" ELSE usock

\* start() returns: the fiber's bound shared_ptr was the last one.
StartReturns ==
  /\ srcShut' = TRUE /\ up' = "done" /\ alive' = FALSE

\* No forward_client: the port has no forward entry or its service no
\* machine (not_supported), or the last connect attempt failed.
ChainFail ==
  /\ up = "chain"
  /\ StartReturns
  /\ UNCHANGED <<csent, cin, cfin, crst, tries, usock, srv, rsent, rin, ufin,
                 dn, delivered>>

\* async_connect fails and the loop tries the next host.
ChainConnectRetry ==
  /\ up = "chain" /\ tries + 1 < ConnectTries
  /\ tries' = tries + 1
  /\ UNCHANGED <<csent, cin, cfin, crst, up, usock, srv, rsent, rin, ufin,
                 dn, srcShut, alive, delivered>>

\* async_connect succeeds: the down fiber is spawned and detached.
ChainConnect ==
  /\ up = "chain"
  /\ usock' = "open" /\ dn' = "read" /\ up' = "read"
  /\ UNCHANGED <<csent, cin, cfin, crst, tries, srv, rsent, rin, ufin,
                 srcShut, alive, delivered>>

UpReadEofFirst ==
  /\ up = "read"
  /\ \/ /\ cin > 0 /\ ~crst /\ ~cfin
        /\ cin' = cin - 1 /\ up' = "write"
     \/ /\ crst \/ cfin \/ (cin = 0 /\ srcShut)
        /\ up' = "exit" /\ UNCHANGED cin
  /\ UNCHANGED <<csent, cfin, crst, tries, usock, srv, rsent, rin, ufin, dn,
                 srcShut, alive, delivered>>

\* socket_.async_read_some: a chunk, or end of file once the queue is
\* empty and the client or the down fiber shut the stream, or the reset.
UpRead ==
  /\ up = "read"
  /\ \/ /\ cin > 0 /\ ~crst
        /\ cin' = cin - 1 /\ up' = "write"
     \/ /\ crst \/ (cin = 0 /\ (cfin \/ srcShut))
        /\ up' = "exit" /\ UNCHANGED cin
  /\ UNCHANGED <<csent, cfin, crst, tries, usock, srv, rsent, rin, ufin, dn,
                 srcShut, alive, delivered>>

\* forward_data: async_write to the upstream; it fails once the down
\* fiber has closed the upstream socket.
UpWrite ==
  /\ up = "write"
  /\ \/ /\ usock \in {"open", "rdshut"}
        /\ srv' = srv + 1 /\ up' = "read"
     \/ /\ usock = "closed"
        /\ up' = "exit" /\ UNCHANGED srv
  /\ UNCHANGED <<csent, cin, cfin, crst, tries, usock, rsent, rin, ufin, dn,
                 srcShut, alive, delivered>>

\* After the loop: forward_client->shutdown(false); shutdown(); return.
UpExit ==
  /\ up = "exit"
  /\ ShutUpstream /\ StartReturns
  /\ UNCHANGED <<csent, cin, cfin, crst, tries, srv, rsent, rin, ufin, dn,
                 delivered>>

-----------------------------------------------------------------------------
(* The down fiber.                                                         *)

DnReadEofFirst ==
  /\ dn = "read"
  /\ \/ /\ rin > 0 /\ ~ufin
        /\ rin' = rin - 1 /\ dn' = "write" /\ UNCHANGED usock
     \/ /\ ufin \/ (rin = 0 /\ usock = "rdshut")
        /\ usock' = "closed" /\ dn' = "exit" /\ UNCHANGED rin
  /\ UNCHANGED <<csent, cin, cfin, crst, up, tries, srv, rsent, ufin,
                 srcShut, alive, delivered>>

\* ClientSession::async_read_some with read_to_ = 0 ending at end of
\* file: shutdown(true) shuts the receive side and closes the socket.
SessionReadEof == usock' = "closed"

\* handle_forward_rsp reads a chunk, or stops at end of file.
DnRead ==
  /\ dn = "read"
  /\ \/ /\ rin > 0
        /\ rin' = rin - 1 /\ dn' = "write" /\ UNCHANGED usock
     \/ /\ rin = 0 /\ (ufin \/ usock = "rdshut")
        /\ SessionReadEof /\ dn' = "exit" /\ UNCHANGED rin
  /\ UNCHANGED <<csent, cin, cfin, crst, up, tries, srv, rsent, ufin,
                 srcShut, alive, delivered>>

\* async_write(src_socket): fails on a reset client, and on a socket_
\* whose connection is gone (its destructor aborted the write).
DnWrite ==
  /\ dn = "write"
  /\ \/ /\ alive /\ ~crst
        /\ delivered' = delivered + 1 /\ dn' = "read"
     \/ /\ crst \/ ~alive
        /\ dn' = "exit" /\ UNCHANGED delivered
  /\ UNCHANGED <<csent, cin, cfin, crst, up, tries, usock, srv, rsent, rin,
                 ufin, srcShut, alive>>

DnExitNoSrcShut ==
  /\ dn = "exit"
  /\ ShutUpstream /\ dn' = "done"
  /\ UNCHANGED <<csent, cin, cfin, crst, up, tries, srv, rsent, rin, ufin,
                 srcShut, alive, delivered>>

\* client->shutdown(false); src_socket.shutdown(shutdown_receive, ec).
DnExit ==
  /\ dn = "exit"
  /\ ShutUpstream /\ srcShut' = TRUE /\ dn' = "done"
  /\ UNCHANGED <<csent, cin, cfin, crst, up, tries, srv, rsent, rin, ufin,
                 alive, delivered>>

Finished == up = "done" /\ dn \in {"none", "done"}

Next ==
  \/ ClientSend \/ ClientFin \/ ClientReset
  \/ UpstreamReply \/ UpstreamFin
  \/ ChainFail \/ ChainConnectRetry \/ ChainConnect
  \/ UpRead \/ UpWrite \/ UpExit
  \/ DnRead \/ DnWrite \/ DnExit
  \/ Finished /\ UNCHANGED vars

\* The fibers are resumed by the reactor whenever their operation can
\* complete; the client and the upstream are free to do nothing.
Fairness ==
  /\ WF_vars(ChainFail) /\ WF_vars(ChainConnect)
  /\ WF_vars(UpRead) /\ WF_vars(UpWrite) /\ WF_vars(UpExit)
  /\ WF_vars(DnRead) /\ WF_vars(DnWrite) /\ WF_vars(DnExit)

Spec == Init /\ [][Next]_vars /\ Fairness

-----------------------------------------------------------------------------
(* Properties.                                                             *)

\* Memory safety of handle_forward_rsp: whenever the down fiber is about to
\* touch src_socket (its write back to the client, or the final
\* src_socket.shutdown), the PortForwardConnection that owns that socket
\* still exists.
SrcSocketAlive == dn \in {"write", "exit"} => alive

\* Once either peer closes or resets, both fibers of the relay finish:
\* the up fiber's exit shuts the upstream's receive side, which ends the
\* down fiber's read, and the down fiber's exit shuts socket_'s receive
\* side, which ends the up fiber's read, whichever side closes first.
RelayEnds == (cfin \/ crst \/ ufin) ~> Finished

\* handle_forward_rsp forwards the whole response: while the client keeps
\* its connection open, every chunk the upstream sent before closing is
\* written back to the client before the relay stops.
ResponsesRelayed ==
  [](~cfin /\ ~crst) => (ufin ~> delivered = rsent)

\* start() forwards the whole request stream: while the upstream keeps its
\* side open, every chunk the client sent before closing reaches the
\* upstream once the forward connection is up.
RequestsRelayed ==
  [](~ufin /\ ~crst) => ((cfin /\ usock # "none") ~> srv = csent)

====
