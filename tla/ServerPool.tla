----------------------------- MODULE ServerPool -----------------------------
(***************************************************************************)
(* The reactor pool of a front-end server and the loop that runs it:      *)
(* io_service_pool and AsyncMultiIOServicesServer (fiber-server/          *)
(* AsyncMultiIOServicesServer.h) under FiberHttpServerV2::run and ::stop  *)
(* (FiberHttpServerV2.cpp; FiberDriverServerV2.cpp is the same code).     *)
(*                                                                         *)
(* The pool has one io_service per reactor thread (none when io_pool_size *)
(* is 1 or less) and a main io_service for the acceptor, each kept alive  *)
(* by a work object, so io_service::run returns only once the service is *)
(* stopped.  FibpProcess::run starts the server's run() in a thread of    *)
(* server_group: it clears normal_stop_, opens the acceptor, and loops on *)
(* io_service_pool::run, which starts one thread per io_service and joins *)
(* them.  When run returns, the loop ends if normal_stop_ is set and      *)
(* otherwise resets the stopped services and runs them again; an          *)
(* exception out of run (thread creation failing) also resets and loops.  *)
(* stop(), called by the exit hook FibpProcess::stopConnectionServer on   *)
(* the signal thread, sets normal_stop_ and stops every io_service.       *)
(*                                                                         *)
(* The acceptor runs on the main io_service: each accepted connection is  *)
(* posted to the io_service get_io_service chose for it, round robin.    *)
(* A connection is counted, not modelled (FrontConnection is one).        *)
(***************************************************************************)
EXTENDS Naturals, FiniteSets

CONSTANTS
  PoolSize,    \* io_pool_size, the threadnum of the configuration
  MaxConns,    \* bound on connections posted to one io_service
  MaxThrows    \* bound on exceptions out of io_service_pool::run

ASSUME PoolSize \in Nat /\ MaxConns \in Nat /\ MaxThrows \in Nat

\* io_services_ (empty when pool_size <= 1), and main_io_service_ as the
\* index after them, in the order run() creates their threads.
Workers == IF PoolSize <= 1 THEN {} ELSE 0..(PoolSize - 1)
Main == PoolSize
IOs == Workers \cup {Main}

VARIABLES
  stopped,     \* io_service::stopped() of each io_service
  threads,     \* threads inside io_service::run of each io_service
  group,       \* io_services whose thread of the current thread_group runs
  pc,          \* where the server thread is in FiberHttpServerV2::run
  normal_stop, \* normal_stop_
  hook,        \* the exit hook has called stop()
  throws,      \* exceptions out of io_service_pool::run so far
  next,        \* next_io_service_
  accepting,   \* the acceptor: "closed", "pending" (async_accept) or "dead"
  newIo,       \* the io_service of newConnection_
  conns        \* connections posted to each io_service

vars == <<stopped, threads, group, pc, normal_stop, hook, throws, next,
          accepting, newIo, conns>>

PCs == {"start", "run", "join", "returned", "caught", "exited"}

TypeOK ==
  /\ stopped \in [IOs -> BOOLEAN]
  /\ threads \in [IOs -> 0..(MaxThrows + 2)]
  /\ group \subseteq IOs
  /\ pc \in PCs
  /\ normal_stop \in BOOLEAN /\ hook \in BOOLEAN
  /\ throws \in 0..MaxThrows
  /\ next \in Nat
  /\ accepting \in {"closed", "pending", "dead"}
  /\ newIo \in IOs
  /\ conns \in [IOs -> 0..MaxConns]

\* The io_service_pool constructor: nothing runs yet.  normal_stop_ is a
\* member that run() assigns before reading it.
Init ==
  /\ stopped = [io \in IOs |-> FALSE]
  /\ threads = [io \in IOs |-> 0]
  /\ group = {}
  /\ pc = "start"
  /\ normal_stop \in BOOLEAN
  /\ hook = FALSE
  /\ throws = 0
  /\ next = 0
  /\ accepting = "closed"
  /\ newIo = Main
  /\ conns = [io \in IOs |-> 0]

\* get_io_service: the main io_service when there is no pool, otherwise
\* io_services_[++next_io_service_ % size].
GetIoService ==
  IF Workers = {}
  THEN newIo' = Main /\ next' = next
  ELSE newIo' = (next + 1) % PoolSize /\ next' = next + 1

\* asyncAccept: a new connection on the next io_service, then async_accept.
AsyncAccept == GetIoService /\ accepting' = "pending"

\* io_service_pool::reset: every stopped io_service is reset.
Reset == stopped' = [io \in IOs |-> FALSE]

-----------------------------------------------------------------------------
(* The server thread.                                                      *)

\* FiberHttpServerV2::run up to the loop: normal_stop_ = false, then init()
\* (listen, asyncAccept).
RunStart ==
  /\ pc = "start"
  /\ normal_stop' = FALSE
  /\ AsyncAccept
  /\ pc' = "run"
  /\ UNCHANGED <<stopped, threads, group, hook, throws, conns>>

\* io_service_pool::run.  Without a pool the server thread runs the main
\* io_service itself.  Otherwise it creates the threads in order (the
\* workers, then main) and joins them; when creating the k-th fails the
\* exception leaves run and the threads already created go on, detached.
PoolRun ==
  /\ pc = "run"
  /\ \/ /\ threads' = [io \in IOs |-> threads[io] + 1]
        /\ group' = IOs
        /\ pc' = "join"
        /\ UNCHANGED throws
     \/ /\ Workers # {}
        /\ throws < MaxThrows
        /\ \E k \in 0..PoolSize :
             threads' = [io \in IOs |-> IF io < k THEN threads[io] + 1
                                                   ELSE threads[io]]
        /\ group' = {}
        /\ throws' = throws + 1
        /\ pc' = "caught"
  /\ UNCHANGED <<stopped, normal_stop, hook, next, accepting, newIo, conns>>

\* join_all has returned: every thread of the group left io_service::run.
Joined ==
  /\ pc = "join"
  /\ group = {}
  /\ pc' = "returned"
  /\ UNCHANGED <<stopped, threads, group, normal_stop, hook, throws, next,
                 accepting, newIo, conns>>

\* After run returns: break on normal_stop_, otherwise reset and loop.
Returned ==
  /\ pc = "returned"
  /\ IF normal_stop
     THEN pc' = "exited" /\ UNCHANGED stopped
     ELSE pc' = "run" /\ Reset
  /\ UNCHANGED <<threads, group, normal_stop, hook, throws, next, accepting,
                 newIo, conns>>

\* The catch block: log, reset, loop.
Caught ==
  /\ pc = "caught"
  /\ Reset
  /\ pc' = "run"
  /\ UNCHANGED <<threads, group, normal_stop, hook, throws, next, accepting,
                 newIo, conns>>

-----------------------------------------------------------------------------
(* The reactor threads, the acceptor and the exit hook.                    *)

\* io_service::run returns in every thread of a stopped io_service.
ThreadsExit(io) ==
  /\ stopped[io] /\ threads[io] > 0
  /\ threads' = [threads EXCEPT ![io] = 0]
  /\ group' = group \ {io}
  /\ UNCHANGED <<stopped, pc, normal_stop, hook, throws, next, accepting,
                 newIo, conns>>

\* onAccept on the main io_service.  Without an error the connection is
\* posted to its io_service (runConnection) and asyncAccept runs again;
\* with one, onError calls the error handler, none is set, and no accept
\* is started again.
OnAccept ==
  /\ accepting = "pending"
  /\ threads[Main] > 0 /\ ~stopped[Main]
  /\ \/ /\ conns[newIo] < MaxConns
        /\ conns' = [conns EXCEPT ![newIo] = @ + 1]
        /\ AsyncAccept
     \/ /\ accepting' = "dead"
        /\ UNCHANGED <<conns, next, newIo>>
  /\ UNCHANGED <<stopped, threads, group, pc, normal_stop, hook, throws>>

\* FiberHttpServerV2::stop from the exit hook: normal_stop_ = true, then
\* io_service_pool::stop stops every io_service.
Stop ==
  /\ ~hook
  /\ hook' = TRUE
  /\ normal_stop' = TRUE
  /\ stopped' = [io \in IOs |-> TRUE]
  /\ UNCHANGED <<threads, group, pc, throws, next, accepting, newIo, conns>>

Next ==
  \/ RunStart \/ PoolRun \/ Joined \/ Returned \/ Caught
  \/ \E io \in IOs : ThreadsExit(io)
  \/ OnAccept \/ Stop

\* The server thread and the reactor threads are OS threads; the exit
\* hook and the clients are not bound to act.
Fairness ==
  /\ WF_vars(RunStart) /\ WF_vars(PoolRun) /\ WF_vars(Joined)
  /\ WF_vars(Returned) /\ WF_vars(Caught)
  /\ \A io \in IOs : WF_vars(ThreadsExit(io))

Spec == Init /\ [][Next]_vars /\ Fairness

-----------------------------------------------------------------------------
(* Properties.                                                             *)

\* Once the exit hook has called stop(), FiberHttpServerV2::run returns,
\* so that FibpProcess::run's server_group.join_all returns and the
\* process exits.  stop() only sets a flag and stops the io_services:
\* it relies on the run loop seeing both, and a reset() in the loop
\* (after a run that started before the flag was cleared, or in the
\* catch block) undoes the stop.
StopEnds == hook ~> pc = "exited"

=============================================================================
