----------------------------- MODULE FiberPool -----------------------------
(***************************************************************************)
(* The per-thread fiber pool of the forward manager                        *)
(* (fiber-server/FiberPool.hpp, used through                               *)
(* FibpForwardManager::post_to_fiber_pool), with the batch requests that   *)
(* run on it.                                                              *)
(*                                                                         *)
(* The pool is created empty.  schedule_task_from_fiber appends a task to *)
(* fiber_task_list_ and, on the first call, creates GROW_SIZE worker       *)
(* fibers; later it doubles the pool whenever running_fiber_num_ >=        *)
(* fiber_pool_.size() - 1, unless the size is already above MAX_GROW_SIZE. *)
(* A worker (run_fiber) pops the head of the list and runs it, counting    *)
(* itself in running_fiber_num_ while it does.  On an empty list it waits  *)
(* on the fiber condition cond_ (boost/fiber/condition.hpp), which puts it *)
(* in waiting_ until the notify_one of a later push moves it to the        *)
(* thread's ready queue; a notify_one with nobody in waiting_ is lost.     *)
(* Workers are identical, so they are counted: waiting on cond_, ready     *)
(* (created or notified, not yet resumed) and running a task.             *)
(*                                                                         *)
(* A batch request is posted from a handler fiber outside the pool.  Its   *)
(* task (call_services_in_fiber with two or more rows) pushes one row task *)
(* per call and then waits on a condition until call_num is 0, keeping its *)
(* worker fiber.  A row task (the call_single_service wrapper) makes the   *)
(* upstream call, decrements call_num and notifies.  All fibers are of one *)
(* thread and run cooperatively, so each step below runs without           *)
(* interruption up to the next suspension point.                           *)
(***************************************************************************)
EXTENDS Naturals, Sequences

CONSTANTS
  Batches,        \* batch requests posted to the pool
  Rows,           \* calls per batch request (call_api_list.size() >= 2)
  GROW_SIZE,      \* FiberPool::GROW_SIZE
  MAX_GROW_SIZE   \* FiberPool::MAX_GROW_SIZE

ASSUME Rows \in Nat /\ Rows >= 2
ASSUME GROW_SIZE \in Nat \ {0} /\ MAX_GROW_SIZE \in Nat

RowIdx == 1..Rows

BatchTask(b)  == [kind |-> "batch", b |-> b, r |-> 0]
RowTask(b, r) == [kind |-> "row", b |-> b, r |-> r]
Tasks == {BatchTask(b) : b \in Batches} \cup {RowTask(b, r) : b \in Batches, r \in RowIdx}

VARIABLES
  size,      \* fiber_pool_.size(): worker fibers created
  running,   \* running_fiber_num_
  waiting,   \* workers in cond_.waiting_
  ready,     \* workers created or notified that have not run since
  queue,     \* fiber_task_list_
  bst,       \* each batch request: "idle", "queued", "pushing", "done"
  pushed,    \* row tasks a running batch has pushed so far
  callNum,   \* the batch's call_num
  rst        \* each row task: "none", "queued", "running", "done"

vars == <<size, running, waiting, ready, queue, bst, pushed, callNum, rst>>

TypeOK ==
  /\ size \in Nat
  /\ running \in Nat
  /\ waiting \in Nat
  /\ ready \in Nat
  /\ queue \in Seq(Tasks)
  /\ bst \in [Batches -> {"idle", "queued", "pushing", "done"}]
  /\ pushed \in [Batches -> 0..Rows]
  /\ callNum \in [Batches -> 0..Rows]
  /\ rst \in [Batches -> [RowIdx -> {"none", "queued", "running", "done"}]]

Init ==
  /\ size = 0
  /\ running = 0
  /\ waiting = 0
  /\ ready = 0
  /\ queue = <<>>
  /\ bst = [b \in Batches |-> "idle"]
  /\ pushed = [b \in Batches |-> 0]
  /\ callNum = [b \in Batches |-> 0]
  /\ rst = [b \in Batches |-> [r \in RowIdx |-> "none"]]

-----------------------------------------------------------------------------
(* schedule_task_from_fiber.                                               *)

\* The pool size after a push: GROW_SIZE fibers on the first push; doubled
\* when at most one worker is idle, but not grown once the size exceeds
\* MAX_GROW_SIZE.  size_t arithmetic: the first branch keeps size - 1 from
\* wrapping.
PoolSizeAfterPushInitOnly(sz, run) ==
  IF sz = 0 THEN GROW_SIZE ELSE sz

PoolSizeAfterPush(sz, run) ==
  IF sz = 0 THEN GROW_SIZE
  ELSE IF run >= sz - 1
       THEN sz + (IF sz > MAX_GROW_SIZE THEN 0 ELSE sz)
       ELSE sz

\* Mutant: the push does not notify cond_.
ScheduleTaskFromFiberNoNotify(t) ==
  /\ queue' = Append(queue, t)
  /\ size' = PoolSizeAfterPush(size, running)
  /\ ready' = ready + (size' - size)
  /\ UNCHANGED waiting

\* Append the task, grow (the new fibers are ready to run), and
\* cond_.notify_one(): the first fiber of waiting_, if any, becomes ready.
\* The yield that follows ends the step.
ScheduleTaskFromFiber(t) ==
  /\ queue' = Append(queue, t)
  /\ size' = PoolSizeAfterPush(size, running)
  /\ LET woken == IF waiting > 0 THEN 1 ELSE 0 IN
       /\ waiting' = waiting - woken
       /\ ready' = ready + (size' - size) + woken

\* post_to_fiber_pool from the handler fiber, which is not a pool worker.
PostBatch(b) ==
  /\ bst[b] = "idle"
  /\ bst' = [bst EXCEPT ![b] = "queued"]
  /\ ScheduleTaskFromFiber(BatchTask(b))
  /\ UNCHANGED <<running, pushed, callNum, rst>>

-----------------------------------------------------------------------------
(* run_fiber.                                                              *)

\* condition::wait from a fiber: push it on waiting_, unlock task_lock_
\* and suspend until a notify.
CondWait == waiting' = waiting + 1

\* Mutant: the task is taken without ++running_fiber_num_.
RunFiberLoopUncounted(bs, cn, rs, run) ==
  IF queue = <<>>
  THEN /\ CondWait /\ running' = run
       /\ bst' = bs /\ callNum' = cn /\ rst' = rs /\ UNCHANGED queue
  ELSE LET t == Head(queue) IN
       /\ queue' = Tail(queue) /\ running' = run /\ UNCHANGED waiting
       /\ bst' = IF t.kind = "batch" THEN [bs EXCEPT ![t.b] = "pushing"] ELSE bs
       /\ callNum' = IF t.kind = "batch" THEN [cn EXCEPT ![t.b] = Rows] ELSE cn
       /\ rst' = IF t.kind = "row" THEN [rs EXCEPT ![t.b][t.r] = "running"] ELSE rs

\* One turn of run_fiber's loop, from a fiber that has just been resumed
\* or has just finished a task (bs, cn, rs and run being the state that
\* task left): under task_lock_ (never contended, nobody suspends holding
\* it), wait on cond_ while fiber_task_list_ is empty, else pop its head
\* and run it, counted in running_fiber_num_.  A batch task starts with
\* call_num = call_api_list.size(); a row task starts its upstream call.
RunFiberLoop(bs, cn, rs, run) ==
  IF queue = <<>>
  THEN /\ CondWait /\ running' = run
       /\ bst' = bs /\ callNum' = cn /\ rst' = rs /\ UNCHANGED queue
  ELSE LET t == Head(queue) IN
       /\ queue' = Tail(queue) /\ running' = run + 1 /\ UNCHANGED waiting
       /\ bst' = IF t.kind = "batch" THEN [bs EXCEPT ![t.b] = "pushing"] ELSE bs
       /\ callNum' = IF t.kind = "batch" THEN [cn EXCEPT ![t.b] = Rows] ELSE cn
       /\ rst' = IF t.kind = "row" THEN [rs EXCEPT ![t.b][t.r] = "running"] ELSE rs

\* A ready worker is resumed: a new fiber enters run_fiber, a notified one
\* returns from cond_.wait (need_stop_ is never set while the pool runs).
WorkerResumes ==
  /\ ready > 0
  /\ ready' = ready - 1
  /\ RunFiberLoop(bst, callNum, rst, running)
  /\ UNCHANGED <<size, pushed>>

-----------------------------------------------------------------------------
(* call_services_in_fiber with two or more rows, running on a worker.      *)

\* One turn of the scheduling loop: push the next row task.
PushRow(b) ==
  /\ bst[b] = "pushing"
  /\ pushed[b] < Rows
  /\ pushed' = [pushed EXCEPT ![b] = pushed[b] + 1]
  /\ rst' = [rst EXCEPT ![b][pushed[b] + 1] = "queued"]
  /\ ScheduleTaskFromFiber(RowTask(b, pushed[b] + 1))
  /\ UNCHANGED <<running, bst, callNum>>

\* while (call_num > 0) cond.wait(guard) has returned: the rest of the
\* request (transaction step, callback) runs and the task returns; the
\* worker leaves running_fiber_num_ and goes round run_fiber's loop.
BatchResume(b) ==
  /\ bst[b] = "pushing"
  /\ pushed[b] = Rows
  /\ callNum[b] = 0
  /\ RunFiberLoop([bst EXCEPT ![b] = "done"], callNum, rst, running - 1)
  /\ UNCHANGED <<size, ready, pushed>>

\* The call_single_service wrapper: the upstream call returns (every client
\* wait has a deadline), then --call_num and notify_all at zero; the
\* worker goes round run_fiber's loop.
RowDone(b, r) ==
  /\ rst[b][r] = "running"
  /\ RunFiberLoop(bst, [callNum EXCEPT ![b] = callNum[b] - 1],
                   [rst EXCEPT ![b][r] = "done"], running - 1)
  /\ UNCHANGED <<size, ready, pushed>>

\* Every posted batch has been answered: no step left in the model.
Finished ==
  /\ \A b \in Batches : bst[b] = "done"
  /\ UNCHANGED vars

-----------------------------------------------------------------------------
Next ==
  \/ \E b \in Batches : PostBatch(b) \/ PushRow(b) \/ BatchResume(b)
  \/ WorkerResumes
  \/ \E b \in Batches, r \in RowIdx : RowDone(b, r)
  \/ Finished

\* The fibers of a thread are scheduled round-robin, so a ready worker is
\* resumed and a task that can go on does so; a worker in cond_.waiting_
\* only moves on a notify.  Posting is not forced:
\* requests arrive when clients send them.
Fairness ==
  /\ WF_vars(WorkerResumes)
  /\ \A b \in Batches : WF_vars(PushRow(b)) /\ WF_vars(BatchResume(b))
  /\ \A b \in Batches, r \in RowIdx : WF_vars(RowDone(b, r))

Spec == Init /\ [][Next]_vars /\ Fairness

-----------------------------------------------------------------------------
(* Properties.                                                             *)

\* Every batch request posted to the pool is eventually answered: its row
\* tasks find a worker although each running batch holds one while it
\* waits for them.  About the growth rule of schedule_task_from_fiber
\* (running_fiber_num_ >= size - 1) against the nested wait of
\* call_services_in_fiber.
AllBatchesAnswered ==
  \A b \in Batches : bst[b] = "queued" ~> bst[b] = "done"

\* No worker sleeps in cond_.waiting_ while fiber_task_list_ holds more
\* tasks than there are fibers about to look at it: every task pushed
\* while workers wait has its own ready fiber, so no notify_one is lost
\* and no queued row is left to wait for a worker that only a later push
\* would wake.  About schedule_task_from_fiber's notify_one against
\* run_fiber's empty-list wait, the workers that finish a task and go
\* round the loop, and the new fibers of a growth that have not yet run.
NoLostWakeup ==
  waiting > 0 => Len(queue) <= ready

=============================================================================
