------------------------------ MODULE LogRing ------------------------------
(***************************************************************************)
(* The call-log ring of FibpLogger (log-manager/FibpLogger.cpp) and the    *)
(* request handlers that fill it.                                          *)
(*                                                                         *)
(* Every front-end request takes an id with startServiceCall (++ on the    *)
(* atomic auto_inc_id_) and records it in slot id % MAX_LOG_NUM of         *)
(* logged_call_list_, unless that slot still holds an unsent record, in   *)
(* which case it gets id 0 and is not logged.  When the request has been  *)
(* answered the handler calls endServiceCall(id), which sets the slot's   *)
(* wait_send flag.  The drain fiber sendLogToDB walks the ring in id       *)
(* order from next_send = 1: while the slot of next_send has wait_send it *)
(* takes the record (or drops it when the producers are N/2 or more       *)
(* ahead), resets the slot and moves on; at the first slot without        *)
(* wait_send it ships the batch (at most MAX_LOG_SEND_NUM records) and    *)
(* sleeps before looking again.                                            *)
(*                                                                         *)
(* Requests run on the reactor threads and the drain on its own thread;   *)
(* each step below is one of the accesses to the shared ring.  A request  *)
(* is identified by the id startServiceCall handed it: the i-th start     *)
(* gets myid = i.  Timestamps, sub-records and the JSON batch are left    *)
(* out: a record is the id it carries.                                     *)
(***************************************************************************)
EXTENDS Naturals, Sequences, FiniteSets

CONSTANTS
  N,        \* MAX_LOG_NUM, the ring size
  Batch,    \* MAX_LOG_SEND_NUM, records per shipped batch
  MaxId,    \* bound on startServiceCall calls
  SkipEnd   \* TRUE: handlers with the early returns that skip endServiceCall

ASSUME N \in Nat \ {0} /\ Batch \in Nat \ {0} /\ MaxId \in Nat \ {0}
ASSUME SkipEnd \in BOOLEAN

Ids == 1..MaxId
Slots == 0..(N - 1)

VARIABLES
  auto,     \* auto_inc_id_
  slot,     \* logged_call_list_: [wait |-> wait_send, id |-> id] per slot
  call,     \* each request: its step and the id startServiceCall returned
  next,     \* sendLogToDB's next_send
  cnt,      \* records taken into the current batch
  sent,     \* ids of the records shipped, in shipping order
  dropped   \* ids of the records the drain dropped as too far behind

vars == <<auto, slot, call, next, cnt, sent, dropped>>

CallStates == {"none", "running", "ended", "abandoned"}

EmptySlot == [wait |-> FALSE, id |-> 0]

TypeOK ==
  /\ auto \in 0..MaxId
  /\ slot \in [Slots -> [wait : BOOLEAN, id : 0..MaxId]]
  /\ call \in [Ids -> [st : CallStates, id : 0..MaxId]]
  /\ next \in 1..(MaxId + 1)
  /\ cnt \in 0..Batch
  /\ sent \in Seq(0..MaxId)
  /\ dropped \subseteq 0..MaxId

Init ==
  /\ auto = 0
  /\ slot = [s \in Slots |-> EmptySlot]
  /\ call = [i \in Ids |-> [st |-> "none", id |-> 0]]
  /\ next = 1
  /\ cnt = 0
  /\ sent = <<>>
  /\ dropped = {}

-----------------------------------------------------------------------------
(* Request handlers.                                                       *)

\* startServiceCall: myid = ++auto_inc_id_; the slot is refused (id 0) when
\* it is waiting to be sent or still owned by an earlier id.  The check and
\* the write of l.id are taken as one step (see README: the window between
\* them only matters for two starts whose ids are exactly N apart).
StartServiceCallUnbounded ==
  LET myid == auto + 1
      l    == slot[myid % N]
  IN  /\ auto' = myid
      /\ IF l.wait \/ l.id # 0
         THEN /\ call' = [call EXCEPT ![myid] = [st |-> "running", id |-> 0]]
              /\ UNCHANGED slot
         ELSE /\ slot' = [slot EXCEPT ![myid % N].id = myid]
              /\ call' = [call EXCEPT ![myid] = [st |-> "running", id |-> myid]]
      /\ UNCHANGED <<next, cnt, sent, dropped>>

StartServiceCall ==
  /\ auto < MaxId
  /\ StartServiceCallUnbounded

\* endServiceCall(id), reached from after_call_single_service,
\* after_call_services, rpc_callback and rpc_single_service_callback once
\* the forward manager has answered: ignored for id 0, otherwise the slot's
\* wait_send is set.
EndServiceCallNext(i) ==
  /\ call[i].st = "running"
  /\ call' = [call EXCEPT ![i].st = "ended"]
  /\ IF call[i].id = 0
     THEN UNCHANGED slot
     ELSE slot' = [slot EXCEPT ![(call[i].id + 1) % N].wait = TRUE]
  /\ UNCHANGED <<auto, next, cnt, sent, dropped>>

EndServiceCall(i) ==
  /\ call[i].st = "running"
  /\ call' = [call EXCEPT ![i].st = "ended"]
  /\ IF call[i].id = 0
     THEN UNCHANGED slot
     ELSE slot' = [slot EXCEPT ![call[i].id % N].wait = TRUE]
  /\ UNCHANGED <<auto, next, cnt, sent, dropped>>

\* The handler leaves after startServiceCall without endServiceCall:
\* CommandsController's call_single_service_async and call_services_async
\* when the request does not parse, and FibpRpcServer::dispatch when
\* params().convert throws a type_error after the start.
AbandonCall(i) ==
  /\ SkipEnd
  /\ call[i].st = "running"
  /\ call' = [call EXCEPT ![i].st = "abandoned"]
  /\ UNCHANGED <<auto, slot, next, cnt, sent, dropped>>

-----------------------------------------------------------------------------
(* The drain fiber (sendLogToDB).                                          *)

\* One turn of the inner while loop: the slot of next_send has wait_send
\* and the batch is not full.  The record is taken when the producers are
\* less than N/2 ahead and dropped otherwise; either way the slot is reset
\* and next_send advances.
DrainSlotIfOwned ==
  LET l == slot[next % N]
  IN  /\ l.id # 0
      /\ cnt < Batch
      /\ next <= MaxId
      /\ IF auto - next < N \div 2
         THEN /\ sent' = Append(sent, l.id)
              /\ cnt' = cnt + 1
              /\ UNCHANGED dropped
         ELSE /\ dropped' = dropped \cup {l.id}
              /\ UNCHANGED <<sent, cnt>>
      /\ slot' = [slot EXCEPT ![next % N] = EmptySlot]
      /\ next' = next + 1
      /\ UNCHANGED <<auto, call>>

DrainSlotBatchOffByOne ==
  LET l == slot[next % N]
  IN  /\ l.wait
      /\ cnt <= Batch
      /\ next <= MaxId
      /\ IF auto - next < N \div 2
         THEN /\ sent' = Append(sent, l.id)
              /\ cnt' = cnt + 1
              /\ UNCHANGED dropped
         ELSE /\ dropped' = dropped \cup {l.id}
              /\ UNCHANGED <<sent, cnt>>
      /\ slot' = [slot EXCEPT ![next % N] = EmptySlot]
      /\ next' = next + 1
      /\ UNCHANGED <<auto, call>>

DrainSlot ==
  LET l == slot[next % N]
  IN  /\ l.wait
      /\ cnt < Batch
      /\ next <= MaxId
      /\ IF auto - next < N \div 2
         THEN /\ sent' = Append(sent, l.id)
              /\ cnt' = cnt + 1
              /\ UNCHANGED dropped
         ELSE /\ dropped' = dropped \cup {l.id}
              /\ UNCHANGED <<sent, cnt>>
      /\ slot' = [slot EXCEPT ![next % N] = EmptySlot]
      /\ next' = next + 1
      /\ UNCHANGED <<auto, call>>

\* The inner loop stops (the slot of next_send has no wait_send, or the
\* batch is full) with records taken: the batch is POSTed to the metrics
\* sink, whose failure is only logged, and a new batch starts.  With no
\* record taken the fiber sleeps a second, which changes nothing.
ShipBatchKeep ==
  /\ cnt > 0
  /\ ~slot[next % N].wait \/ cnt = Batch \/ next > MaxId
  /\ UNCHANGED vars

ShipBatch ==
  /\ cnt > 0
  /\ ~slot[next % N].wait \/ cnt = Batch \/ next > MaxId
  /\ cnt' = 0
  /\ UNCHANGED <<auto, slot, call, next, sent, dropped>>

\* Every id of the bound has been started and every request has finished
\* or been abandoned, and the drain has nothing it can take: the model has
\* no step left (not a state of the program, whose drain keeps polling).
Quiescent ==
  /\ auto = MaxId
  /\ \A i \in Ids : call[i].st # "running"
  /\ cnt = 0
  /\ ~(slot[next % N].wait /\ next <= MaxId)
  /\ UNCHANGED vars

-----------------------------------------------------------------------------
Next ==
  \/ StartServiceCall
  \/ \E i \in Ids : EndServiceCall(i) \/ AbandonCall(i)
  \/ DrainSlot
  \/ ShipBatch
  \/ Quiescent

\* The drain fiber loops forever on its own thread, and a started request
\* is always answered: the forward manager's retries are bounded and every
\* upstream wait has a deadline, so the callback that ends the call runs.
Fairness ==
  /\ WF_vars(DrainSlot)
  /\ WF_vars(ShipBatch)
  /\ \A i \in Ids : WF_vars(EndServiceCall(i))

Spec == Init /\ [][Next]_vars /\ Fairness

-----------------------------------------------------------------------------
(* Properties.                                                             *)

\* The drain ships only records of requests that have been answered: a slot
\* is taken only after endServiceCall of the id it holds, never while the
\* request is still running (its end time would be unset).  About
\* sendLogToDB's wait_send test and startServiceCall refusing busy slots.
SentRecordIsEnded ==
  \A k \in 1..Len(sent) :
    sent[k] # 0 /\ call[sent[k]].st = "ended" /\ call[sent[k]].id = sent[k]

\* Every request that took a slot and was answered has its record drained
\* (shipped, or dropped as too far behind) sooner or later: the log keeps
\* up with the traffic.  About the in-order walk of sendLogToDB, which
\* cannot pass a slot whose wait_send is never set.
EndedCallLogged ==
  \A i \in Ids :
    (call[i].st = "ended" /\ call[i].id = i) ~> (next > i)

\* No started request has left a hole in the walk: each took its own slot
\* (no refused start) and none was abandoned before endServiceCall.
NoHole ==
  \A j \in Ids : call[j].st # "none" => call[j].st # "abandoned" /\ call[j].id = j

\* As long as no request leaves a hole, every answered request is drained,
\* also when the ring wraps onto slots freed by the drain.  A refused start
\* or an abandoned call is a hole: the walk waits at that id until a later
\* id of the same slot ends there (see README).  About the in-order walk of
\* sendLogToDB against the slot reuse of startServiceCall.
EndedCallLoggedWithoutHoles ==
  []NoHole => EndedCallLogged

=============================================================================
