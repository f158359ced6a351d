------------------------------ MODULE RpcCall ------------------------------
(***************************************************************************)
(* What FibpRpcClient promises its callers (forward-manager/FibpClient.cpp *)
(* send_request and FibpClientFuture::getRsp), with the connection, the    *)
(* reader fiber and the wire left out.                                     *)
(*                                                                         *)
(* A call takes a fresh msgid and registers a pending future under it.    *)
(* A pending future is completed at most once: by the reply to its own     *)
(* msgid (success or an error object), or, together with other pending    *)
(* futures, by a connection error.  The caller comes back once, with what  *)
(* its future holds, or with a timeout while it is still pending, or with *)
(* a send failure.                                                          *)
(***************************************************************************)
EXTENDS Naturals

CONSTANTS Callers, MaxCalls

Ids == 1..MaxCalls

VARIABLES
  st,       \* each caller: "idle" between calls, "busy" inside one
  cur,      \* the msgid of each caller's current (or last) call
  fid,      \* the last msgid handed out
  fut,      \* the future of each msgid: [st, ok, val]
  outcome   \* what each caller's last call returned

vars == <<st, cur, fid, fut, outcome>>

\* A caller starts a call under the next msgid.
Call(c) ==
  /\ st[c] = "idle"
  /\ fid < MaxCalls
  /\ fid' = fid + 1
  /\ cur' = [cur EXCEPT ![c] = fid + 1]
  /\ fut' = [fut EXCEPT ![fid + 1] = [st |-> "pending", ok |-> FALSE, val |-> 0]]
  /\ st' = [st EXCEPT ![c] = "busy"]
  /\ outcome' = [outcome EXCEPT ![c] = "none"]

\* The reply to msgid i completes its future, carrying that msgid.
Answer(i, ok) ==
  /\ fut[i].st = "pending"
  /\ fut' = [fut EXCEPT ![i] = [st |-> "done", ok |-> ok, val |-> i]]
  /\ UNCHANGED <<st, cur, fid, outcome>>

\* A connection error fails a set of pending futures at once.
FailAll(S) ==
  /\ S # {}
  /\ \A i \in S : fut[i].st = "pending"
  /\ fut' = [i \in Ids |-> IF i \in S
                            THEN [st |-> "done", ok |-> FALSE, val |-> 0]
                            ELSE fut[i]]
  /\ UNCHANGED <<st, cur, fid, outcome>>

\* The caller comes back: its future's result when it is done, a timeout
\* when it is not, or a send failure either way.
Return(c) ==
  LET f == fut[cur[c]]
  IN  /\ st[c] = "busy"
      /\ st' = [st EXCEPT ![c] = "idle"]
      /\ \E r \in IF f.st = "done"
                  THEN {IF f.ok THEN "ok" ELSE "error", "sendfail"}
                  ELSE {"timeout", "sendfail"} :
           outcome' = [outcome EXCEPT ![c] = r]
      /\ UNCHANGED <<cur, fid, fut>>

Init ==
  /\ st = [c \in Callers |-> "idle"]
  /\ cur = [c \in Callers |-> 0]
  /\ fid = 0
  /\ fut = [i \in Ids |-> [st |-> "unused", ok |-> FALSE, val |-> 0]]
  /\ outcome = [c \in Callers |-> "none"]

Next ==
  \/ \E c \in Callers : Call(c) \/ Return(c)
  \/ \E i \in Ids, ok \in BOOLEAN : Answer(i, ok)
  \/ \E S \in SUBSET Ids : FailAll(S)

Spec == Init /\ [][Next]_vars

=============================================================================
