---------------------------- MODULE ServiceNodes ----------------------------
(***************************************************************************)
(* Service discovery in FibpServiceMgr (forward-manager/FibpServiceMgr.cpp): *)
(* the fibers that keep the node table reg_service_host_info_ and the       *)
(* current cluster name up to date from the registry, and the lookup        *)
(* get_service_address that the forward manager makes for every call.     *)
(*                                                                         *)
(* watchServiceChangeFunc long-polls the catalog and starts one            *)
(* watchServiceNodeChangeFunc fiber per service it has not seen.  A node   *)
(* watcher long-polls the health of its service and parses the answer     *)
(* (parseServiceInfoRsp) into, per service type, "name-tag" -> passing     *)
(* hosts.  It then takes the table lock once per type: it erases every key *)
(* it wrote in any earlier answer (last_service_names) and writes the keys *)
(* of the new answer.  watchCurrentClusterName long-polls the cluster name. *)
(*                                                                         *)
(* The watchers are fibers of the discovery thread; the lookups run on the *)
(* reactor threads under the shared lock.  A request that fails (or an     *)
(* answer that does not parse) makes the watcher sleep, switch registry    *)
(* server and poll again: in the model it changes nothing.  A registry     *)
(* answer is read when the poll returns, which may be at any time (on a    *)
(* change or when the wait elapses).  Every long poll is sent with         *)
(* timeout_ms = 0, which arms no deadline: a server that stops answering  *)
(* without closing the connection holds its watcher for good ("hung").     *)
(***************************************************************************)
EXTENDS Naturals, Sequences, FiniteSets

CONSTANTS
  Services,    \* service names in the registry
  Hosts,       \* hosts that can run an instance of a service
  TypeSeq,     \* the ServiceType values in enum order (HTTP, RPC, ...)
  Tags,        \* cluster tags a node can carry
  Dev,         \* "dev", the default cluster tag
  Empty,       \* the empty cluster name
  Absent,      \* no instance of the service on the host
  MaxChanges   \* bound on changes of the registry

Types == {TypeSeq[i] : i \in 1..Len(TypeSeq)}
Clusters == Tags \cup {Dev}
Keys == Services \X Clusters

\* What the registry holds for one instance: the type its protocol tag
\* selects, its other tags, and whether all its health checks pass.
Entries == [type : Types, tags : SUBSET Tags, passing : BOOLEAN]

ASSUME Dev \notin Tags /\ MaxChanges \in Nat

VARIABLES
  health,      \* the registry: service -> host -> entry or Absent
  regCluster,  \* the cluster name the registry's agent reports
  changes,     \* registry changes so far
  cw,          \* the catalog watcher: "poll" or "hung"
  nw,          \* each service's node watcher: "off", "poll", "apply", "hung"
  ans,         \* each node watcher's parsed answer: type -> cluster -> hosts
  ti,          \* the index in TypeSeq of the next type the watcher applies
  last,        \* last_service_names: the clusters of keys it has written
  tbl,         \* reg_service_host_info_: type -> (service, cluster) -> hosts
  clw,         \* the cluster watcher: "poll" or "hung"
  cur          \* curClusterName_

vars == <<health, regCluster, changes, cw, nw, ans, ti, last, tbl, clw, cur>>

NoHosts == [t \in Types |-> [c \in Clusters |-> {}]]

TypeOK ==
  /\ health \in [Services -> [Hosts -> Entries \cup {Absent}]]
  /\ regCluster \in Clusters \cup {Empty}
  /\ changes \in 0..MaxChanges
  /\ cw \in {"poll", "hung"} /\ clw \in {"poll", "hung"}
  /\ nw \in [Services -> {"off", "poll", "apply", "hung"}]
  /\ ans \in [Services -> [Types -> [Clusters -> SUBSET Hosts]]]
  /\ ti \in [Services -> 1..Len(TypeSeq)]
  /\ last \in [Services -> SUBSET Clusters]
  /\ tbl \in [Types -> [Keys -> SUBSET Hosts]]
  /\ cur \in Clusters

Init ==
  /\ health = [s \in Services |-> [h \in Hosts |-> Absent]]
  /\ regCluster = Dev
  /\ changes = 0
  /\ cw = "poll" /\ clw = "poll"
  /\ nw = [s \in Services |-> "off"]
  /\ ans = [s \in Services |-> NoHosts]
  /\ ti = [s \in Services |-> 1]
  /\ last = [s \in Services |-> {}]
  /\ tbl = [t \in Types |-> [k \in Keys |-> {}]]
  /\ cur = Dev

-----------------------------------------------------------------------------
(* Parsing.                                                                *)

\* parseServiceInfo: the tags other than the protocol ones, or "dev" when
\* there are none.
ClusterTags(e) == IF e.tags = {} THEN {Dev} ELSE e.tags

\* parseServiceInfoRsp: the nodes whose checks all pass, grouped by type
\* and by service_name + "-" + tag for each of their cluster tags.
ParseServiceInfoRsp(hs) ==
  [t \in Types |-> [c \in Clusters |->
     {h \in Hosts : /\ hs[h] # Absent
                    /\ hs[h].passing
                    /\ hs[h].type = t
                    /\ c \in ClusterTags(hs[h])}]]

\* The services the catalog lists: those with an instance, passing or not.
Catalog == {s \in Services : \E h \in Hosts : health[s][h] # Absent}

-----------------------------------------------------------------------------
(* The registry.                                                           *)

\* An instance is registered, changes its tags or health, or leaves.
ChangeNode(s, h, e) ==
  /\ changes < MaxChanges
  /\ health[s][h] # e
  /\ health' = [health EXCEPT ![s][h] = e]
  /\ changes' = changes + 1
  /\ UNCHANGED <<regCluster, cw, nw, ans, ti, last, tbl, clw, cur>>

\* The cluster the local agent reports changes (possibly to an empty name).
ChangeCluster(c) ==
  /\ changes < MaxChanges
  /\ regCluster # c
  /\ regCluster' = c
  /\ changes' = changes + 1
  /\ UNCHANGED <<health, cw, nw, ans, ti, last, tbl, clw, cur>>

-----------------------------------------------------------------------------
(* watchServiceChangeFunc.                                                 *)

\* A catalog answer: a node watcher fiber is started for every listed
\* service not in watching_services.
CatalogPoll ==
  /\ cw = "poll"
  /\ nw' = [s \in Services |-> IF s \in Catalog /\ nw[s] = "off" THEN "poll" ELSE nw[s]]
  /\ UNCHANGED <<health, regCluster, changes, cw, ans, ti, last, tbl, clw, cur>>

\* The catalog poll went to a server that no longer answers.
CatalogHang ==
  /\ cw = "poll"
  /\ cw' = "hung"
  /\ UNCHANGED <<health, regCluster, changes, nw, ans, ti, last, tbl, clw, cur>>

-----------------------------------------------------------------------------
(* watchServiceNodeChangeFunc.                                             *)

\* A health answer for the service, parsed.
NodePoll(s) ==
  /\ nw[s] = "poll"
  /\ ans' = [ans EXCEPT ![s] = ParseServiceInfoRsp(health[s])]
  /\ nw' = [nw EXCEPT ![s] = "apply"]
  /\ ti' = [ti EXCEPT ![s] = 1]
  /\ UNCHANGED <<health, regCluster, changes, cw, last, tbl, clw, cur>>

NodeHang(s) ==
  /\ nw[s] = "poll"
  /\ nw' = [nw EXCEPT ![s] = "hung"]
  /\ UNCHANGED <<health, regCluster, changes, cw, ans, ti, last, tbl, clw, cur>>

\* The keys of the service a type's update writes.
Written(s, t) == {c \in Clusters : ans[s][t][c] # {}}

NextTypeOffByOne(s) ==
  IF ti[s] > Len(TypeSeq)
  THEN /\ nw' = [nw EXCEPT ![s] = "poll"]
       /\ UNCHANGED ti
  ELSE /\ ti' = [ti EXCEPT ![s] = ti[s] + 1]
       /\ UNCHANGED nw

\* The last type has been applied: the watcher polls again.
NextType(s) ==
  IF ti[s] = Len(TypeSeq)
  THEN /\ nw' = [nw EXCEPT ![s] = "poll"]
       /\ UNCHANGED ti
  ELSE /\ ti' = [ti EXCEPT ![s] = ti[s] + 1]
       /\ UNCHANGED nw

ApplyTypeNoErase(s) ==
  LET t == TypeSeq[ti[s]] IN
  /\ nw[s] = "apply"
  /\ tbl' = [tbl EXCEPT ![t] =
               [k \in Keys |-> IF k[1] = s /\ k[2] \in Written(s, t)
                               THEN ans[s][t][k[2]]
                               ELSE tbl[t][k]]]
  /\ last' = [last EXCEPT ![s] = last[s] \cup Written(s, t)]
  /\ NextType(s)
  /\ UNCHANGED <<health, regCluster, changes, cw, ans, clw, cur>>

ApplyTypeFirstOnly(s) ==
  LET t == TypeSeq[ti[s]] IN
  /\ nw[s] = "apply"
  /\ tbl' = [tbl EXCEPT ![t] =
               [k \in Keys |-> IF k[1] # s THEN tbl[t][k]
                               ELSE IF k[2] \in Written(s, t) THEN ans[s][t][k[2]]
                               ELSE IF k[2] \in last[s] THEN {}
                               ELSE tbl[t][k]]]
  /\ last' = [last EXCEPT ![s] = last[s] \cup Written(s, t)]
  /\ nw' = [nw EXCEPT ![s] = "poll"]
  /\ UNCHANGED <<health, regCluster, changes, cw, ans, ti, clw, cur>>

\* One turn of the loop over node_list, under the unique lock: the keys of
\* last_service_names are erased from this type's map, then the keys of
\* the answer for this type are written and added to last_service_names.
ApplyType(s) ==
  LET t == TypeSeq[ti[s]] IN
  /\ nw[s] = "apply"
  /\ tbl' = [tbl EXCEPT ![t] =
               [k \in Keys |-> IF k[1] # s THEN tbl[t][k]
                               ELSE IF k[2] \in Written(s, t) THEN ans[s][t][k[2]]
                               ELSE IF k[2] \in last[s] THEN {}
                               ELSE tbl[t][k]]]
  /\ last' = [last EXCEPT ![s] = last[s] \cup Written(s, t)]
  /\ NextType(s)
  /\ UNCHANGED <<health, regCluster, changes, cw, ans, clw, cur>>

-----------------------------------------------------------------------------
(* watchCurrentClusterName and changeCluster.                              *)

\* An answer: a different name replaces curClusterName_, unless it is empty.
ClusterPoll ==
  /\ clw = "poll"
  /\ cur' = IF regCluster # Empty THEN regCluster ELSE cur
  /\ UNCHANGED <<health, regCluster, changes, cw, nw, ans, ti, last, tbl, clw>>

ClusterHang ==
  /\ clw = "poll"
  /\ clw' = "hung"
  /\ UNCHANGED <<health, regCluster, changes, cw, nw, ans, ti, last, tbl, cur>>

\* Every watcher is hung and the registry bound is used up: the discovery
\* thread has nothing left to do.
Stalled ==
  /\ cw = "hung" /\ clw = "hung"
  /\ \A s \in Services : nw[s] \in {"off", "hung"}
  /\ changes = MaxChanges
  /\ UNCHANGED vars

-----------------------------------------------------------------------------
(* get_service_address.                                                    *)

\* The hosts a lookup of the service and type picks from (balance_index
\* modulo their number); empty means "service not found".
Lookup(s, t) == tbl[t][<<s, cur>>]

-----------------------------------------------------------------------------
Next ==
  \/ \E s \in Services, h \in Hosts, e \in Entries \cup {Absent} : ChangeNode(s, h, e)
  \/ \E c \in Clusters \cup {Empty} : ChangeCluster(c)
  \/ CatalogPoll \/ CatalogHang
  \/ \E s \in Services : NodePoll(s) \/ NodeHang(s) \/ ApplyType(s)
  \/ ClusterPoll \/ ClusterHang
  \/ Stalled

\* The watcher fibers loop for as long as the process runs and the
\* discovery thread runs nothing else, so a watcher whose request is
\* answered goes on.  Hanging is not forced.
Fairness ==
  /\ WF_vars(CatalogPoll)
  /\ WF_vars(ClusterPoll)
  /\ \A s \in Services : WF_vars(NodePoll(s)) /\ WF_vars(ApplyType(s))

Spec == Init /\ [][Next]_vars /\ Fairness

-----------------------------------------------------------------------------
(* Properties.                                                             *)

\* Between two answers, a node watcher's keys in every type's map are
\* exactly those of its last answer: a host that failed its checks, lost a
\* tag or changed protocol is gone from the table and no key of an earlier
\* answer lingers.  About the erase of last_service_names before the write,
\* done type by type under separate locks.
TableMatchesAnswer ==
  \A s \in Services :
    nw[s] # "apply" =>
      \A t \in Types, c \in Clusters : tbl[t][<<s, c>>] = ans[s][t][c]

\* No watcher request ever hangs.
NoHang ==
  cw = "poll" /\ clw = "poll" /\ \A s \in Services : nw[s] # "hung"

\* Once the registry stops changing, and as long as no registry server
\* leaves a long poll unanswered, the lookups settle on what the registry
\* holds: every service's passing hosts per type and cluster tag, and a
\* lookup finds the hosts of the cluster the agent reports.  About the catalog watcher starting a node watcher
\* per new service, the node watchers' type-by-type update, and
\* changeCluster.
RegistryReflected ==
  []NoHang =>
    <>[](/\ \A s \in Services, t \in Types, c \in Clusters :
              tbl[t][<<s, c>>] = ParseServiceInfoRsp(health[s])[t][c]
         /\ regCluster # Empty =>
              \A s \in Services, t \in Types :
                Lookup(s, t) = ParseServiceInfoRsp(health[s])[t][regCluster])

=============================================================================
