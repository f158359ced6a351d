---------------------------- MODULE MCDiscovery ----------------------------
(* The fibers of the discovery thread, for TLC: the port-forward key      *)
(* watcher with the listener registry it drives (PortForward), and the    *)
(* catalog, node and cluster watchers that fill the routing table         *)
(* (ServiceNodes).  They share no state, so each behaviour follows one of *)
(* them and leaves the other in its initial state; one run checks both.   *)
EXTENDS Naturals, TLC

CONSTANTS
  a1, a2, f1, f2, NPorts, MaxPolls,             \* the port-forward keys
  s1, s2, h1, http, rpc, c1, Dev, Empty, Absent, \* the registry
  MaxChanges  \* bound on changes of the key list, and of the registry

VARIABLES
  keys, fchanges, polls, wpc, snap, todo, prev, newk, lpDom, lp, spm, fsrv,
  fsl, pua,
  health, regCluster, changes, cw, nw, ans, ti, last, tbl, clw, cur,
  watcher     \* the watcher the behaviour follows

F == INSTANCE PortForward WITH Agents <- {a1, a2}, Services <- {f1, f2},
                               changes <- fchanges
S == INSTANCE ServiceNodes
       WITH Services <- {s1, s2}, Hosts <- {h1}, TypeSeq <- <<http, rpc>>,
            Tags <- {c1}

Watchers == {"forward", "nodes"}

\* The agents and the forwarded services are interchangeable, and no
\* property of the node watchers mentions them.
Symmetry == Permutations({a1, a2}) \cup Permutations({f1, f2})

fvars == <<keys, fchanges, polls, wpc, snap, todo, prev, newk, lpDom, lp,
           spm, fsrv, fsl, pua>>
svars == <<health, regCluster, changes, cw, nw, ans, ti, last, tbl, clw, cur>>
vars  == <<fvars, svars, watcher>>

Init == watcher \in Watchers /\ F!Init /\ S!Init

OnForward(A) == watcher = "forward" /\ A /\ UNCHANGED <<svars, watcher>>
OnNodes(A)   == watcher = "nodes" /\ A /\ UNCHANGED <<fvars, watcher>>

Next == OnForward(F!Next) \/ OnNodes(S!Next)

\* The fairness of ServiceNodes; PortForward's properties are invariants.
Fairness ==
  /\ WF_vars(OnNodes(S!CatalogPoll)) /\ WF_vars(OnNodes(S!ClusterPoll))
  /\ \A s \in {s1, s2} : /\ WF_vars(OnNodes(S!NodePoll(s)))
                        /\ WF_vars(OnNodes(S!ApplyType(s)))

Spec == Init /\ [][Next]_vars /\ Fairness

-----------------------------------------------------------------------------
(* The properties of the two modules, stated there.                        *)

\* Every variable of both watchers stays in its type; in particular the
\* node watcher's type index stays inside TypeSeq.
TypeOK == F!TypeOK /\ S!TypeOK /\ watcher \in Watchers

\* Every service_port_map entry names a running listener of that service
\* (PortForward: getForwardService before stopPortForward in the retire
\* loop, with port numbers reused).
ServicePortMapSound == F!ServicePortMapSound

\* No service is forwarded by two listeners (PortForward: the
\* service_port_map lookup before startPortForward).
OneListenerPerService == F!OneListenerPerService

\* Between answers a node watcher's keys are exactly its last answer's
\* (ServiceNodes: the erase of last_service_names before each write).
TableMatchesAnswer == S!TableMatchesAnswer

\* Once the registry stops changing and no poll hangs, the lookups settle
\* on what the registry holds (ServiceNodes: the three watchers).
RegistryReflected == S!RegistryReflected

=============================================================================
