---------------------------- MODULE PortForward ----------------------------
(***************************************************************************)
(* The port-forward key watcher (FibpServiceMgr::watchPortForwardChangeFunc *)
(* in forward-manager/FibpServiceMgr.cpp) and the listener registry it     *)
(* drives (FibpPortForwardMgr, through FibpForwardManager's wrappers).      *)
(*                                                                         *)
(* Each forward key in the registry names an agent and a service.  The     *)
(* watcher long-polls the key list; for every key it makes sure one        *)
(* listener forwards the key's service (service_port_map), records the    *)
(* agent under that port (last_ports), and after the pass retires every    *)
(* port no key uses any more, then adds the ports to ports_used_by_agent_. *)
(* A listener is an ephemeral port: the OS may hand out the number of a   *)
(* port closed earlier.                                                     *)
(*                                                                         *)
(* The watcher is one fiber on the discovery thread and the only writer; *)
(* the listener threads only read the registry under its lock.  A key is  *)
(* the pair (agent, service): the agent-id prefix and the                 *)
(* "service_name,protocol" value read once per new key.                   *)
(***************************************************************************)
EXTENDS Naturals, FiniteSets

CONSTANTS
  Agents,      \* agent ids
  Services,    \* (service name, protocol) pairs a key can name
  NPorts,      \* ephemeral port numbers the OS can hand out: 1..NPorts
  MaxPolls,    \* bound on long-poll answers the watcher handles
  MaxChanges   \* bound on changes of the registry's key list

ASSUME NPorts \in Nat \ {0} /\ MaxPolls \in Nat /\ MaxChanges \in Nat

Ports == 1..NPorts
Keys == Agents \X Services
NoService == "none"

AgentOf(k) == k[1]
ServiceOf(k) == k[2]

VARIABLES
  keys,      \* the registry's current forward-port key list
  changes,   \* changes made to the key list so far
  polls,     \* long-poll answers handled so far
  wpc,       \* the watcher: "poll" (waiting for an answer) or "keys" (in a pass)
  snap,      \* the key list of the last answer
  todo,      \* keys of the current answer not yet handled
  prev,      \* previous_keys
  newk,      \* new_keys
  lpDom,     \* the ports with an entry in last_ports
  lp,        \* last_ports: the agents recorded under each port
  spm,       \* service_port_map: service -> port, 0 = none
  fsrv,      \* forward_server_list_: ports with a running listener
  fsl,       \* forward_service_list_: port -> service, NoService = none
  pua        \* ports_used_by_agent_

vars == <<keys, changes, polls, wpc, snap, todo, prev, newk, lpDom, lp, spm,
          fsrv, fsl, pua>>

TypeOK ==
  /\ keys \subseteq Keys /\ snap \subseteq Keys
  /\ changes \in 0..MaxChanges /\ polls \in 0..MaxPolls
  /\ wpc \in {"poll", "keys"}
  /\ todo \subseteq Keys /\ prev \subseteq Keys /\ newk \subseteq Keys
  /\ lpDom \subseteq Ports /\ lp \in [Ports -> SUBSET Agents]
  /\ spm \in [Services -> Ports \cup {0}]
  /\ fsrv \subseteq Ports
  /\ fsl \in [Ports -> Services \cup {NoService}]
  /\ pua \in [Agents -> SUBSET Ports]

Init ==
  /\ keys = {} /\ changes = 0 /\ polls = 0
  /\ wpc = "poll" /\ snap = {} /\ todo = {}
  /\ prev = {} /\ newk = {}
  /\ lpDom = {} /\ lp = [p \in Ports |-> {}]
  /\ spm = [s \in Services |-> 0]
  /\ fsrv = {} /\ fsl = [p \in Ports |-> NoService]
  /\ pua = [a \in Agents |-> {}]

-----------------------------------------------------------------------------
(* The registry.                                                           *)

\* Agents add and delete their forward keys.
ChangeKeys ==
  /\ changes < MaxChanges
  /\ \E K \in SUBSET Keys :
       /\ K # keys
       /\ keys' = K
  /\ changes' = changes + 1
  /\ UNCHANGED <<polls, wpc, snap, todo, prev, newk, lpDom, lp, spm, fsrv, fsl, pua>>

-----------------------------------------------------------------------------
(* The watcher fiber.                                                      *)

\* A long-poll answer with an empty key list: previous_keys is cleared and
\* the loop continues at once, before the diff.  (A failed poll or an
\* unparsable answer also continues, changing nothing.)
PollEmpty ==
  /\ wpc = "poll"
  /\ polls < MaxPolls
  /\ keys = {}
  /\ polls' = polls + 1
  /\ snap' = {}
  /\ prev' = {}
  /\ UNCHANGED <<keys, changes, wpc, todo, newk, lpDom, lp, spm, fsrv, fsl, pua>>

\* A long-poll answer with keys: the agent sets of last_ports are emptied
\* and the pass over the keys begins with an empty new_keys.
Poll ==
  /\ wpc = "poll"
  /\ polls < MaxPolls
  /\ keys # {}
  /\ polls' = polls + 1
  /\ snap' = keys
  /\ todo' = keys
  /\ newk' = {}
  /\ lp' = [p \in Ports |-> {}]
  /\ wpc' = "keys"
  /\ UNCHANGED <<keys, changes, prev, lpDom, spm, fsrv, fsl, pua>>

\* FibpPortForwardMgr::startPortForward: a listener bound to port 0, so the
\* OS picks any number no listener holds, registered in
\* forward_server_list_ with its thread started.  It always succeeds.
PortForwardMgrStart(p) == fsrv' = fsrv \cup {p}

\* FibpPortForwardMgr::updateForwardService: the port's entry of
\* forward_service_list_ names the service.
UpdateForwardService(p, s) == fsl' = [fsl EXCEPT ![p] = s]

\* FibpPortForwardMgr::stopPortForward for each port of U: the entries of
\* forward_server_list_ and forward_service_list_ are erased under the lock,
\* then the listener is stopped and its thread joined.
StopPortForward(U) ==
  /\ fsrv' = fsrv \ U
  /\ fsl' = [p \in Ports |-> IF p \in U THEN NoService ELSE fsl[p]]

\* getForwardPortInfo: the blocking GET of a new key's value.  It can
\* return the value only while the key exists; the request can fail, and
\* a value with fewer than two fields is refused, at any time.
GetForwardPortInfo(k) == k \in keys

\* The watcher's startPortForward (FibpForwardManager::startPortForward:
\* the listener, then updateForwardService), after which the service's
\* port is recorded in service_port_map and the agent in last_ports.
StartPortForward(s, a) ==
  \E p \in Ports \ fsrv :
    /\ PortForwardMgrStart(p)
    /\ UpdateForwardService(p, s)
    /\ spm' = [spm EXCEPT ![s] = p]
    /\ lpDom' = lpDom \cup {p}
    /\ lp' = [lp EXCEPT ![p] = {a}]

\* One key of the pass.  A key not in previous_keys has its value fetched
\* from the registry, which fails (the key is skipped) when the request
\* fails or the key has been deleted since the list was read.  The key
\* joins new_keys; when its service already has a port the agent is
\* recorded there, otherwise a listener is started for it.
HandleKeyNoLookup(k) ==
  LET s == ServiceOf(k)
      a == AgentOf(k)
  IN  /\ wpc = "keys"
      /\ k \in todo
      /\ todo' = todo \ {k}
      /\ \/ /\ k \notin prev
            /\ UNCHANGED <<newk, lpDom, lp, spm, fsrv, fsl>>
         \/ /\ k \in prev \/ k \in keys
            /\ newk' = newk \cup {k}
            /\ StartPortForward(s, a)
      /\ UNCHANGED <<keys, changes, polls, wpc, snap, prev, pua>>

HandleKey(k) ==
  LET s == ServiceOf(k)
      a == AgentOf(k)
  IN  /\ wpc = "keys"
      /\ k \in todo
      /\ todo' = todo \ {k}
      /\ \/ /\ k \notin prev
            /\ UNCHANGED <<newk, lpDom, lp, spm, fsrv, fsl>>
         \/ /\ k \in prev \/ GetForwardPortInfo(k)
            /\ newk' = newk \cup {k}
            /\ \/ /\ spm[s] # 0
                  /\ lpDom' = lpDom \cup {spm[s]}
                  /\ lp' = [lp EXCEPT ![spm[s]] = @ \cup {a}]
                  /\ UNCHANGED <<spm, fsrv, fsl>>
               \/ /\ spm[s] = 0
                  /\ StartPortForward(s, a)
      /\ UNCHANGED <<keys, changes, polls, wpc, snap, prev, pua>>

\* The ports of last_ports without agents after the pass.
Unused == {p \in lpDom : lp[p] = {}}

\* The service_port_map entries erased for the unused ports: the service
\* getForwardService still finds registered at the port.
ErasedServices(reg) == {reg[p] : p \in Unused} \ {NoService}

\* The end of the pass: previous_keys = new_keys; for each unused port the
\* service_port_map entry found through getForwardService is erased and
\* stopPortForward closes the listener and unregisters the port; the ports
\* leave last_ports; every agent of last_ports gets its ports added to
\* ports_used_by_agent_.
EndPassStopFirst ==
  LET fsl2 == [p \in Ports |-> IF p \in Unused THEN NoService ELSE fsl[p]]
  IN  /\ wpc = "keys"
      /\ todo = {}
      /\ prev' = newk
      /\ fsl' = fsl2
      /\ spm' = [s \in Services |-> IF s \in ErasedServices(fsl2) THEN 0 ELSE spm[s]]
      /\ fsrv' = fsrv \ Unused
      /\ lpDom' = lpDom \ Unused
      /\ pua' = [a \in Agents |-> pua[a] \cup {p \in lpDom \ Unused : a \in lp[p]}]
      /\ wpc' = "poll"
      /\ UNCHANGED <<keys, changes, polls, snap, todo, newk, lp>>

EndPass ==
  /\ wpc = "keys"
  /\ todo = {}
  /\ prev' = newk
  /\ spm' = [s \in Services |-> IF s \in ErasedServices(fsl) THEN 0 ELSE spm[s]]
  /\ StopPortForward(Unused)
  /\ lpDom' = lpDom \ Unused
  /\ pua' = [a \in Agents |-> pua[a] \cup {p \in lpDom \ Unused : a \in lp[p]}]
  /\ wpc' = "poll"
  /\ UNCHANGED <<keys, changes, polls, snap, todo, newk, lp>>

\* The answer bound is used up with the watcher waiting: no step left in
\* the model (the program keeps polling).
PollsExhausted ==
  /\ wpc = "poll"
  /\ polls = MaxPolls
  /\ UNCHANGED vars

-----------------------------------------------------------------------------
Next ==
  \/ ChangeKeys
  \/ PollEmpty
  \/ Poll
  \/ \E k \in Keys : HandleKey(k)
  \/ EndPass
  \/ PollsExhausted

Spec == Init /\ [][Next]_vars

-----------------------------------------------------------------------------
(* Properties.                                                             *)

\* Every service_port_map entry names a running listener registered for
\* that service, so a key of a known service is never attached to a closed
\* or foreign port, even after ports are retired and their numbers handed
\* out again.  About the retire loop, which looks the port's service up
\* with getForwardService before stopPortForward unregisters it.
ServicePortMapSound ==
  \A s \in Services :
    spm[s] # 0 => spm[s] \in fsrv /\ fsl[spm[s]] = s

\* No service is forwarded by two listeners: a second key of a service,
\* from another agent or in a later pass, reuses the service's port.
\* About the service_port_map lookup before startPortForward.
OneListenerPerService ==
  \A p, q \in fsrv : p # q => fsl[p] # fsl[q]

\* Between passes, every running listener forwards a service that a key of
\* the last answer names: a port whose keys are gone is closed within one
\* watcher cycle (spec 4.11 and the port-forward lifecycle scenario).
\* About the empty-list early continue of watchPortForwardChangeFunc.
PortsFollowKeys ==
  wpc = "poll" =>
    \A p \in fsrv : \E k \in snap : ServiceOf(k) = fsl[p]

=============================================================================
