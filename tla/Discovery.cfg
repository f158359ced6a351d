\* The port-forward watcher: two agents, two services, three port numbers
\* (so a retired port's number can be handed to the other service), four
\* poll answers.  The node watchers: two services, one host, the HTTP and
\* RPC types, one cluster tag besides "dev".  Three changes of the key
\* list, and of the registry.
CONSTANTS
  a1 = a1
  a2 = a2
  f1 = f1
  f2 = f2
  NPorts = 3
  MaxPolls = 4
  s1 = s1
  s2 = s2
  h1 = h1
  http = http
  rpc = rpc
  c1 = c1
  Dev = Dev
  Empty = Empty
  Absent = Absent
  MaxChanges = 3
SYMMETRY Symmetry
SPECIFICATION Spec
INVARIANTS
  TypeOK
  ServicePortMapSound
  OneListenerPerService
  TableMatchesAnswer
PROPERTIES
  RegistryReflected
