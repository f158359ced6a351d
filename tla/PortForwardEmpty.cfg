\* As PortForward.cfg; checks that ports follow the key list.
CONSTANTS
  a1 = a1
  a2 = a2
  s1 = s1
  s2 = s2
  Agents <- MCAgents
  Services <- MCServices
  NPorts = 3
  MaxPolls = 4
  MaxChanges = 3

SYMMETRY MCSymmetry

SPECIFICATION Spec

INVARIANTS
  PortsFollowKeys
