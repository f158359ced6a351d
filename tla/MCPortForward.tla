--------------------------- MODULE MCPortForward ---------------------------
(* Model values for the agents and services of PortForward.                *)
EXTENDS PortForward, TLC

CONSTANTS a1, a2, s1, s2

MCAgents == {a1, a2}
MCServices == {s1, s2}

MCSymmetry == Permutations(MCAgents) \cup Permutations(MCServices)

=============================================================================
