------------------------- MODULE MCServerLifecycle -------------------------
(* Constants of the runs of ServerLifecycle: symmetric servers and PIDs.     *)
EXTENDS ServerLifecycle, TLC

CONSTANTS s1, s2, p1, p2, p3

MCServer == {s1, s2}
MCPid == {p1, p2, p3}

Symmetry == Permutations(MCServer) \cup Permutations(MCPid)
=============================================================================
