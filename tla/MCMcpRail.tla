------------------------------- MODULE MCMcpRail -------------------------------
(* Small instances of McpRail for TLC. *)
EXTENDS McpRail, TLC

CONSTANTS c1, c2, c3, s1, s2, a1, r0, w1, w2

CallSymmetry == Permutations(Calls)
===============================================================================
