--------------------------------- MODULE MCRuns ---------------------------------
(* Small instances of Runs for TLC. *)
EXTENDS Runs, TLC

CONSTANTS c1, c2, s1, r1

Setup(d, a, r) == [drift |-> d, agent |-> a, reader |-> r]

\* A replay that may repair, whose provider and extraction share a router, and one that may
\* not, and extracts through a router that cannot be watched.
MCSetups == {Setup("relearn", r1, r1), Setup("raise", None, Foreign)}

\* The runs are interchangeable.
CallSymmetry == Permutations(Calls)
===============================================================================
