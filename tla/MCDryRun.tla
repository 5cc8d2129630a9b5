-------------------------------- MODULE MCDryRun --------------------------------
(* Small instances of DryRun for TLC. *)
EXTENDS DryRun, TLC

CONSTANTS q1, q2, q3

\* The requests are interchangeable.
RequestSymmetry == Permutations(Requests)
===============================================================================
