------------------------------ MODULE MCTrustStore ------------------------------
(* A small instance of TrustStore for TLC. *)
EXTENDS TrustStore

CONSTANTS p1, p2

MCAuthors == Procs \cup {First}
===============================================================================
