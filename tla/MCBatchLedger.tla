----------------------------- MODULE MCBatchLedger -----------------------------
(* Small instances of BatchLedger for TLC. *)
EXTENDS BatchLedger, TLC

CONSTANTS k1, k2, r1, r2, r3

Request(rows, policy, dry) == [rows |-> rows, policy |-> policy, dry |-> dry]

\* A good batch under either policy, its dry run, and one of each kind that
\* ends or is refused before its first row.
SmallRequests ==
  {Request(<<k1, k2>>, "stop", FALSE), Request(<<k1, k2>>, "continue", FALSE),
   Request(<<k2, k1>>, "stop", TRUE), Request(<<>>, "stop", FALSE),
   Request(<<k1, k1>>, "stop", FALSE), Request(<<k2, Invalid>>, "stop", FALSE),
   Request(<<k1, k2, k1>>, "stop", FALSE)}
===============================================================================
