----------------------------- MODULE ResumableJob -----------------------------
(***************************************************************************)
(* What a resumable write batch promises its operator, with no file, no    *)
(* process and no browser in it.  A row's write lands on the target        *)
(* system; a landed row may be recorded; a row may be skipped, without     *)
(* running it, only if its write has landed.  BatchLedger implements this. *)
(***************************************************************************)
CONSTANTS
  Rows,     \* the rows of the job, named by their Idempotency-Key
  CanLose   \* TRUE if a record may become unreadable again

VARIABLES
  landed,   \* rows whose write the target system has performed
  recorded, \* rows a later run would recognise as landed
  skipped   \* rows some run reported as already committed

vars == <<landed, recorded, skipped>>

Init ==
  /\ landed = {}
  /\ recorded = {}
  /\ skipped = {}

Land(k) ==
  /\ landed' = landed \cup {k}
  /\ UNCHANGED <<recorded, skipped>>

Record(k) ==
  /\ k \in landed
  /\ recorded' = recorded \cup {k}
  /\ UNCHANGED <<landed, skipped>>

\* A missing record only costs a re-fire, so a job may forget, never invent.
Lose ==
  /\ CanLose
  /\ recorded' \in SUBSET recorded
  /\ UNCHANGED <<landed, skipped>>

Skip(K) ==
  /\ K \subseteq landed
  /\ skipped' = skipped \cup K
  /\ UNCHANGED <<landed, recorded>>

Next ==
  \/ \E k \in Rows : Land(k) \/ Record(k)
  \/ Lose
  \/ \E K \in SUBSET Rows : Skip(K)

Spec == Init /\ [][Next]_vars
===============================================================================
