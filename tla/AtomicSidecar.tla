----------------------------- MODULE AtomicSidecar -----------------------------
(***************************************************************************)
(* What the writers of a flow's trust sidecar promise together: however    *)
(* many processes update it, every update is applied whole, to the meta    *)
(* the update before it left, and none is lost.  The promise holds until   *)
(* somebody goes on without the lock or destroys the file.                 *)
(***************************************************************************)
EXTENDS TrustMeta

VARIABLES
  meta,     \* what the sidecar says
  honoured  \* no writer went on without the lock, and the file is intact

Init == meta \in Metas /\ honoured = TRUE

Write ==
  /\ \E u \in Updates : meta' = Apply(u, meta)
  /\ UNCHANGED honoured

\* From here on nothing is promised.
Dishonoured ==
  /\ honoured' = FALSE
  /\ meta' \in Metas

Next == Write \/ Dishonoured

Spec == Init /\ [][Next]_<<meta, honoured>>
===============================================================================
