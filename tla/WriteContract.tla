----------------------------- MODULE WriteContract -----------------------------
(***************************************************************************)
(* What replay() of a declared write promises its caller, which is what    *)
(* run_batch and its ledger build on: an answer that says the write landed *)
(* is given only if it has, the answer is given once, and an answer that   *)
(* says nothing leaves the write free to have landed or to land later.     *)
(***************************************************************************)
VARIABLES
  landed,  \* the flow's write has been performed
  answer   \* "none", "ok", "landed" (an error that arms the ledger), "unclaimed"

Init ==
  /\ landed \in BOOLEAN
  /\ answer = "none"

Land ==
  /\ landed' = TRUE
  /\ UNCHANGED answer

Answer ==
  /\ answer = "none"
  /\ answer' \in IF landed THEN {"ok", "landed", "unclaimed"} ELSE {"unclaimed"}
  /\ UNCHANGED landed

Next == Land \/ Answer

Spec == Init /\ [][Next]_<<landed, answer>>
===============================================================================
