--------------------------------- MODULE MCFleet ---------------------------------
(* Small instances of Fleet for TLC. *)
EXTENDS Fleet, TLC

CONSTANTS t1, t2, price, order

\* A steady baseline, just warm, and one that another 14 makes a creep of; a release or
\* a learn leaves none.
SmallBaselines == {<<10, 10>>, <<10, 14>>}

\* What approval and writes each change shows against either of the other's settings.
MCOptions == {[approvedOnly |-> TRUE, includeWrites |-> TRUE],
              [approvedOnly |-> FALSE, includeWrites |-> FALSE]}

\* The scheduled fleet, and one flow by name.
MCServes == [t \in Ticks |-> IF t = t1 THEN {price, order} ELSE {price}]
=================================================================================
