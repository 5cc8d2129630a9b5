-------------------------------- MODULE MCRepair --------------------------------
(* Small instances of Repair for TLC. *)
EXTENDS Repair

Read == [gated |-> FALSE, slot |-> FALSE, text |-> "frozen", sends |-> "no"]
Slot == [Read EXCEPT !.slot = TRUE]
Write == [Read EXCEPT !.gated = TRUE, !.sends = "now"]
SlowWrite == [Write EXCEPT !.sends = "later"]

SmallRecipes == {<<Slot, Write>>, <<Read, SlowWrite, Read>>}
===============================================================================
