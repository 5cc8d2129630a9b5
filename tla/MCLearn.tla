-------------------------------- MODULE MCLearn --------------------------------
(* Small instances of Learn for TLC. *)
EXTENDS Learn

\* Every action worth telling apart: what sends nothing has no body, and what is
\* marked is gated whatever its body says.
SmallKinds ==
  {k \in [sends : Sends, names_read : BOOLEAN, mark : BOOLEAN] :
     k.names_read => k.sends # "nothing" /\ ~k.mark}
===============================================================================
