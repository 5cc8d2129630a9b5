----------------------------- MODULE MCWriteReplay -----------------------------
(* Small instances of WriteReplay for TLC: recipes of three steps. *)
EXTENDS WriteReplay, Sequences

Flow(steps, commit, declared, barriers, options) ==
  [steps |-> steps, commit |-> commit, declared |-> declared, barriers |-> barriers,
   precheck |-> "precheck" \in options, login |-> "login" \in options,
   params |-> "params" \in options, extract |-> "extract" \in options]

\* One write, with every combination of a barrier and what else it may have.
OneWrite ==
  {Flow(<<"read", "write", "read">>, 2, TRUE, b, o) :
     b \in {{}, {2}},
     o \in {p \in SUBSET {"precheck", "login", "params", "extract"} :
              ~({"precheck", "params"} \subseteq p)}}

\* Two writes, some with barriers, and a write next to a step only marked so.
TwoMarks ==
  {Flow(<<"write", "write", "read">>, 2, TRUE, b, {"precheck", "login"}) :
     b \in {{}, {1}, {1, 2}}}
  \cup
  {Flow(<<"write", "keyword", "read">>, 1, TRUE, b, {"precheck", "login"}) :
     b \in {{}, {1}}}

\* No declaration: a flow that writes all the same, and one that reads.
Undeclared ==
  {Flow(<<"read", k, "read">>, 2, FALSE, {}, {"login", "extract"}) :
     k \in {"read", "keyword", "write"}}

SmallFlows == OneWrite \cup TwoMarks \cup Undeclared
===============================================================================
