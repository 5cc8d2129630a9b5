------------------------------- MODULE TrustMeta -------------------------------
(***************************************************************************)
(* The data of a flow's trust sidecar (FlowMeta) and of its cached recipe, *)
(* and what each of the writers of the sidecar does to it.  A recipe is    *)
(* the call of learn() that authored it and a human's mark on its steps:   *)
(* two recipes are equal exactly when their steps_hash is.                 *)
(***************************************************************************)
EXTENDS Naturals

CONSTANTS
  Authors,  \* the authoring runs a recipe can come from
  None      \* no authoring run

Recipes == [origin : Authors \cup {None}, marked : BOOLEAN]
NoRecipe == [origin |-> None, marked |-> FALSE]

Quarantines == {"none", "value", "meta_unreadable"}

Metas == [approved : BOOLEAN,             \* FlowMeta.approved
          bound : Recipes,                \* the recipe steps_hash was taken of
          baseline : Authors \cup {None}, \* the run shape and contracts come from
          pin : Authors \cup {None},      \* the run read_pin comes from
          quarantine : Quarantines,
          runs : Nat]

\* FlowMeta(): a flow nothing is known of.
Virgin == [approved |-> FALSE, bound |-> NoRecipe, baseline |-> None, pin |-> None,
           quarantine |-> "none", runs |-> 0]

\* _poisoned_meta(): the refusal that stands in for a sidecar not understood.
Poisoned == [Virgin EXCEPT !.quarantine = "meta_unreadable"]

\* The updates, each the `mutate` of one writer of the sidecar.
Updates == [kind : {"approve", "unapprove", "learn", "quarantine", "release", "record"},
            steps : Recipes, author : Authors \cup {None}, reseed : BOOLEAN]

Update(kind) == [kind |-> kind, steps |-> NoRecipe, author |-> None, reseed |-> FALSE]
Approve(r) == [Update("approve") EXCEPT !.steps = r]
Learn(a, reseed) == [Update("learn") EXCEPT !.author = a, !.reseed = reseed]

Apply(u, m) ==
  CASE u.kind = "approve" -> [m EXCEPT !.approved = TRUE, !.bound = u.steps]
    [] u.kind = "unapprove" -> [m EXCEPT !.approved = FALSE]
    [] u.kind = "learn" -> [m EXCEPT !.pin = u.author,
                                     !.baseline = IF u.reseed THEN u.author ELSE @]
    [] u.kind = "quarantine" -> [m EXCEPT !.quarantine = "value"]
    [] u.kind = "release" -> [m EXCEPT !.quarantine = "none"]
    [] u.kind = "record" -> [m EXCEPT !.runs = @ + 1]
===============================================================================
