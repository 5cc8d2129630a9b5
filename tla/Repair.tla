--------------------------------- MODULE Repair ---------------------------------
(***************************************************************************)
(* The engine's replay of a cached recipe under drift (_replay,            *)
(* _replay_step): the gate before a write, the look at a page that may not *)
(* have painted yet, the act, and the two repairs, of one step by the      *)
(* model (_maybe_heal) and of the whole tail (suffix-replan), with what    *)
(* they leave in the cache.                                                *)
(*                                                                         *)
(* The page changes whenever it likes.  A write may leave the browser      *)
(* while its step acts or be put off by the page.                          *)
(***************************************************************************)
EXTENDS Naturals, Sequences

CONSTANTS
  Recipes,  \* the recipes that may be cached at first
  MaxTail,     \* bound on the steps a replan authors
  Runs      \* bound on the replays

Sends == {"no", "now", "later"}

\* gated: step.mutating; slot: the step types a value of the row; text: whose value
\* is written in the recipe; sends: does the act cause a write, at once or put off.
Steps == [gated : BOOLEAN, slot : BOOLEAN, text : {"frozen", "model"}, sends : Sends]

\* What the model may propose; marked: classify_mutation takes it for a write.
Proposals == [act : {"type", "click", "other"}, marked : BOOLEAN, sends : Sends]

\* A learned recipe gates the steps that write.
ASSUME RecipesAssumption ==
  Recipes \subseteq {r \in Seq(Steps) :
    \A j \in DOMAIN r : /\ r[j].text = "frozen"
                        /\ r[j].gated <=> r[j].sends # "no"
                        /\ r[j].slot => ~r[j].gated}
ASSUME BoundsAssumption == MaxTail \in Nat /\ Runs \in Nat

VARIABLES
  recipe,    \* <key>.json
  runs,
  answer,    \* of the last run
  \* a replay
  pc,
  flow,      \* its copy of the recipe, which a heal changes
  provider,  \* is there a model to repair with?
  params,    \* is the run bound to a row?
  i,
  dirty,     \* is the copy worth writing back?
  typed,     \* history: the value typed at each step
  acted,     \* history: how often each step was acted
  model,     \* history: did a request of the model's doing leave as a write, watched?
  \* a step
  view,      \* what of the target the page shows
  gating,    \* is the look for the gate?
  bound,     \* what the look bound
  rival,     \* history: a look at this step was refused
  busy,      \* requests were in flight when the wait began
  \* the wire, and its watcher
  pending,   \* whose writes the page has put off
  heal,      \* what the model proposed for the step
  wrote,     \* the watcher of the repair saw a write
  tail       \* the steps the replan has authored

disk == <<recipe, runs>>
run == <<flow, provider, params, i, dirty, typed, acted, model>>
look == <<gating, bound, rival, busy>>
wire == <<pending, heal, wrote, tail>>
vars == <<disk, answer, pc, run, view, look, wire>>

\* blank: nothing matches; rival: the target and another; wrong: only another.
Views == {"blank", "target", "rival", "wrong"}
None == "none"
NoProposal == [act |-> "other", marked |-> FALSE, sends |-> "no"]

Init ==
  /\ recipe \in Recipes
  /\ runs = 0
  /\ answer = None
  /\ pc = "idle"
  /\ flow = recipe
  /\ provider = FALSE
  /\ params = FALSE
  /\ i = 1
  /\ dirty = FALSE
  /\ typed = <<>>
  /\ acted = <<>>
  /\ model = FALSE
  /\ view = "blank"
  /\ gating = FALSE
  /\ bound = None
  /\ rival = FALSE
  /\ busy = FALSE
  /\ pending = {}
  /\ heal = NoProposal
  /\ wrote = FALSE
  /\ tail = <<>>

Cur == flow[i]

\* The next step, or the end of a replay that went well; a dirty copy is put.
Advance(f, d) ==
  /\ gating' = FALSE
  /\ bound' = None
  /\ rival' = FALSE
  /\ busy' = FALSE
  /\ IF i < Len(flow)
     THEN /\ i' = i + 1
          /\ pc' = "step"
          /\ UNCHANGED <<recipe, answer>>
     ELSE /\ pc' = "idle"
          /\ answer' = "ok"
          /\ recipe' = IF d THEN f ELSE recipe
          /\ UNCHANGED i

Fail ==
  /\ pc' = "idle"
  /\ answer' = "failed"
  /\ UNCHANGED <<recipe, i, look>>

\* A step that failed: a read that is not bound to a row is replanned if there is a
\* model, with a watcher of its own; anything else ends the run.
Failed ==
  /\ IF provider /\ ~Cur.gated /\ ~params
     THEN pc' = "replan" /\ wrote' = FALSE /\ UNCHANGED answer
     ELSE pc' = "idle" /\ answer' = "failed" /\ UNCHANGED wrote
  /\ heal' = NoProposal
  /\ UNCHANGED <<recipe, i, look, tail>>

-------------------------------------------------------------------------------
(* The run, and the page.                                                  *)

\* run_cached with mode "replay", or with a model to repair with.
Begin ==
  /\ pc = "idle"
  /\ runs < Runs
  /\ runs' = runs + 1
  /\ IF recipe = <<>>
     THEN answer' = "ok" /\ UNCHANGED pc
     ELSE answer' = None /\ pc' = "step"
  /\ flow' = recipe
  /\ provider' \in BOOLEAN
  /\ params' \in BOOLEAN
  /\ i' = 1
  /\ dirty' = FALSE
  /\ typed' = [j \in DOMAIN recipe |-> None]
  /\ acted' = [j \in DOMAIN recipe |-> 0]
  /\ model' = FALSE
  /\ view' = "blank"
  /\ gating' = FALSE
  /\ bound' = None
  /\ rival' = FALSE
  /\ busy' = FALSE
  /\ pending' = {}
  /\ heal' = NoProposal
  /\ wrote' = FALSE
  /\ tail' = <<>>
  /\ UNCHANGED recipe

\* An interstitial, or an exception of the browser or the model.
Raises ==
  /\ pc # "idle"
  /\ pc' = "idle"
  /\ answer' = "failed"
  /\ UNCHANGED <<disk, run, view, look, wire>>

Paint ==
  /\ pc \in {"look", "settle", "relook", "act"}
  /\ view' \in Views
  /\ UNCHANGED <<disk, answer, pc, run, look, wire>>

\* A write the page had put off leaves; the watcher of a heal sees it, the watcher
\* of a replan only inside the window or the tail of one of its steps.
Leaves ==
  /\ pc # "idle"
  /\ \E who \in pending :
       /\ pending' = pending \ {who}
       /\ \/ /\ pc = "healed" \/ pc = "replan"
             /\ wrote' = TRUE
             /\ model' = (model \/ who = "model")
          \/ /\ pc # "healed"
             /\ UNCHANGED <<wrote, model>>
  /\ UNCHANGED <<disk, answer, pc, flow, provider, params, i, dirty, typed, acted, view, look, heal, tail>>

-------------------------------------------------------------------------------
(* The look at the page, for the gate and for the act.                     *)

\* A write is gated first.
Step ==
  /\ pc = "step"
  /\ gating' = Cur.gated
  /\ pc' = "look"
  /\ view' \in Views
  /\ UNCHANGED <<disk, answer, run, bound, rival, busy, wire>>

\* resolve(unique=True): nothing matched, the page answered and the resolver
\* refused, or one element was bound.
Resolves ==
  CASE view = "blank" -> {"empty"}
    [] view = "rival" -> {"refused"}
    [] view = "target" -> {"target"}
    [] view = "wrong" -> {"wrong", "refused"}

\* No element: the gate reads it as drift, the act asks for a repair.
Unbound ==
  /\ IF gating
     THEN pc' = "idle" /\ answer' = "failed"
     ELSE pc' = "heal" /\ UNCHANGED answer
  /\ UNCHANGED <<recipe, i>>

\* An element: the gate compares its form, which may have drifted; a gated step
\* is then resolved a second time to act.
Bind(r) ==
  \/ /\ gating
     /\ pc' = "look"
     /\ gating' = FALSE
     /\ UNCHANGED <<answer, bound>>
  \/ /\ gating
     /\ pc' = "idle"
     /\ answer' = "failed"
     /\ UNCHANGED <<gating, bound>>
  \/ /\ ~gating
     /\ pc' = "act"
     /\ bound' = r
     /\ UNCHANGED <<gating, answer>>

Look ==
  /\ pc = "look"
  /\ \E r \in Resolves :
       \/ /\ r \in {"target", "wrong"}
          /\ Bind(r)
          /\ UNCHANGED <<recipe, i, rival, busy>>
       \/ /\ r = "refused"
          /\ rival' = TRUE
          /\ Unbound
          /\ UNCHANGED <<gating, bound, busy>>
       \/ /\ r = "empty"
          /\ pc' = "settle"
          /\ busy' \in BOOLEAN
          /\ UNCHANGED <<recipe, answer, i, gating, bound, rival>>
  /\ UNCHANGED <<runs, flow, provider, params, dirty, typed, acted, model, view, wire>>

\* await_settled: a page that was quiet already has not changed.
Settle ==
  /\ pc = "settle"
  /\ \/ pc' = "relook" /\ UNCHANGED <<recipe, answer, i>>
     \/ Unbound
  /\ UNCHANGED <<runs, flow, provider, params, dirty, typed, acted, model, view, look, wire>>
\* Looks that follow while requests were in flight when the wait began, until the
\* deadline; one that found the page idle to begin with is followed by one look.
Relook ==
  /\ pc = "relook"
  /\ \E r \in Resolves :
       \/ /\ r \in {"target", "wrong"}
          /\ Bind(r)
          /\ UNCHANGED <<recipe, i, rival, busy>>
       \/ /\ r = "refused"
          /\ rival' = TRUE
          /\ Unbound
          /\ UNCHANGED <<gating, bound, busy>>
       \/ /\ r = "empty"
          /\ \/ Unbound
             \/ busy /\ UNCHANGED <<recipe, answer, pc, i>>
          /\ UNCHANGED look
  /\ UNCHANGED <<runs, flow, provider, params, dirty, typed, acted, model, view, wire>>

-------------------------------------------------------------------------------
(* The act, and the barrier after a write.                                 *)

\* What an act that sends does to the wire.
Sent(sends, who) ==
  pending' = IF sends = "later" THEN pending \cup {who} ELSE pending

\* A write acts under its key; the value of a slot is the row's.
Act ==
  /\ pc = "act"
  /\ acted' = [acted EXCEPT ![i] = @ + 1]
  /\ Sent(Cur.sends, "recipe")
  /\ typed' = IF Cur.slot THEN [typed EXCEPT ![i] = IF params THEN "caller" ELSE Cur.text]
                         ELSE typed
  /\ \/ /\ Cur.gated
        /\ pc' = "barrier"
        /\ UNCHANGED <<recipe, answer, i, look>>
     \/ /\ ~Cur.gated
        /\ Advance(flow, dirty)
     \/ /\ pc' = "heal"
        /\ UNCHANGED <<recipe, answer, i, look>>
  /\ UNCHANGED <<runs, flow, provider, params, dirty, model, view, heal, wrote, tail>>

\* The signal of the write appears where it was absent, or the run stops here.
Barrier ==
  /\ pc = "barrier"
  /\ Advance(flow, dirty) \/ Fail
  /\ UNCHANGED <<runs, flow, provider, params, dirty, typed, acted, model, view, wire>>

-------------------------------------------------------------------------------
(* _maybe_heal                                                             *)

\* Fault: a write may be healed as well.
HealableAny == provider

Healable == provider /\ ~Cur.gated

\* No model, or a write.
HealSkipped ==
  /\ pc = "heal"
  /\ ~Healable
  /\ Failed
  /\ UNCHANGED <<runs, flow, provider, params, dirty, typed, acted, model, view, pending>>

\* The model declines, or proposes what the classifier takes for a write: only the
\* former counts as a heal.
HealDeclined ==
  /\ pc = "heal"
  /\ Healable
  /\ dirty' \in {TRUE, dirty}
  /\ Failed
  /\ UNCHANGED <<runs, flow, provider, params, typed, acted, model, view, pending>>

\* Fault: the model chooses the value.
TypesFreely(p) == IF p.act = "type" THEN [typed EXCEPT ![i] = "model"] ELSE typed

\* The value of a slot is forced to be the row's.
Types(p) ==
  IF p.act = "type" THEN [typed EXCEPT ![i] = IF params /\ Cur.slot THEN "caller" ELSE "model"]
                    ELSE typed

\* The proposal acts, watched.
HealAct ==
  /\ pc = "heal"
  /\ Healable
  /\ \E p \in Proposals :
       /\ ~p.marked
       /\ heal' = p
       /\ acted' = [acted EXCEPT ![i] = @ + 1]
       /\ typed' = Types(p)
       /\ Sent(p.sends, "model")
       /\ wrote' = (p.sends = "now")
       /\ model' = (model \/ p.sends = "now")
  /\ pc' = "healed"
  /\ UNCHANGED <<disk, answer, flow, provider, params, i, dirty, view, look, tail>>

\* The act failed, or it wrote, or it was a click that changed nothing: nothing of
\* it is kept.
HealFails ==
  /\ pc = "healed"
  /\ dirty' \in {TRUE, dirty}
  /\ Failed
  /\ UNCHANGED <<runs, flow, provider, params, typed, acted, model, view, pending>>

\* The step as the model found it: where it acts, and what it types unless that is
\* a slot's.
Healed ==
  [Cur EXCEPT !.sends = IF heal.act = "other" THEN @ ELSE heal.sends,
              !.text = IF heal.act = "type" /\ ~Cur.slot THEN "model" ELSE @]

\* Fault: what was seen on the wire does not matter.
HealEndsUnwatched ==
  /\ pc = "healed"
  /\ flow' = [flow EXCEPT ![i] = Healed]
  /\ dirty' = TRUE
  /\ Advance(flow', TRUE)
  /\ heal' = NoProposal
  /\ UNCHANGED <<runs, provider, params, typed, acted, model, view, pending, wrote, tail>>

HealEnds ==
  /\ pc = "healed"
  /\ ~wrote
  /\ flow' = [flow EXCEPT ![i] = Healed]
  /\ dirty' = TRUE
  /\ Advance(flow', TRUE)
  /\ heal' = NoProposal
  /\ UNCHANGED <<runs, provider, params, typed, acted, model, view, pending, wrote, tail>>

-------------------------------------------------------------------------------
(* Suffix-replan                                                           *)

\* _author_steps with block_mutations: what the classifier takes for a write is not
\* acted; a step whose act failed is not kept.
ReplanAct ==
  /\ pc = "replan"
  /\ Len(tail) < MaxTail
  /\ \E p \in Proposals :
       /\ ~p.marked
       /\ Sent(p.sends, "model")
       /\ wrote' = (wrote \/ p.sends = "now")
       /\ model' = (model \/ p.sends = "now")
       /\ tail' \in {tail, Append(tail, [gated |-> FALSE, slot |-> FALSE, text |-> "frozen",
                                         sends |-> p.sends])}
  /\ UNCHANGED <<disk, answer, pc, flow, provider, params, i, dirty, typed, acted, view, look, heal>>

\* A tail that wrote is not kept; any other, or none if the model says the goal is
\* met, is joined to the steps before the one that failed.
ReplanEnds ==
  /\ pc = "replan"
  /\ \/ /\ ~wrote
        /\ flow' = SubSeq(flow, 1, i - 1) \o tail
        /\ dirty' = TRUE
        /\ recipe' = flow'
        /\ answer' = "ok"
     \/ /\ answer' = "failed"
        /\ UNCHANGED <<flow, dirty, recipe>>
  /\ pc' = "idle"
  /\ tail' = <<>>
  /\ UNCHANGED <<runs, provider, params, i, typed, acted, model, view, look, pending, heal, wrote>>

Next ==
  \/ Begin
  \/ Raises
  \/ Paint
  \/ Leaves
  \/ Step
  \/ Look
  \/ Settle
  \/ Relook
  \/ Act
  \/ Barrier
  \/ HealSkipped
  \/ HealDeclined
  \/ HealAct
  \/ HealFails
  \/ HealEnds
  \/ ReplanAct
  \/ ReplanEnds

Spec == Init /\ [][Next]_vars

-------------------------------------------------------------------------------
(* Properties                                                              *)

\* The shape of the state.
TypeOK ==
  /\ recipe \in Seq(Steps)
  /\ runs \in 0..Runs
  /\ answer \in {None, "ok", "failed"}
  /\ pc \in {"idle", "step", "look", "settle", "relook", "act", "barrier", "heal", "healed",
             "replan"}
  /\ flow \in Seq(Steps)
  /\ provider \in BOOLEAN /\ params \in BOOLEAN
  /\ pc # "idle" => i \in DOMAIN flow /\ DOMAIN typed = DOMAIN flow /\ DOMAIN acted = DOMAIN flow
  /\ dirty \in BOOLEAN /\ model \in BOOLEAN
  /\ \A j \in DOMAIN typed : typed[j] \in {None, "frozen", "model", "caller"}
  /\ \A j \in DOMAIN acted : acted[j] \in Nat
  /\ view \in Views
  /\ gating \in BOOLEAN /\ rival \in BOOLEAN /\ busy \in BOOLEAN
  /\ bound \in {None, "target", "wrong"}
  /\ pending \subseteq {"recipe", "model"}
  /\ heal \in Proposals
  /\ wrote \in BOOLEAN
  /\ tail \in Seq(Steps) /\ Len(tail) <= MaxTail

\* In one run a step that writes is acted once at most: neither a repair nor a second
\* look acts it again, whatever its first act came to.
WritesActOnce == pc # "idle" => \A j \in DOMAIN acted : flow[j].gated => acted[j] <= 1

\* A recipe never has a step without a gate that writes while it acts: what a repair
\* was seen to write is not kept.
NoLaunderedWrite == \A j \in DOMAIN recipe : ~recipe[j].gated => recipe[j].sends # "now"

\* What is typed at a slot of a run that is bound to a row is the row's value, and
\* what is written at a slot of the recipe is never the model's.
SlotsAreTheCallers ==
  /\ params /\ pc # "idle" =>
       \A j \in DOMAIN typed : flow[j].slot => typed[j] \in {None, "caller"}
  /\ \A j \in DOMAIN recipe : recipe[j].slot => recipe[j].text = "frozen"

\* An element that only stood in for the target is never bound after a look in which
\* it competed with it: a refusal is not waited out.
RefusalsStand == bound = "wrong" => ~rival

-------------------------------------------------------------------------------
(* What the code does not keep: known limits, stated for the record.        *)

\* A run in which a request of the model's doing was seen to write does not succeed:
\* fails if a replan follows a heal that wrote (_replay's "fail loud instead").
RepairWriteFails == answer = "ok" => ~model

\* _maybe_heal says of a repair that it never changes what value a step types: when a
\* write acts in a run bound to a row, every slot before it would hold the row's value.
\* Fails if the model proposes a click for a step that types.
WritesTheRow ==
  params /\ pc # "idle" =>
    \A j \in DOMAIN acted : flow[j].gated /\ acted[j] > 0
      => \A k \in 1..(j - 1) : flow[k].slot => typed[k] = "caller"
===============================================================================
