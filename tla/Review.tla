--------------------------------- MODULE Review ---------------------------------
(***************************************************************************)
(* What a human's review of one flow holds (flows.py, contracts.py): learn *)
(* and record author a recipe with the marks of its steps and where they   *)
(* come from, mark_step overrules a mark, approve binds the recipe and the *)
(* spec, and replay checks that binding, then the shape and the values of  *)
(* what it read against the sample of the last learn.  Calls run one after *)
(* the other, in any order; TrustStore has their interleavings and Fleet   *)
(* the magnitude of values.                                                *)
(***************************************************************************)
EXTENDS Naturals, Sequences, FiniteSets, Functions

CONSTANTS
  Pages,  \* what a site may be when a recipe is authored on it
  Reads,  \* what a replay may read: a value, and was the text of its page cut?
  Specs   \* the FlowSpecs a human may write

\* A control: what the classifier makes of its name and form, is it in a form, what it
\* sends when it is used (by method, a read over POST is a write), does a caption of
\* it have a keyword.  provable: the page proves the cause of each write it issued; reads:
\* what the learn may extract there.
ControlType == [guess : {"none", "keyword", "form_method"}, form : BOOLEAN,
                sends : {"none", "write", "read"}, caption : BOOLEAN]

ASSUME ReviewAssumption ==
  /\ \A p \in Pages : p.controls \in Seq(ControlType) /\ p.provable \in BOOLEAN
                      /\ p.reads \subseteq Reads
  /\ \A e \in Reads :
       /\ e.value.t \in {"number", "string", "null", "object", "array"} /\ e.cut \in BOOLEAN
       /\ e.value.t = "array" => e.value.a \in Seq(Range(e.value.a))
  /\ \A s \in Specs : /\ s.declared \in BOOLEAN /\ s.barriers \in 0..2
                      /\ s.barriers > 0 => s.declared

VARIABLES
  recipe,    \* {} or the cached steps and, as history, how they came about
  spec,      \* the FlowSpec: declared (mutate), barriers, slots, overlay (contracts)
  approved,  \* FlowMeta.approved
  bound,     \* its three hashes, {} while there is no approval
  baseline,  \* {} or the learn that FlowMeta.shape and .contracts come from
  held,      \* FlowMeta.quarantine
  blessed    \* history: what there was at the last approve

reviewVars == <<recipe, spec, approved, bound, baseline, held, blessed>>

Marks == {"keyword", "form_method", "wire", "body_read", "overgate", "declared",
          "caption", "human", "unknown"}
StepType == [control : ControlType, marked : BOOLEAN, sources : SUBSET Marks,
             gate : BOOLEAN, confirm : BOOLEAN]

If(c, m) == IF c THEN {m} ELSE {}

-------------------------------------------------------------------------------
(* Authoring.                                                              *)

\* classify_mutation_with_source.
Classified(c) == If(c.guess # "none", c.guess)

\* The cached steps and how they came about: which of them were seen to write, and were the
\* others marked with them?
Recipe(steps, how, p, wrote, over) ==
  {[steps |-> steps, how |-> how, page |-> p, declared |-> how = "record" /\ spec.declared,
    wrote |-> wrote, over |-> over]}

\* What _watch_request makes of what the steps send, each at its own step or at a later
\* one: a request belongs to the one step whose window or tail was open; with several open
\* a write is nobody's, and all that is known is the step in flight.  0 is an act that
\* failed: it has no step.  A request outside all windows is not seen.  (Who was in flight
\* is asked only while no write has an owner, and one step of them that is marked will do.)
Sightings(p) ==
  LET At(kind) == {k \in 0..Len(p.controls) :
                     \E j \in DOMAIN p.controls : p.controls[j].sends = kind /\ (k = 0 \/ j <= k)}
      InFlight == {{}} \cup {{k} : k \in At("write")}
  IN {x \in [wrote : SUBSET At("write"), acting : InFlight, read : SUBSET (At("read") \ {0})] :
        x.wrote = {} \/ x.acting = {}}

\* What has a mark once the steps that were seen to write are promoted.
Gated(p, seen) == {i \in DOMAIN p.controls : Classified(p.controls[i]) # {} \/ i \in seen.wrote}

\* A write was seen, and no step can be held to it: the step that owns it has failed, or
\* none owns it and the marks are not on a step that was in flight.
Unattributed(p, seen) ==
  \/ 0 \in seen.wrote
  \/ seen.wrote = {} /\ seen.acting # {} /\ seen.acting \cap Gated(p, seen) = {}

\* The marks agree with what was in flight, but the page does not prove it.
OverGates(p, seen) == seen.wrote = {} /\ seen.acting # {} /\ ~p.provable

\* _author_steps: what was seen to write is marked; if no write is anybody's and its cause
\* cannot be proved, so is every other step.  The fingerprint of the page is always there.
Learned(p, seen) ==
  LET Step(i) ==
        LET c == p.controls[i]
            own == Classified(c) \cup If(i \in seen.wrote, "wire")
            over == OverGates(p, seen) /\ own = {}
        IN [control |-> c, marked |-> over \/ own # {},
            sources |-> own \cup If(i \in seen.read \ seen.wrote, "body_read")
                            \cup If(over, "overgate"),
            gate |-> TRUE, confirm |-> FALSE]
  IN [i \in DOMAIN p.controls |-> Step(i)]

\* record_demo: only a declared write has its steps gated by their requests, their forms
\* and their captions.
Recorded(p) ==
  LET Step(c) ==
        LET own == Classified(c) \cup If(spec.declared /\ c.form, "declared")
                                 \cup If(spec.declared /\ c.sends # "none", "wire")
            all == own \cup If(spec.declared /\ own = {} /\ c.caption, "caption")
        IN [control |-> c, marked |-> all # {}, sources |-> all,
            gate |-> all # {} /\ (spec.declared \/ c.form), confirm |-> FALSE]
  IN [i \in DOMAIN p.controls |-> Step(p.controls[i])]

\* Before 0.92 a mark did not say where it came from.
Before92(p, seen) ==
  [i \in DOMAIN p.controls |-> [Learned(p, seen)[i] EXCEPT !.sources = {}]]

MarkedIn(steps) == {i \in DOMAIN steps : steps[i].marked}

\* _attach_step_confirms: one barrier for each marked step, in order, or none at all.
Attachable(steps) == spec.barriers \in {0, Cardinality(MarkedIn(steps))}
Attach(steps) ==
  [i \in DOMAIN steps |->
     [steps[i] EXCEPT !.confirm = spec.barriers > 0 /\ steps[i].marked]]

\* _approval_recipe_stale compares steps_hash: everything of the steps but the sources.
Digest(r) ==
  [i \in DOMAIN r.steps |->
     LET s == r.steps[i] IN [intent |-> s.control.guess, marked |-> s.marked,
                             gate |-> s.gate, confirm |-> s.confirm]]
Binding == {[steps |-> Digest(r), slots |-> spec.slots, overlay |-> spec.overlay] : r \in recipe}

ReseedsAlways == TRUE

\* An approved flow keeps what its values are compared with.
Reseeds == ~approved

\* record()'s refusals once its steps are there (flows.py:5242-5351).
Keeps(p, steps) ==
  LET posts == \E i \in DOMAIN p.controls : p.controls[i].sends # "none" IN
  IF spec.declared
  THEN /\ \A i \in MarkedIn(steps) : steps[i].gate
       /\ posts => p.provable
       /\ Attachable(steps)
  ELSE ~posts /\ MarkedIn(steps) = {}

-------------------------------------------------------------------------------
(* Value contracts: a function of the paths of fields to their predicates. *)

Root == <<"root">>
Key(k) == <<"key", k>>
Item == <<"item">>
ItemKey(k) == <<"item", k>>
NoChecks == <<>>

\* contract_type, safe_pattern: a string is an ISO date (1) or just text (0).
Leaf == {"number", "string"}
IsDate(v) == v.t = "string" /\ v.v = 1
IsPositive(v) == v.t = "number" /\ v.v > 0

\* A path has a contract, or an attribute a value, if c holds; f over g.  (TLC's :> and @@,
\* as functions that can be reasoned about.)
Given(c, at, value) == [x \in If(c, at) |-> value]
Over(f, g) == [x \in DOMAIN f \cup DOMAIN g |-> IF x \in DOMAIN f THEN f[x] ELSE g[x]]

\* What all of some values have in common.
Common(vs) ==
  Over(Given(\E t \in Leaf : \A v \in vs : v.t = t, "type", (CHOOSE v \in vs : TRUE).t),
  Over(Given(\A v \in vs : IsPositive(v), "positive", TRUE),
       Given(\A v \in vs : IsDate(v), "pattern", TRUE)))

SeedSingle(v) ==
  IF v.t \in Leaf THEN Over(Common({v}), Given(TRUE, "nullable", FALSE)) ELSE NoChecks

\* _seed_items; null_rate_max is 0.2.
SeedItems(vs, cut) ==
  LET there == {v \in Range(vs) : v.t # "null"} IN
  IF there = {} THEN NoChecks ELSE Over(Given(~cut, "null_rate_max", 20), Common(there))

CountFloor(n, cut) == IF cut \/ n < 1 THEN 0 ELSE IF n >= 5 THEN n \div 2 ELSE 1

Null == [t |-> "null"]
Get(o, k) == IF o.t = "object" /\ k \in DOMAIN o.f THEN o.f[k] ELSE Null
Column(vs, k) == [i \in DOMAIN vs |-> Get(vs[i], k)]
AllOf(vs, ts) == vs # <<>> /\ \A i \in DOMAIN vs : vs[i].t \in ts

\* seed_contracts, the paths it gives predicates to.
Contracts(e) ==
  LET d == e.value
      floor == CountFloor(Len(d.a), e.cut)
      keys == UNION {DOMAIN d.a[i].f : i \in DOMAIN d.a}
  IN CASE d.t = "array" ->
            Over(Given(TRUE, Root, Given(floor > 0, "min_count", floor)),
            Over(Given(AllOf(d.a, Leaf \cup {"null"}), Item, SeedItems(d.a, e.cut)),
                 [p \in {ItemKey(k) : k \in IF AllOf(d.a, {"object"}) THEN keys ELSE {}} |->
                    SeedItems(Column(d.a, p[2]), e.cut)]))
       [] d.t = "object" -> [p \in {Key(k) : k \in DOMAIN d.f} |-> SeedSingle(d.f[p[2]])]
       [] OTHER -> Given(TRUE, Root, SeedSingle(d))

Seed(e) == LET c == Contracts(e) IN Restrict(c, {p \in DOMAIN c : c[p] # NoChecks})

\* effective_contracts: the human's attributes over the seed's.
At(c, p) == IF p \in DOMAIN c THEN c[p] ELSE NoChecks
Effective(seed, overlay) ==
  [p \in DOMAIN seed \cup DOMAIN overlay |-> Over(At(overlay, p), At(seed, p))]

Has(c, attr) == attr \in DOMAIN c
Set(c, attr, default) == IF Has(c, attr) THEN c[attr] ELSE default

ScalarFails(c, v) ==
  IF v.t = "null" THEN ~Set(c, "nullable", TRUE)
  ELSE \/ Has(c, "type") /\ v.t # c["type"]
       \/ Set(c, "positive", FALSE) /\ v.t = "number" /\ ~IsPositive(v)
       \/ Has(c, "max") /\ v.t = "number" /\ v.v > c["max"]
       \/ Has(c, "pattern") /\ v.t = "string" /\ ~IsDate(v)

ListFails(c, vs, cut) ==
  LET nulls == Cardinality({i \in DOMAIN vs : vs[i].t = "null"}) IN
  \/ Len(vs) < Set(c, "min_count", 0)
  \/ ~cut /\ nulls * 100 > Set(c, "null_rate_max", 100) * Len(vs)
  \/ \E i \in DOMAIN vs : ScalarFails(c, vs[i])

PathFails(p, c, e) ==
  LET d == e.value IN
  CASE p[1] = "item" ->
         /\ d.t = "array"
         /\ IF p = Item THEN ListFails(c, d.a, e.cut)
            ELSE \/ \E i \in DOMAIN d.a : d.a[i].t # "object"
                 \/ ListFails(c, Column(d.a, p[2]), e.cut)
    [] p[1] = "key" -> d.t = "object" /\ p[2] \in DOMAIN d.f /\ ScalarFails(c, d.f[p[2]])
    [] OTHER -> IF d.t = "array" /\ (Has(c, "min_count") \/ Has(c, "null_rate_max"))
                THEN ListFails(c, d.a, e.cut) ELSE ScalarFails(c, d)

\* check_contracts finds something.
Violates(eff, e) ==
  \E p \in DOMAIN eff : Set(eff[p], "enabled", TRUE) /\ PathFails(p, eff[p], e)

\* _shape_of and _shape_matches: an array is as its items are if they are all alike.
Flat(v) == [t |-> v.t, keys |-> IF v.t = "object" THEN DOMAIN v.f ELSE {}]
Kinds(v) == IF v.t = "array" THEN {Flat(v.a[i]) : i \in DOMAIN v.a} ELSE {}
ShapeMatches(old, new) ==
  /\ Flat(old) = Flat(new)
  /\ Cardinality(Kinds(old)) = 1 /\ Cardinality(Kinds(new)) = 1 => Kinds(old) = Kinds(new)

-------------------------------------------------------------------------------
ReviewInit ==
  /\ spec \in Specs
  /\ \/ recipe = {}
     \/ \E p \in Pages : \E seen \in Sightings(p) :
          /\ ~Unattributed(p, seen)
          /\ recipe = Recipe(Before92(p, seen), "before 0.92", p, seen.wrote, OverGates(p, seen))
  /\ approved = FALSE /\ bound = {} /\ baseline = {} /\ held = FALSE
  /\ blessed = {}

EditSpec ==
  /\ spec' \in Specs
  /\ UNCHANGED <<recipe, approved, bound, baseline, held, blessed>>

\* _learn_once with what its pass authored and read.  A write that is no step's deletes
\* what was there; barriers the steps do not fit, and more than one, which only record()
\* can place, delete what was put.
Learn ==
  \E p \in Pages : \E seen \in Sightings(p), e \in p.reads :
    LET steps == Learned(p, seen) IN
    /\ IF ~Unattributed(p, seen) /\ spec.barriers < 2 /\ Attachable(steps)
       THEN /\ recipe' = Recipe(Attach(steps), "learn", p, seen.wrote, OverGates(p, seen))
            /\ baseline' = IF Reseeds THEN {[read |-> e, declared |-> spec.declared]}
                           ELSE baseline
       ELSE recipe' = {} /\ UNCHANGED baseline
    /\ UNCHANGED <<spec, approved, bound, held, blessed>>

\* record(): it reads nothing, so it drops the baselines of an unapproved flow.
Record ==
  \E p \in Pages :
    LET steps == Recorded(p) IN
    /\ IF Keeps(p, steps)
       THEN /\ recipe' = Recipe(Attach(steps), "record", p, {}, FALSE)
            /\ baseline' = IF Reseeds THEN {} ELSE baseline
       ELSE recipe' = {} /\ UNCHANGED baseline
    /\ UNCHANGED <<spec, approved, bound, held, blessed>>

Approve ==
  /\ recipe # {}
  /\ approved' = TRUE
  /\ bound' = Binding
  /\ blessed' = {[binding |-> b, baseline |-> baseline, declared |-> spec.declared] : b \in Binding}
  /\ UNCHANGED <<recipe, spec, baseline, held>>

Unapprove ==
  /\ recipe # {}
  /\ approved' = FALSE /\ bound' = {} /\ blessed' = {}
  /\ UNCHANGED <<recipe, spec, baseline, held>>

\* _DEMOTABLE_MARKS.
Demotable == {"keyword", "caption", "human"}

RefusesDemotion(steps, i) ==
  LET s == steps[i] IN
  \/ s.marked /\ s.sources = {}
  \/ s.sources \ Demotable # {}
  \/ s.confirm
  \/ spec.declared /\ MarkedIn(steps) = {i}

PriorDropped(s) == {}

\* Something marked a step that says nothing of it.
Prior(s) == If(s.marked /\ s.sources = {}, "unknown")

MarkStep(writes) ==
  \E r \in recipe : \E i \in DOMAIN r.steps :
    LET s == r.steps[i] IN
    /\ IF writes THEN s.gate ELSE ~RefusesDemotion(r.steps, i)
    /\ recipe' = {[r EXCEPT !.steps[i] =
                     [s EXCEPT !.marked = writes,
                               !.sources = @ \cup {"human"} \cup Prior(s)]]}
    /\ UNCHANGED <<spec, approved, bound, baseline, held, blessed>>

MarkWrites == MarkStep(TRUE)
MarkReads == MarkStep(FALSE)

\* The gates of _preflight_row that read the sidecar, the spec and the recipe.
Refuses(require_approved) ==
  \/ held
  \/ spec.declared /\ \A r \in recipe : MarkedIn(r.steps) = {}
  \/ (require_approved \/ spec.declared) /\ ~approved
  \/ approved /\ bound # Binding

ShapeDrifts(e) == \E b \in baseline : ~ShapeMatches(b.read.value, e.value)

\* A write has no seed, and no value of it is checked.
Seeded == {b \in baseline : ~b.declared}
Wrong(e) ==
  /\ ~spec.declared
  /\ LET seed == IF Seeded = {} THEN NoChecks ELSE Seed((CHOOSE b \in Seeded : TRUE).read)
     IN Violates(Effective(seed, spec.overlay), e)

\* replay() reads e: refused or drifted it changes nothing here, nor if it returns e.
Reaches(e) == recipe # {} /\ ~Refuses(FALSE) /\ ~ShapeDrifts(e)
Returns(e) == Reaches(e) /\ ~Wrong(e)

Quarantine ==
  /\ {e \in Reads : Reaches(e) /\ Wrong(e)} # {}
  /\ held' = TRUE
  /\ UNCHANGED <<recipe, spec, approved, bound, baseline, blessed>>

Release ==
  /\ held
  /\ held' = FALSE
  /\ UNCHANGED <<recipe, spec, approved, bound, baseline, blessed>>

ReviewNext ==
  \/ EditSpec \/ Learn \/ Record \/ Approve \/ Unapprove
  \/ MarkWrites \/ MarkReads \/ Quarantine \/ Release

ReviewSpec == ReviewInit /\ [][ReviewNext]_reviewVars

-------------------------------------------------------------------------------
(* Properties.                                                             *)

ReviewTypeOK ==
  /\ \A r \in recipe : r.steps \in Seq(StepType)
  /\ spec \in Specs
  /\ {approved, held} \subseteq BOOLEAN
  /\ bound # {} <=> approved
  /\ \A b \in baseline : b.read \in Reads

\* What is known of a step beside its name: its form posts, it was seen to write, a write
\* was seen and it could have been this step's (unless its name had marked it already:
\* PrecautionStands), it posted or the human declared it as it was recorded, or it was
\* marked for reasons nobody wrote down.
Evidence(r, i) ==
  LET c == r.page.controls[i] IN
     \/ c.guess = "form_method"
     \/ i \in r.wrote
     \/ r.over /\ c.guess = "none"
     \/ r.how = "record" /\ (c.sends # "none" \/ (r.declared /\ c.form))
     \/ r.how = "before 0.92" /\ c.guess # "none"

\* mark_step (flows.py:2173-2307): no sequence of calls, each of them legal, takes the
\* mark off a step that more than a guess speaks for, and a marked step has a
\* precondition for the mutation gate.
EvidenceStands ==
  \A r \in recipe : \A i \in DOMAIN r.steps :
    /\ Evidence(r, i) => r.steps[i].marked
    /\ r.steps[i].marked => r.steps[i].gate

\* A value may be where the learned one was: by the learned value, not by predicates.
Like(old, new) ==
  /\ new.t = old.t
  /\ IsPositive(old) => IsPositive(new)
  /\ IsDate(old) => IsDate(new)

\* A column of values may be where the learned one was: at most a fifth is missing, and
\* what all of the learned ones were, the new ones are.
LikeColumn(old, new, cut) ==
  LET there == {v \in Range(old) : v.t # "null"}
      missing == Cardinality({i \in DOMAIN new : new[i].t = "null"})
  IN there # {} =>
       /\ cut \/ missing * 5 <= Len(new)
       /\ \A v \in {x \in Range(new) : x.t # "null"} :
            /\ \A t \in Leaf : (\A o \in there : o.t = t) => v.t = t
            /\ (\A o \in there : IsPositive(o)) => IsPositive(v)
            /\ (\A o \in there : IsDate(o)) => IsDate(v)

\* The value may be returned where `old` was learned, but for what the overlay is about.
Plausible(old, new, overlay) ==
  LET o == old.value
      d == new.value
      Free(p) == p \notin DOMAIN overlay
      cut == old.cut \/ new.cut
  IN /\ d.t = o.t
     /\ o.t \in Leaf /\ Free(Root) => Like(o, d)
     /\ o.t = "object" =>
          \A k \in DOMAIN o.f : o.f[k].t \in Leaf /\ Free(Key(k)) => Like(o.f[k], d.f[k])
     /\ o.t = "array" =>
          /\ Free(Root) /\ ~old.cut /\ o.a # <<>> => d.a # <<>> /\ (Len(o.a) >= 5 => 2 * Len(d.a) + 1 >= Len(o.a))
          /\ AllOf(o.a, Leaf \cup {"null"}) /\ Free(Item) => LikeColumn(o.a, d.a, cut)
          /\ AllOf(o.a, {"object"}) =>
               \A k \in DOMAIN o.a[1].f :
                 LET there == {v \in Range(Column(o.a, k)) : v.t # "null"} IN
                 Free(ItemKey(k)) /\ there # {} =>
                   /\ ~old.cut \/ (\E t \in Leaf : \A v \in there : v.t = t) =>
                        \A i \in DOMAIN d.a : d.a[i].t = "object"
                   /\ LikeColumn(Column(o.a, k), Column(d.a, k), cut)

\* approve and the gates of replay (flows.py:2135, 3479, 3278): what an approved flow
\* returns was read by the steps, slots and contracts a human said yes to, and does not
\* contradict the sample that was behind them then, whatever was learned, recorded,
\* marked, edited or released since; a declared write runs approved.
ReturnsAsReviewed ==
  \A e \in Reads : Returns(e) =>
    /\ spec.declared => approved
    /\ approved => \A b \in blessed :
         /\ Binding = {b.binding}
         /\ ~spec.declared =>
              \A s \in b.baseline :
                s.declared \/ Plausible(s.read, e, b.binding.overlay)

-------------------------------------------------------------------------------
(* What comments say and the code does not keep (known limits).            *)

\* A page that is read again as it was learned is not a wrong value
\* (contracts.py:15-17, single-sample-safe seeding).  A list with more than a fifth of
\* its values missing is.
LearnedSampleHolds ==
  \A b \in Seeded : ~Violates(Effective(Seed(b.read), NoChecks), b.read)

\* The verb is reversible (flows.py:2178-2183).  Not once body_read is among the
\* sources, or if the only step of a declared write is the one to take back.
Reversible ==
  \A r \in recipe : r.how = "learn" => \A i \in DOMAIN r.steps :
    LET unmarked == r.page.controls[i].guess = "none" /\ i \notin r.wrote /\ ~r.over IN
    unmarked /\ r.steps[i].marked /\ ~spec.declared => ~RefusesDemotion(r.steps, i)

\* A human does not overrule a POST that was watched leaving the browser
\* (flows.py:2199-2202).  If it is a step in flight whose name happens to be marked that
\* the write is held to, or another write has an owner, the step that sends it has no mark
\* but its name, or none at all, and the page may write with nothing marked.
WatchedWriteStands ==
  \A r \in recipe : r.how = "learn" => \A i \in DOMAIN r.steps :
    r.page.controls[i].sends = "write" => r.steps[i].marked

\* The sources of a mark are all the signals that support it (safety.py:83-89,
\* flow.py:814).  AB-1 passes over a step whose name has marked it already, so that mark
\* can be taken back although the step may be the one that wrote.
PrecautionStands ==
  \A r \in recipe : r.over => \A i \in DOMAIN r.steps : r.steps[i].marked

\* Every annotation moves the steps digest (flows.py:2211).  One that only adds "human"
\* to the sources of a mark does not.
AnnotationStales ==
  [][\A r \in recipe, q \in recipe' :
       (MarkWrites \/ MarkReads) /\ r # q => Digest(r) # Digest(q)]_reviewVars

\* What runs approved is the flow as a human reviewed it (flows.py:2137).  Whether it is
\* a declared write is not part of the binding.
DeclarationReviewed ==
  (\E e \in Reads : Returns(e)) /\ approved => \A b \in blessed : b.declared = spec.declared
===============================================================================
