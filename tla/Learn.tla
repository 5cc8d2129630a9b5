--------------------------------- MODULE Learn ---------------------------------
(***************************************************************************)
(* run_cached on its way to a new recipe: the replay of the old one, the   *)
(* memory of a refusal, best-of-N, and in each sample an authoring pass    *)
(* that watches the wire, decides which of its steps wrote, and caches the *)
(* recipe, verifies it by a second run first, or refuses it.               *)
(*                                                                         *)
(* Each step of a pass acts inside a window, and its window leaves a tail  *)
(* of write_window_ms behind; a request the page puts off may leave in the *)
(* window or the tail of a later step, or when nobody looks.               *)
(***************************************************************************)
EXTENDS Naturals, Sequences, FiniteSets

CONSTANTS
  N,        \* max_steps, and settings.stuck_limit is not smaller
  Samples,  \* best-of-N
  Runs,     \* bound on the calls of run_cached
  Kinds,    \* the actions an agent may choose: [sends, names_read, mark]
  Faults    \* what may go wrong

Sends == {"nothing", "now", "later"}

\* sends: does the action cause a write on the wire, at once or put off;
\* names_read: the body of its request names a read (body_says_read);
\* mark: classify_mutation takes the action for a write.
ASSUME BoundsAssumption == N \in Nat \ {0} /\ Samples \in Nat \ {0} /\ Runs \in Nat
ASSUME KindsAssumption == Kinds \subseteq [sends : Sends, names_read : BOOLEAN, mark : BOOLEAN]
ASSUME FaultsAssumption == Faults \subseteq {"raise", "unwritable"}

VARIABLES
  recipe,   \* is there a <key>.json?
  loose,    \* its steps that wrote, were seen to, and are not gated
  refused,  \* <key>.refused.json
  amnesia,  \* history: a refusal could not be written
  \* a call of run_cached
  pc,
  runs,
  sample,
  seen,     \* history: a write of an earlier pass of this call was seen
  told,     \* history: refusals since the last release
  \* an authoring pass
  steps,    \* the steps acted so far, and what is known of them
  tail,     \* the first step whose tail is still open
  wrote_by_step,
  acting_at_write,
  wrote,
  posted

disk == <<recipe, loose, refused, amnesia>>
call == <<runs, sample, seen, told>>
evidence == <<wrote_by_step, acting_at_write, wrote, posted>>
pass == <<steps, tail, evidence>>
vars == <<disk, pc, call, pass>>

\* left: "no" request left, or it was "seen", cleared as a "read", seen so "late"
\* that its own step's tail was over, or "unseen".
Step == [kind : Kinds, ok : BOOLEAN, left : {"no", "seen", "read", "late", "unseen"}]

Init ==
  /\ recipe = FALSE
  /\ loose = {}
  /\ refused = FALSE
  /\ amnesia = FALSE
  /\ pc = "idle"
  /\ runs = 0
  /\ sample = 0
  /\ seen = FALSE
  /\ told = 0
  /\ steps = <<>>
  /\ tail = 1
  /\ wrote_by_step = {}
  /\ acting_at_write = {}
  /\ wrote = FALSE
  /\ posted = FALSE

\* A fresh session and a fresh watcher.
NewPass ==
  /\ steps' = <<>>
  /\ tail' = 1
  /\ wrote_by_step' = {}
  /\ acting_at_write' = {}
  /\ wrote' = FALSE
  /\ posted' = FALSE

-------------------------------------------------------------------------------
(* The call: replay what is cached, or learn.                              *)

\* Fault: only a first learn looks for a refusal.
BeginForgetful ==
  /\ pc = "idle"
  /\ runs < Runs
  /\ runs' = runs + 1
  /\ pc' = "decide"
  /\ sample' = 1
  /\ seen' = FALSE
  /\ NewPass
  /\ UNCHANGED <<disk, told>>

\* mode="auto" replays a cached recipe first and learns if that fails;
\* mode="learn" learns.  A refusal ends both.
Begin ==
  /\ pc = "idle"
  /\ runs < Runs
  /\ runs' = runs + 1
  /\ \/ /\ recipe
        /\ pc' = "replay"
        /\ UNCHANGED <<sample, seen, pass>>
     \/ /\ ~refused
        /\ pc' = "decide"
        /\ sample' = 1
        /\ seen' = FALSE
        /\ NewPass
     \/ /\ refused
        /\ UNCHANGED <<pc, sample, seen, pass>>
  /\ UNCHANGED <<disk, told>>

ReplayEnds ==
  /\ pc = "replay"
  /\ \/ /\ pc' = "idle"
        /\ UNCHANGED <<sample, seen, pass>>
     \/ /\ ~refused
        /\ pc' = "decide"
        /\ sample' = 1
        /\ seen' = FALSE
        /\ NewPass
  /\ UNCHANGED <<disk, runs, told>>

-------------------------------------------------------------------------------
(* A pass: act, watch, and let time go by.                                 *)

Passing == {"decide", "act", "drain"}

Now == Len(steps)
Ok == {j \in 1..Now : steps[j].ok}

\* The step that acts, and the steps whose tails are open, may own a request.
Live == tail..Now

\* The agent chooses its next action; a step that is marked counts as a write
\* before it acts.
Act ==
  /\ pc = "decide"
  /\ Now < N
  /\ \E k \in Kinds :
       /\ steps' = Append(steps, [kind |-> k, ok |-> TRUE, left |-> "no"])
       /\ wrote' = (wrote \/ k.mark)
  /\ pc' = "act"
  /\ UNCHANGED <<disk, call, tail, wrote_by_step, acting_at_write, posted>>

\* Does step j have a request that may leave now?
Pending(j) ==
  /\ steps[j].left = "no"
  /\ \/ steps[j].kind.sends = "now" /\ pc = "act" /\ j = Now
     \/ steps[j].kind.sends = "later"

\* Fault: the watcher credits the step that acted last.
CreditLast == {Now}

\* _write_owner: one candidate, or nobody.
Owner == IF Cardinality(Live) = 1 THEN Live ELSE {}

\* _watch_request
Leaves ==
  /\ pc \in Passing
  /\ \E j \in 1..Now :
       /\ Pending(j)
       /\ \/ /\ Live = {}
             /\ steps' = [steps EXCEPT ![j].left = "unseen"]
             /\ UNCHANGED evidence
          \/ /\ Live # {}
             /\ steps[j].kind.names_read
             /\ steps' = [steps EXCEPT ![j].left = "read"]
             /\ posted' = TRUE
             /\ UNCHANGED <<wrote_by_step, acting_at_write, wrote>>
          \/ /\ Live # {}
             /\ ~steps[j].kind.names_read
             /\ steps' = [steps EXCEPT ![j].left = IF j \in Live THEN "seen" ELSE "late"]
             /\ wrote_by_step' = wrote_by_step \cup Owner
             /\ acting_at_write' = acting_at_write \cup IF Owner = {} THEN {Now} ELSE {}
             /\ wrote' = TRUE
             /\ posted' = TRUE
  /\ UNCHANGED <<disk, pc, call, tail>>

\* The act is over, well or not; only a step that went well is kept.
Verified ==
  /\ pc = "act"
  /\ \E ok \in BOOLEAN :
       /\ ok /\ steps[Now].kind.sends = "now" => steps[Now].left # "no"
       /\ steps' = [steps EXCEPT ![Now].ok = ok]
  /\ pc' = "decide"
  /\ UNCHANGED <<disk, call, tail, evidence>>

\* The oldest tail runs out; tails run out in order.
Expire ==
  /\ pc \in Passing
  /\ tail <= Now
  /\ tail = Now => pc # "act"
  /\ tail' = tail + 1
  /\ UNCHANGED <<disk, pc, call, steps, evidence>>

\* The agent is done, gives up or is stuck; the watcher outlives the last tail.
Stop ==
  /\ pc = "decide"
  /\ pc' = "drain"
  /\ UNCHANGED <<disk, call, pass>>

-------------------------------------------------------------------------------
(* What the pass makes of the evidence.                                    *)

\* The steps that are gated before the consistency check: those the classifier
\* marked, and those the wire credited.
Promoted == {j \in Ok : steps[j].kind.mark} \cup (wrote_by_step \cap Ok)

\* The page proves what caused a write that left inside the act that caused it; its
\* marks are complete as long as the pass stays on one origin.
Gone == {j \in 1..Now : steps[j].left # "no"}
MayBeProvable == Gone # {} /\ \A j \in Gone : steps[j].kind.sends = "now"

Unreconciled == acting_at_write # {} /\ wrote_by_step = {}

\* A write is accounted for if the step it was credited to was kept, or, when
\* none was credited, if a step that was acting when one left is gated.
Attributed ==
  /\ wrote_by_step \subseteq Ok
  /\ Unreconciled => Promoted \cap acting_at_write # {}

\* When the page cannot prove the placement, every step is gated.
Gated(provable) == IF Unreconciled /\ ~provable THEN Ok ELSE Promoted

Seen == {j \in 1..Now : steps[j].left \in {"seen", "late"}}

\* Replays of such a recipe fire these steps without a key and without a check: a
\* "lone" one was the only step of its pass whose write was seen.
Loose(gated) ==
  {IF Seen = {j} THEN "lone" ELSE "shared" : j \in {i \in Ok \ gated : steps[i].left = "seen"}}

\* cache.put
Put(gated) ==
  /\ recipe' = TRUE
  /\ loose' = Loose(gated)

\* The call is over, and all it knew is gone.
Over ==
  /\ pc' = "idle"
  /\ sample' = 0
  /\ seen' = FALSE
  /\ NewPass

\* A refusal is remembered, if it can be written; flows.learn also deletes a
\* recipe that was cached before, run_cached's other callers do not.
Refuse ==
  /\ pc = "drain"
  /\ Live = {}
  /\ ~Attributed
  /\ \/ refused' = TRUE /\ UNCHANGED amnesia
     \/ "unwritable" \in Faults /\ amnesia' = TRUE /\ UNCHANGED refused
  /\ \/ UNCHANGED <<recipe, loose>>
     \/ recipe' = FALSE /\ loose' = {}
  /\ told' = told + 1
  /\ Over
  /\ UNCHANGED runs

\* A pass that solved the goal and posted nothing is run a second time.
Verify ==
  /\ pc = "drain"
  /\ Live = {}
  /\ Attributed
  /\ Ok # {}
  /\ ~wrote
  /\ ~posted
  /\ pc' = "verify"
  /\ UNCHANGED <<disk, call, pass>>

VerifyPasses ==
  /\ pc = "verify"
  /\ Put(Promoted)
  /\ Over
  /\ UNCHANGED <<refused, amnesia, runs, told>>

\* A pass that wrote, or posted, is cached as it is.
CacheWrite ==
  /\ pc = "drain"
  /\ Live = {}
  /\ Attributed
  /\ Ok # {}
  /\ wrote \/ posted
  /\ \E provable \in {FALSE, MayBeProvable} : Put(Gated(provable))
  /\ Over
  /\ UNCHANGED <<refused, amnesia, runs, told>>

\* Fault: only what was cached ends best-of-N.
ResampleUnlessCached ==
  /\ sample < Samples
  /\ sample' = sample + 1
  /\ seen' = (seen \/ Seen # {})
  /\ pc' = "decide"
  /\ NewPass

\* _learn_n: another sample, unless a write was performed.
Resample ==
  /\ sample < Samples
  /\ ~wrote
  /\ sample' = sample + 1
  /\ seen' = (seen \/ Seen # {})
  /\ pc' = "decide"
  /\ NewPass

\* The goal was not met, or the recipe did not reproduce: nothing is cached.
Fails ==
  /\ \/ pc = "drain" /\ Live = {} /\ Attributed
     \/ pc = "verify"
  /\ \/ Resample
     \/ (sample = Samples \/ wrote) /\ Over
  /\ UNCHANGED <<disk, runs, told>>

-------------------------------------------------------------------------------
(* The environment.                                                        *)

\* A browser or a model call raises: the call ends there, with nothing cached
\* and nothing remembered.
Raises ==
  /\ "raise" \in Faults
  /\ pc # "idle"
  /\ Over
  /\ UNCHANGED <<disk, runs, told>>

\* flow release
Release ==
  /\ pc = "idle"
  /\ refused
  /\ refused' = FALSE
  /\ told' = 0
  /\ UNCHANGED <<recipe, loose, amnesia, pc, runs, sample, seen, pass>>

Next ==
  \/ Begin
  \/ ReplayEnds
  \/ Act
  \/ Leaves
  \/ Verified
  \/ Expire
  \/ Stop
  \/ Refuse
  \/ Verify
  \/ VerifyPasses
  \/ CacheWrite
  \/ Fails
  \/ Raises
  \/ Release

Spec == Init /\ [][Next]_vars

-------------------------------------------------------------------------------
(* Properties                                                              *)

\* The shape of the state: the call, the pass, and the steps evidence is about.
TypeOK ==
  /\ recipe \in BOOLEAN
  /\ loose \subseteq {"lone", "shared"}
  /\ refused \in BOOLEAN
  /\ amnesia \in BOOLEAN
  /\ pc \in Passing \cup {"idle", "replay", "verify"}
  /\ runs \in 0..Runs
  /\ sample \in 0..Samples
  /\ seen \in BOOLEAN
  /\ told \in Nat
  /\ steps \in Seq(Step) /\ Now <= N
  /\ tail \in 1..(Now + 1)
  /\ wrote_by_step \subseteq 1..Now
  /\ acting_at_write \subseteq 1..Now
  /\ wrote \in BOOLEAN
  /\ posted \in BOOLEAN

\* If the watcher saw the write of one step only, before that step's tail ran out,
\* the recipe gates that step: it is found among the candidates, or all are gated.
LoneWriteGated == "lone" \notin loose

\* Within one call, no pass is made after one whose write was seen, and a pass
\* is verified by a second run only if nothing it posted was seen.
NoSecondFire ==
  /\ pc \in Passing => ~seen
  /\ pc = "verify" => \A j \in 1..Now : steps[j].left \in {"no", "unseen"}

\* Between two releases at most one call ends in a refusal, unless the refusal
\* could not be written down.
RefusedOnce == told <= 1 \/ amnesia

-------------------------------------------------------------------------------
(* What the code does not keep: known limits, stated for the record.        *)

\* A flow with a write that was seen and is not gated is refused, however many steps
\* wrote: fails if two steps write within one window (_write_owner).
EveryWriteGated == loose = {}
===============================================================================
