------------------------------ MODULE Repair_proofs ------------------------------
(***************************************************************************)
(* Proofs about Repair, for any recipes, any length of a replanned tail    *)
(* and any number of runs. And about Bind, for tables and sections of any  *)
(* size that change as often as they like: that a keyed row keeps its      *)
(* step, that the ladder prefers no guess to the element at its path, and  *)
(* that a press is pinned to the focused field.                            *)
(***************************************************************************)
EXTENDS Repair, Bind, SequenceTheorems, FiniteSetTheorems, WellFoundedInduction, TLAPS

\* What a recipe and every working copy of one keep.
KeptStep(s) == (~s.gated => s.sends # "now") /\ (s.slot => s.text = "frozen")
Kept(f) == \A j \in DOMAIN f : KeptStep(f[j])

\* A repair that wrote while it was watched is known to have written.
Watched ==
  /\ pc = "healed" /\ heal.sends = "now" => wrote
  /\ pc = "replan" /\ ~wrote => Kept(tail)
  /\ pc \notin {"idle", "replan"} => tail = <<>>

\* The steps ahead have not been acted, and a write only once.
ActedOnce ==
  pc # "idle" => \A j \in DOMAIN acted :
    /\ j > i => acted[j] = 0
    /\ j = i /\ pc \in {"step", "look", "settle", "relook", "act"} => acted[j] = 0
    /\ flow[j].gated => acted[j] <= 1

SlotsFilled ==
  params /\ pc # "idle" =>
    \A j \in DOMAIN typed : flow[j].slot => typed[j] \in {None, "caller"}

\* A look that was refused was the last one at its step.
Refused ==
  /\ bound = "wrong" => ~rival
  /\ pc \in {"step", "look", "settle", "relook"} => ~rival /\ bound = None

\* The inductive invariant.
IInv ==
  /\ TypeOK
  /\ Kept(recipe)
  /\ pc # "idle" => Kept(flow)
  /\ Watched
  /\ ActedOnce
  /\ SlotsFilled
  /\ Refused

-------------------------------------------------------------------------------
(* The parts of a step.                                                    *)

LEMMA ProposalsSend == \A p \in Proposals : p.act \in {"type", "click", "other"} /\ p.marked \in BOOLEAN /\ p.sends \in Sends
BY DEF Proposals

LEMMA StepFields == \A s \in Steps : /\ s.gated \in BOOLEAN /\ s.slot \in BOOLEAN
                                     /\ s.text \in {"frozen", "model"} /\ s.sends \in Sends
BY DEF Steps

\* What a heal makes of a step.
LEMMA HealedStep ==
  ASSUME Cur \in Steps, heal \in Proposals
  PROVE  /\ Healed \in Steps /\ Healed.gated = Cur.gated /\ Healed.slot = Cur.slot
         /\ heal.sends # "now" /\ KeptStep(Cur) => KeptStep(Healed)
BY DEF Healed, Steps, Proposals, KeptStep

\* The copy of the recipe after a heal.
LEMMA HealedFlow ==
  ASSUME flow \in Seq(Steps), i \in DOMAIN flow, heal \in Proposals
  PROVE  LET f == [flow EXCEPT ![i] = Healed]
         IN  /\ f \in Seq(Steps) /\ Len(f) = Len(flow) /\ DOMAIN f = DOMAIN flow
             /\ \A j \in DOMAIN f : f[j].gated = flow[j].gated /\ f[j].slot = flow[j].slot
             /\ Kept(flow) /\ heal.sends # "now" => Kept(f)
<1> DEFINE f == [flow EXCEPT ![i] = Healed]
<1>1. Cur \in Steps
  BY DEF Cur
<1>2. Healed \in Steps /\ Healed.gated = Cur.gated /\ Healed.slot = Cur.slot
      /\ (heal.sends # "now" /\ KeptStep(Cur) => KeptStep(Healed))
  BY <1>1, HealedStep
<1>3. f \in Seq(Steps) /\ Len(f) = Len(flow) /\ DOMAIN f = DOMAIN flow
      /\ f[i] = Healed /\ \A j \in DOMAIN f : j # i => f[j] = flow[j]
  <2> HIDE DEF Healed
  <2>1. f \in Seq(Steps) /\ Len(f) = Len(flow) /\ DOMAIN f = DOMAIN flow
    BY <1>2, ExceptSeq
  <2> QED BY <2>1
<1> HIDE DEF f
<1>4. Kept(flow) /\ heal.sends # "now" => Kept(f)
  BY <1>2, <1>3 DEF Kept, Cur
<1> QED BY <1>2, <1>3, <1>4 DEF f, Cur

\* What a replan joins.
LEMMA JoinedFlow ==
  ASSUME flow \in Seq(Steps), i \in DOMAIN flow, tail \in Seq(Steps), Kept(flow), Kept(tail)
  PROVE  SubSeq(flow, 1, i - 1) \o tail \in Seq(Steps) /\ Kept(SubSeq(flow, 1, i - 1) \o tail)
<1> DEFINE h == SubSeq(flow, 1, i - 1)
<1>1. i \in 1..Len(flow)
  OBVIOUS
<1>2. h \in Seq(Steps) /\ Len(h) = i - 1 /\ \A j \in 1..(i - 1) : h[j] = flow[j]
  BY <1>1
<1> HIDE DEF h
<1>3. h \o tail \in Seq(Steps) /\ Len(h \o tail) = Len(h) + Len(tail)
      /\ \A j \in 1..(Len(h) + Len(tail)) :
           (h \o tail)[j] = IF j <= Len(h) THEN h[j] ELSE tail[j - Len(h)]
  BY <1>2, ConcatProperties
<1>4. ASSUME NEW j \in DOMAIN (h \o tail) PROVE KeptStep((h \o tail)[j])
  <2>1. j \in 1..(Len(h) + Len(tail))
    BY <1>3
  <2>2. CASE j <= Len(h)
    BY <1>1, <1>2, <1>3, <2>1, <2>2 DEF Kept
  <2>3. CASE ~(j <= Len(h))
    <3>1. j - Len(h) \in DOMAIN tail
      BY <1>2, <2>1, <2>3
    <3> QED BY <1>3, <2>1, <2>3, <3>1 DEF Kept
  <2> QED BY <2>2, <2>3
<1> QED BY <1>3, <1>4 DEF Kept, h

-------------------------------------------------------------------------------
(* The inductive invariant holds at first, and every action keeps it.      *)

LEMMA Empty == <<>> \in Seq(Steps) /\ Len(<<>>) = 0 /\ DOMAIN <<>> = {}
OBVIOUS

LEMMA NothingProposed == NoProposal \in Proposals
BY DEF NoProposal, Proposals, Sends

LEMMA InitImpliesIInv == Init => IInv
<1> SUFFICES ASSUME Init PROVE IInv
  OBVIOUS
<1>1. recipe \in Seq(Steps) /\ Kept(recipe)
  BY RecipesAssumption, StepFields DEF Init, Kept, KeptStep, Sends
<1>2. TypeOK
  <2>1. /\ recipe \in Seq(Steps) /\ flow \in Seq(Steps) /\ tail \in Seq(Steps) /\ Len(tail) <= MaxTail
        /\ runs \in 0..Runs
    BY <1>1, Empty, BoundsAssumption DEF Init
  <2>2. (\A j \in DOMAIN typed : typed[j] \in {None, "frozen", "model", "caller"})
        /\ (\A j \in DOMAIN acted : acted[j] \in Nat)
    BY Empty DEF Init
  <2>3. heal \in Proposals
    BY NothingProposed DEF Init
  <2> QED BY <2>1, <2>2, <2>3 DEF Init, TypeOK, Views, None
<1> QED
  BY <1>1, <1>2 DEF Init, IInv, Watched, ActedOnce, SlotsFilled, Refused, None

LEMMA BeginKeeps == IInv /\ Begin => IInv'
<1> SUFFICES ASSUME IInv, Begin PROVE IInv'
  OBVIOUS
<1>1. recipe \in Seq(Steps) /\ (recipe # <<>> => 1 \in DOMAIN recipe)
  BY DEF IInv, TypeOK
<1>2. typed' = [j \in DOMAIN recipe |-> None] /\ acted' = [j \in DOMAIN recipe |-> 0] /\ flow' = recipe
      /\ i' = 1 /\ recipe' = recipe
  BY DEF Begin
<1>3. TypeOK'
  <2>1. /\ recipe' \in Seq(Steps) /\ flow' \in Seq(Steps) /\ tail' \in Seq(Steps) /\ Len(tail') <= MaxTail
        /\ runs' \in 0..Runs
    BY <1>1, Empty, BoundsAssumption DEF Begin, IInv, TypeOK
  <2>2. (\A j \in DOMAIN typed' : typed'[j] \in {None, "frozen", "model", "caller"})
        /\ (\A j \in DOMAIN acted' : acted'[j] \in Nat)
        /\ (pc' # "idle" => i' \in DOMAIN flow')
        /\ DOMAIN typed' = DOMAIN flow' /\ DOMAIN acted' = DOMAIN flow'
    BY <1>1, <1>2 DEF Begin
  <2>3. heal' \in Proposals
    BY NothingProposed DEF Begin
  <2>4. answer' \in {None, "ok", "failed"} /\ pc' \in {"idle", "step"}
    BY DEF Begin
  <2> QED BY <2>1, <2>2, <2>3, <2>4 DEF Begin, TypeOK, Views, None
<1>4. (ActedOnce /\ SlotsFilled)'
  BY <1>2 DEF ActedOnce, SlotsFilled, None, IInv, TypeOK
<1>5. Kept(recipe)' /\ (pc # "idle" => Kept(flow))'
  BY <1>2 DEF IInv
<1> QED BY <1>3, <1>4, <1>5 DEF Begin, IInv, Watched, Refused, None

LEMMA RaisesKeeps == IInv /\ Raises => IInv'
BY DEF Raises, IInv, TypeOK, Watched, ActedOnce, SlotsFilled, Refused, disk, run, look, wire, None

LEMMA PaintKeeps == IInv /\ Paint => IInv'
BY DEF Paint, IInv, TypeOK, Watched, ActedOnce, SlotsFilled, Refused, disk, run, look, wire

LEMMA LeavesKeeps == IInv /\ Leaves => IInv'
<1> SUFFICES ASSUME IInv, Leaves PROVE IInv'
  OBVIOUS
<1>1. UNCHANGED <<recipe, runs, answer, pc, flow, provider, params, i, dirty, typed, acted, view, gating, bound,
                  rival, busy, heal, tail>>
  BY DEF Leaves, disk, look
<1>2. pending \subseteq {"recipe", "model"} /\ wrote \in BOOLEAN /\ model \in BOOLEAN
  BY DEF IInv, TypeOK
<1>3. PICK who \in pending :
        /\ pending' = pending \ {who}
        /\ \/ wrote' = TRUE /\ model' = (model \/ who = "model")
           \/ UNCHANGED <<wrote, model>>
  BY DEF Leaves
<1>4. pending' \subseteq {"recipe", "model"}
  BY <1>2, <1>3
<1>5. wrote' \in BOOLEAN /\ model' \in BOOLEAN /\ (wrote => wrote')
  BY <1>2, <1>3
<1> QED BY <1>1, <1>4, <1>5 DEF IInv, TypeOK, Watched, ActedOnce, SlotsFilled, Refused

LEMMA StepKeeps == IInv /\ Step => IInv'
<1> SUFFICES ASSUME IInv, Step PROVE IInv'
  OBVIOUS
<1>1. Cur.gated \in BOOLEAN
  BY StepFields DEF Step, Cur, IInv, TypeOK
<1>2. /\ UNCHANGED <<recipe, runs, answer, flow, provider, params, i, dirty, typed, acted, model, bound, rival,
                     busy, pending, heal, wrote, tail>>
      /\ gating' \in BOOLEAN /\ view' \in Views /\ pc = "step" /\ pc' = "look"
  BY <1>1 DEF Step, disk, run, wire
<1> QED BY <1>2 DEF IInv, TypeOK, Watched, ActedOnce, SlotsFilled, Refused, None

LEMMA LookKeeps == IInv /\ (Look \/ Settle \/ Relook) => IInv'
<1> SUFFICES ASSUME IInv, Look \/ Settle \/ Relook PROVE IInv'
  OBVIOUS
\* A look changes where the run is, what is bound, and nothing else.
<1>1. /\ UNCHANGED <<runs, flow, provider, params, dirty, typed, acted, model, view, pending, heal, wrote, tail>>
      /\ UNCHANGED <<recipe, i>>
  BY DEF Look, Settle, Relook, Bind, Unbound, wire
<1>2. pc \in {"look", "settle", "relook"} /\ pc' \in {"look", "settle", "relook", "act", "heal", "idle"}
  BY DEF Look, Settle, Relook, Bind, Unbound
<1>3. answer' \in {answer, "failed"} /\ gating' \in BOOLEAN /\ busy' \in BOOLEAN /\ rival' \in BOOLEAN
  BY DEF Look, Settle, Relook, Bind, Unbound, look, IInv, TypeOK
<1>4. \/ bound' = bound /\ rival' = rival
      \/ bound' = bound /\ rival' = TRUE /\ pc' \in {"heal", "idle"}
      \/ bound' \in {"target", "wrong"} /\ rival' = rival /\ pc' = "act"
  BY DEF Look, Settle, Relook, Bind, Unbound, look
<1>5. TypeOK'
  BY <1>1, <1>2, <1>3, <1>4 DEF IInv, TypeOK, None
<1>6. (Kept(recipe) /\ (pc # "idle" => Kept(flow)) /\ Watched)'
  BY <1>1, <1>2 DEF IInv, Watched
<1>7. (ActedOnce /\ SlotsFilled)'
  BY <1>1, <1>2 DEF IInv, ActedOnce, SlotsFilled
<1>8. Refused'
  BY <1>2, <1>4 DEF IInv, Refused, None
<1> QED BY <1>5, <1>6, <1>7, <1>8 DEF IInv

\* What a step that failed leads to.
LEMMA FailedKeeps ==
  ASSUME IInv, Failed, pc \in {"heal", "healed"},
         UNCHANGED <<runs, flow, provider, params, typed, acted, model, view, pending>>, dirty' \in BOOLEAN
  PROVE  IInv'
<1>1. UNCHANGED <<recipe, runs, flow, provider, params, i, typed, acted, model, view, gating, bound, rival, busy,
                  pending, tail>>
  BY DEF Failed, look
<1>2. pc' \in {"idle", "replan"} /\ heal' \in Proposals /\ answer' \in {answer, "failed"} /\ wrote' \in BOOLEAN
  BY NothingProposed DEF Failed, IInv, TypeOK
<1>3. Kept(tail)
  BY Empty DEF IInv, Watched, Kept
<1>4. TypeOK'
  BY <1>1, <1>2 DEF IInv, TypeOK
<1>5. (Kept(recipe) /\ (pc # "idle" => Kept(flow)) /\ Watched)'
  BY <1>1, <1>2, <1>3 DEF IInv, Watched
<1>6. (ActedOnce /\ SlotsFilled /\ Refused)'
  BY <1>1, <1>2 DEF IInv, ActedOnce, SlotsFilled, Refused
<1> QED BY <1>4, <1>5, <1>6 DEF IInv

LEMMA HealDoesNot == IInv /\ (HealSkipped \/ HealDeclined \/ HealFails) => IInv'
<1> SUFFICES ASSUME IInv, HealSkipped \/ HealDeclined \/ HealFails PROVE IInv'
  OBVIOUS
<1>1. dirty' \in BOOLEAN
  BY DEF HealSkipped, HealDeclined, HealFails, IInv, TypeOK
<1> QED BY <1>1, FailedKeeps DEF HealSkipped, HealDeclined, HealFails

\* What the end of a step leads to: d says whether the copy f is written back.
LEMMA AdvanceKeeps ==
  ASSUME IInv, NEW f, NEW d \in BOOLEAN, f \in Seq(Steps), Kept(f), DOMAIN f = DOMAIN flow,
         \A j \in DOMAIN f : f[j].gated = flow[j].gated /\ f[j].slot = flow[j].slot,
         Advance(f, d), pc \in {"act", "barrier", "healed"}, flow' = f, dirty' \in BOOLEAN,
         heal' \in Proposals, pending' \subseteq {"recipe", "model"},
         DOMAIN typed' = DOMAIN typed, DOMAIN acted' = DOMAIN acted,
         \A j \in DOMAIN typed : typed'[j] \in {None, "frozen", "model", "caller"},
         \A j \in DOMAIN acted : acted'[j] \in Nat,
         \A j \in DOMAIN acted : (j > i => acted'[j] = 0) /\ (flow[j].gated => acted'[j] <= 1),
         params => \A j \in DOMAIN typed : flow[j].slot => typed'[j] \in {None, "caller"},
         UNCHANGED <<runs, provider, params, model, view, wrote, tail>>
  PROVE  IInv'
<1>1. i \in DOMAIN flow /\ DOMAIN typed = DOMAIN flow /\ DOMAIN acted = DOMAIN flow /\ i \in 1..Len(flow)
      /\ Len(f) = Len(flow)
  BY DEF IInv, TypeOK
<1>2. /\ pc' \in {"step", "idle"} /\ answer' \in {answer, "ok"} /\ recipe' \in {recipe, f}
      /\ gating' = FALSE /\ bound' = None /\ rival' = FALSE /\ busy' = FALSE
      /\ (pc' = "step" => i' = i + 1 /\ i < Len(flow))
  BY DEF Advance
<1>3. pc' # "idle" => i' \in DOMAIN flow' /\ DOMAIN typed' = DOMAIN flow' /\ DOMAIN acted' = DOMAIN flow'
  <2>1. i < Len(flow) => i + 1 \in DOMAIN flow
    BY <1>1 DEF IInv, TypeOK
  <2> QED BY <1>1, <1>2, <2>1
<1>4. TypeOK'
  BY <1>2, <1>3 DEF IInv, TypeOK, None
<1>5. (Kept(recipe) /\ (pc # "idle" => Kept(flow)) /\ Watched /\ Refused)'
  BY <1>2 DEF IInv, Watched, Refused, None
<1>6. ActedOnce'
  BY <1>1, <1>2 DEF ActedOnce
<1>7. SlotsFilled'
  BY <1>1 DEF SlotsFilled
<1> QED BY <1>4, <1>5, <1>6, <1>7 DEF IInv

LEMMA BarrierKeeps == IInv /\ Barrier => IInv'
<1> SUFFICES ASSUME IInv, Barrier PROVE IInv'
  OBVIOUS
<1>1. CASE Fail
  BY <1>1 DEF Barrier, Fail, IInv, TypeOK, Watched, ActedOnce, SlotsFilled, Refused, look, wire, None
<1>2. CASE Advance(flow, dirty)
  <2>1. /\ flow \in Seq(Steps) /\ Kept(flow) /\ dirty \in BOOLEAN /\ heal \in Proposals
        /\ pending \subseteq {"recipe", "model"} /\ pc = "barrier"
        /\ \A j \in DOMAIN typed : typed[j] \in {None, "frozen", "model", "caller"}
        /\ \A j \in DOMAIN acted : acted[j] \in Nat
        /\ \A j \in DOMAIN acted : (j > i => acted[j] = 0) /\ (flow[j].gated => acted[j] <= 1)
        /\ params => \A j \in DOMAIN typed : flow[j].slot => typed[j] \in {None, "caller"}
    BY DEF Barrier, IInv, TypeOK, ActedOnce, SlotsFilled
  <2>2. UNCHANGED <<runs, flow, provider, params, dirty, typed, acted, model, view, pending, heal, wrote, tail>>
    BY DEF Barrier, wire
  <2> QED BY <1>2, <2>1, <2>2, AdvanceKeeps
<1> QED BY <1>1, <1>2 DEF Barrier

LEMMA HealEndsKeeps == IInv /\ HealEnds => IInv'
<1> SUFFICES ASSUME IInv, HealEnds PROVE IInv'
  OBVIOUS
<1>1. /\ flow \in Seq(Steps) /\ i \in DOMAIN flow /\ heal \in Proposals /\ Kept(flow) /\ heal.sends # "now"
      /\ pending \subseteq {"recipe", "model"} /\ pc = "healed"
      /\ \A j \in DOMAIN typed : typed[j] \in {None, "frozen", "model", "caller"}
      /\ \A j \in DOMAIN acted : acted[j] \in Nat
      /\ \A j \in DOMAIN acted : (j > i => acted[j] = 0) /\ (flow[j].gated => acted[j] <= 1)
      /\ params => \A j \in DOMAIN typed : flow[j].slot => typed[j] \in {None, "caller"}
  BY DEF HealEnds, IInv, TypeOK, Watched, ActedOnce, SlotsFilled
<1>2. /\ flow' \in Seq(Steps) /\ DOMAIN flow' = DOMAIN flow /\ Kept(flow')
      /\ \A j \in DOMAIN flow' : flow'[j].gated = flow[j].gated /\ flow'[j].slot = flow[j].slot
  BY <1>1, HealedFlow DEF HealEnds
<1>3. /\ UNCHANGED <<runs, provider, params, typed, acted, model, view, pending, wrote, tail>>
      /\ dirty' = TRUE /\ Advance(flow', TRUE) /\ heal' \in Proposals
  BY NothingProposed DEF HealEnds
<1> QED BY <1>1, <1>2, <1>3, AdvanceKeeps

\* The values that an act may type, and what it does to the counts.
LEMMA CountsOnce ==
  ASSUME IInv, pc # "idle", NEW X,
         acted' = [acted EXCEPT ![i] = @ + 1], Cur.gated => acted[i] = 0,
         X \in {"frozen", "model", "caller"}, typed' = [typed EXCEPT ![i] = X] \/ typed' = typed,
         params /\ Cur.slot /\ typed' # typed => X = "caller"
  PROVE  /\ DOMAIN typed' = DOMAIN typed /\ DOMAIN acted' = DOMAIN acted
         /\ \A j \in DOMAIN typed : typed'[j] \in {None, "frozen", "model", "caller"}
         /\ \A j \in DOMAIN acted : acted'[j] \in Nat
         /\ \A j \in DOMAIN acted : (j > i => acted'[j] = 0) /\ (flow[j].gated => acted'[j] <= 1)
         /\ params => \A j \in DOMAIN typed : flow[j].slot => typed'[j] \in {None, "caller"}
<1>1. i \in DOMAIN flow /\ DOMAIN typed = DOMAIN flow /\ DOMAIN acted = DOMAIN flow /\ i \in Nat
      /\ DOMAIN flow \subseteq Nat
  <2>1. flow \in Seq(Steps) /\ i \in DOMAIN flow /\ DOMAIN typed = DOMAIN flow /\ DOMAIN acted = DOMAIN flow
    BY DEF IInv, TypeOK
  <2>2. DOMAIN flow = 1..Len(flow) /\ Len(flow) \in Nat
    BY <2>1
  <2> QED BY <2>1, <2>2
<1>2. DOMAIN typed' = DOMAIN typed /\ DOMAIN acted' = DOMAIN acted
  OBVIOUS
<1>3. \A j \in DOMAIN typed : typed'[j] = typed[j] \/ (j = i /\ typed'[j] = X /\ typed' # typed)
  OBVIOUS
<1>4. \A j \in DOMAIN acted : acted'[j] = IF j = i THEN acted[j] + 1 ELSE acted[j]
  BY <1>1
<1>5. \A j \in DOMAIN acted : acted'[j] \in Nat
  BY <1>4 DEF IInv, TypeOK
<1>6. \A j \in DOMAIN acted : (j > i => acted'[j] = 0) /\ (flow[j].gated => acted'[j] <= 1)
  BY <1>1, <1>4 DEF IInv, TypeOK, ActedOnce, Cur
<1>7. \A j \in DOMAIN typed : typed'[j] \in {None, "frozen", "model", "caller"}
  BY <1>3 DEF IInv, TypeOK
<1>8. params => \A j \in DOMAIN typed : flow[j].slot => typed'[j] \in {None, "caller"}
  BY <1>1, <1>3 DEF IInv, SlotsFilled, Cur
<1> QED BY <1>2, <1>5, <1>6, <1>7, <1>8

LEMMA ActKeeps == IInv /\ Act => IInv'
<1> SUFFICES ASSUME IInv, Act PROVE IInv'
  OBVIOUS
<1>1. i \in DOMAIN flow /\ DOMAIN typed = DOMAIN flow /\ DOMAIN acted = DOMAIN flow /\ Cur \in Steps
      /\ flow \in Seq(Steps) /\ Kept(flow) /\ dirty \in BOOLEAN /\ heal \in Proposals /\ pc = "act"
  <2>1. pc = "act"
    BY DEF Act
  <2>2. flow \in Seq(Steps) /\ i \in DOMAIN flow
    BY <2>1 DEF IInv, TypeOK
  <2>3. Cur \in Steps
    BY <2>2 DEF Cur
  <2> QED BY <2>1, <2>2, <2>3 DEF IInv, TypeOK
<1>2. Cur.gated \in BOOLEAN /\ Cur.slot \in BOOLEAN /\ Cur.text \in {"frozen", "model"}
  BY <1>1, StepFields
<1> DEFINE X == IF params THEN "caller" ELSE Cur.text
<1>3. X \in {"frozen", "model", "caller"} /\ (params => X = "caller")
  BY <1>2
<1>4. typed' = [typed EXCEPT ![i] = X] \/ typed' = typed
  BY DEF Act
<1> HIDE DEF X
<1>5. acted[i] = 0
  BY <1>1 DEF IInv, ActedOnce
<1>6. /\ DOMAIN typed' = DOMAIN typed /\ DOMAIN acted' = DOMAIN acted
      /\ \A j \in DOMAIN typed : typed'[j] \in {None, "frozen", "model", "caller"}
      /\ \A j \in DOMAIN acted : acted'[j] \in Nat
      /\ \A j \in DOMAIN acted : (j > i => acted'[j] = 0) /\ (flow[j].gated => acted'[j] <= 1)
      /\ params => \A j \in DOMAIN typed : flow[j].slot => typed'[j] \in {None, "caller"}
  <2>1. acted' = [acted EXCEPT ![i] = @ + 1]
    BY DEF Act
  <2> QED BY <1>1, <1>3, <1>4, <1>5, <2>1, CountsOnce
<1>7. pending' \subseteq {"recipe", "model"}
  BY DEF Act, Sent, IInv, TypeOK
<1>8. UNCHANGED <<runs, flow, provider, params, dirty, model, view, heal, wrote, tail>>
  BY DEF Act
<1>9. CASE Advance(flow, dirty)
  BY <1>1, <1>6, <1>7, <1>8, <1>9, AdvanceKeeps
<1>10. CASE pc' \in {"barrier", "heal"} /\ UNCHANGED <<recipe, answer, i, look>>
  <2>1. TypeOK'
    BY <1>1, <1>6, <1>7, <1>8, <1>10 DEF IInv, TypeOK, look
  <2>2. (Kept(recipe) /\ (pc # "idle" => Kept(flow)) /\ Watched /\ Refused)'
    BY <1>1, <1>8, <1>10 DEF IInv, Watched, Refused, look
  <2>3. (ActedOnce /\ SlotsFilled)'
    BY <1>1, <1>6, <1>8, <1>10 DEF ActedOnce, SlotsFilled
  <2> QED BY <2>1, <2>2, <2>3 DEF IInv
<1> QED BY <1>9, <1>10 DEF Act

LEMMA HealActKeeps == IInv /\ HealAct => IInv'
<1> SUFFICES ASSUME IInv, HealAct PROVE IInv'
  OBVIOUS
<1>1. i \in DOMAIN flow /\ DOMAIN typed = DOMAIN flow /\ DOMAIN acted = DOMAIN flow /\ pc = "heal" /\ ~Cur.gated
  BY DEF HealAct, Healable, IInv, TypeOK
<1>2. PICK p \in Proposals :
        /\ heal' = p
        /\ acted' = [acted EXCEPT ![i] = @ + 1]
        /\ typed' = Types(p)
        /\ Sent(p.sends, "model")
        /\ wrote' = (p.sends = "now")
        /\ model' = (model \/ p.sends = "now")
  BY DEF HealAct
<1> DEFINE X == IF params /\ Cur.slot THEN "caller" ELSE "model"
<1>3. X \in {"frozen", "model", "caller"} /\ (params /\ Cur.slot => X = "caller")
  OBVIOUS
<1>4. typed' = [typed EXCEPT ![i] = X] \/ typed' = typed
  BY <1>2 DEF Types
<1> HIDE DEF X
<1>5. /\ DOMAIN typed' = DOMAIN typed /\ DOMAIN acted' = DOMAIN acted
      /\ \A j \in DOMAIN typed : typed'[j] \in {None, "frozen", "model", "caller"}
      /\ \A j \in DOMAIN acted : acted'[j] \in Nat
      /\ \A j \in DOMAIN acted : (j > i => acted'[j] = 0) /\ (flow[j].gated => acted'[j] <= 1)
      /\ params => \A j \in DOMAIN typed : flow[j].slot => typed'[j] \in {None, "caller"}
  BY <1>1, <1>2, <1>3, <1>4, CountsOnce
<1>6. pending' \subseteq {"recipe", "model"}
  BY <1>2 DEF Sent, IInv, TypeOK
<1>7. wrote' \in BOOLEAN /\ model' \in BOOLEAN /\ (heal'.sends = "now" => wrote')
  BY <1>2
<1>8. /\ UNCHANGED <<recipe, runs, answer, flow, provider, params, i, dirty, view, gating, bound, rival, busy, tail>>
      /\ heal' \in Proposals /\ pc' = "healed"
  BY <1>2 DEF HealAct, disk, look
<1>9. TypeOK'
  BY <1>1, <1>5, <1>6, <1>7, <1>8 DEF IInv, TypeOK
<1>10. (Kept(recipe) /\ (pc # "idle" => Kept(flow)) /\ Watched /\ Refused)'
  BY <1>1, <1>7, <1>8 DEF IInv, Watched, Refused
<1>11. (ActedOnce /\ SlotsFilled)'
  BY <1>1, <1>5, <1>8 DEF ActedOnce, SlotsFilled
<1> QED BY <1>9, <1>10, <1>11 DEF IInv

LEMMA ReplanActKeeps == IInv /\ ReplanAct => IInv'
<1> SUFFICES ASSUME IInv, ReplanAct PROVE IInv'
  OBVIOUS
<1>1. PICK p \in Proposals :
        /\ ~p.marked
        /\ Sent(p.sends, "model")
        /\ wrote' = (wrote \/ p.sends = "now")
        /\ model' = (model \/ p.sends = "now")
        /\ tail' \in {tail, Append(tail, [gated |-> FALSE, slot |-> FALSE, text |-> "frozen", sends |-> p.sends])}
  BY DEF ReplanAct
<1> DEFINE st == [gated |-> FALSE, slot |-> FALSE, text |-> "frozen", sends |-> p.sends]
<1>2. st \in Steps /\ (p.sends # "now" => KeptStep(st))
  BY ProposalsSend DEF Steps, KeptStep
<1>3. tail \in Seq(Steps) /\ Len(tail) < MaxTail
  BY DEF ReplanAct, IInv, TypeOK
<1> HIDE DEF st
<1>4. Append(tail, st) \in Seq(Steps) /\ Len(Append(tail, st)) = Len(tail) + 1
      /\ \A j \in DOMAIN Append(tail, st) : Append(tail, st)[j] = IF j = Len(tail) + 1 THEN st ELSE tail[j]
  BY <1>2, <1>3
<1>5. Kept(tail) /\ p.sends # "now" => Kept(Append(tail, st))
  BY <1>2, <1>3, <1>4 DEF Kept
<1>6. tail' = tail \/ tail' = Append(tail, st)
  BY <1>1 DEF st
<1>7. tail' \in Seq(Steps) /\ Len(tail') <= MaxTail /\ (~wrote' => Kept(tail'))
  <2>1. pc = "replan" /\ (~wrote' => ~wrote /\ p.sends # "now")
    BY <1>1 DEF ReplanAct
  <2>2. ~wrote' => Kept(tail')
    BY <2>1, <1>5, <1>6 DEF IInv, Watched
  <2> QED BY <2>2, <1>3, <1>4, <1>6, BoundsAssumption
<1>8. pending' \subseteq {"recipe", "model"} /\ wrote' \in BOOLEAN /\ model' \in BOOLEAN
  BY <1>1 DEF Sent, IInv, TypeOK
<1> QED
  BY <1>7, <1>8 DEF ReplanAct, IInv, TypeOK, Watched, ActedOnce, SlotsFilled, Refused, disk, look

LEMMA ReplanEndsKeeps == IInv /\ ReplanEnds => IInv'
<1> SUFFICES ASSUME IInv, ReplanEnds PROVE IInv'
  OBVIOUS
<1>1. CASE ~wrote /\ flow' = SubSeq(flow, 1, i - 1) \o tail /\ dirty' = TRUE /\ recipe' = flow' /\ answer' = "ok"
  <2>1. flow' \in Seq(Steps) /\ Kept(flow')
    BY <1>1, JoinedFlow DEF ReplanEnds, IInv, TypeOK, Watched
  <2> QED
    BY <1>1, <2>1, BoundsAssumption DEF ReplanEnds, IInv, TypeOK, Watched, ActedOnce, SlotsFilled, Refused, look
<1>2. CASE answer' = "failed" /\ UNCHANGED <<flow, dirty, recipe>>
  BY <1>2, BoundsAssumption DEF ReplanEnds, IInv, TypeOK, Watched, ActedOnce, SlotsFilled, Refused, look
<1> QED BY <1>1, <1>2 DEF ReplanEnds

-------------------------------------------------------------------------------
(* The theorems.                                                           *)

LEMMA IInvInvariance == IInv /\ [Next]_vars => IInv'
<1>1. IInv /\ UNCHANGED vars => IInv'
  BY DEF vars, disk, run, look, wire, IInv, TypeOK, Watched, ActedOnce, SlotsFilled, Refused
<1> QED
  BY <1>1, BeginKeeps, RaisesKeeps, PaintKeeps, LeavesKeeps, StepKeeps, LookKeeps, HealDoesNot, BarrierKeeps,
     HealEndsKeeps, ActKeeps, HealActKeeps, ReplanActKeeps, ReplanEndsKeeps DEF Next

LEMMA AlwaysIInv == Spec => []IInv
BY InitImpliesIInv, IInvInvariance, PTL DEF Spec

\* Every state of a replay is of its types: no repair runs past the recipe's end.
THEOREM TypeCorrect == Spec => []TypeOK
<1>1. IInv => TypeOK
  BY DEF IInv
<1> QED BY <1>1, AlwaysIInv, PTL

\* No look, repair or replan acts a write of the recipe a second time.
THEOREM WritesAreActedOnce == Spec => []WritesActOnce
<1>1. IInv => WritesActOnce
  BY DEF IInv, ActedOnce, WritesActOnce
<1> QED BY <1>1, AlwaysIInv, PTL

\* However often recipes are healed and replanned, none ever has a step that
\* writes while it acts and has no gate.
THEOREM NoWriteIsLaundered == Spec => []NoLaunderedWrite
<1>1. IInv => NoLaunderedWrite
  BY DEF IInv, Kept, KeptStep, NoLaunderedWrite
<1> QED BY <1>1, AlwaysIInv, PTL

\* A repair neither types a value of its own at a slot of a row, nor leaves one in
\* the recipe.
THEOREM SlotsStayTheCallers == Spec => []SlotsAreTheCallers
<1>1. IInv => SlotsAreTheCallers
  BY DEF IInv, SlotsFilled, Kept, KeptStep, SlotsAreTheCallers
<1> QED BY <1>1, AlwaysIInv, PTL

\* A refusal of the resolver is never waited out into another element.
THEOREM RefusalsAreKept == Spec => []RefusalsStand
<1>1. IInv => RefusalsStand
  BY DEF IInv, Refused, RefusalsStand
<1> QED BY <1>1, AlwaysIInv, PTL

-------------------------------------------------------------------------------
(* Which element a step finds                                              *)

\* A set of numbers that is not empty has a first member.
LEMMA FirstIsLeast ==
  ASSUME NEW S \in SUBSET Nat, S # {}
  PROVE  First(S) \in S /\ \A s \in S : First(S) <= s
<1> DEFINE R == {p \in Nat \X Nat : p[1] < p[2]}
<1>1. IsWellFoundedOn(R, Nat)
  BY NatLessThanWellFounded DEF OpToRel
<1>2. PICK x \in S : \A y \in S : <<y, x>> \notin R
  BY <1>1, WFMin
<1>3. \A y \in S : x <= y
  <2>1. ASSUME NEW y \in S, y < x PROVE FALSE
    <3>1. <<y, x>> \in Nat \X Nat /\ <<y, x>>[1] < <<y, x>>[2]
      BY <2>1
    <3>2. <<y, x>> \in R
      BY <3>1
    <3> QED
      BY <1>2, <3>2
  <2> QED
    BY <2>1
<1> QED
  BY <1>2, <1>3, Zenon DEF First

LEMMA FirstOfOne ==
  ASSUME NEW x \in Nat
  PROVE  First({x}) = x
BY FirstIsLeast

\* Records are numbers, and finitely many.
LEMMA RecordsFinite ==
  /\ N \in Nat /\ Records \subseteq Nat /\ 0 \notin Records /\ IsFiniteSet(Records)
  /\ \A S \in SUBSET Records : IsFiniteSet(S) /\ Cardinality(S) \in 0..N
<1>1. N \in Nat /\ Records \subseteq Nat /\ 0 \notin Records
  BY BindAssumption DEF Records
<1>2. IsFiniteSet(Records) /\ Cardinality(Records) = N
  BY <1>1, FS_Interval DEF Records
<1>3. ASSUME NEW S \in SUBSET Records PROVE IsFiniteSet(S) /\ Cardinality(S) \in 0..N
  <2>1. IsFiniteSet(S) /\ Cardinality(S) <= N
    BY <1>2, FS_Subset
  <2>2. Cardinality(S) \in Nat
    BY <2>1, FS_CardinalityType
  <2> QED
    BY <1>1, <2>1, <2>2
<1> QED
  BY <1>1, <1>2, <1>3

LEMMA PageFacts ==
  /\ Visible \subseteq Attached /\ Attached \subseteq InDom /\ InDom \subseteq Records
  /\ \A ref : Tagged(ref) \subseteq Attached
  /\ Listed \subseteq Attached
<1>1. Visible \subseteq Attached /\ Attached \subseteq InDom /\ InDom \subseteq Records
  BY DEF Visible, Attached, InDom
<1>2. \A ref : Tagged(ref) \subseteq Attached
  BY DEF Tagged
<1>3. Listed \subseteq Attached
  BY DEF Listed, FirstOf
<1> QED
  BY <1>1, <1>2, <1>3

\* A unique match is one element that can be seen.
LEMMA UniqueIsOne ==
  ASSUME NEW S, Unique(S)
  PROVE  \E x \in Visible : S = {x} /\ First(S) = x
<1>1. S \subseteq Visible /\ S \subseteq Records /\ Cardinality(S) = 1
  BY PageFacts DEF Unique
<1>2. IsFiniteSet(S)
  BY <1>1, RecordsFinite
<1>3. PICK x : S = {x}
  BY <1>1, <1>2, FS_Singleton
<1>4. x \in Visible /\ x \in Nat
  BY <1>1, <1>3, RecordsFinite
<1> QED
  BY <1>3, <1>4, FirstOfOne

LEMMA OneIsUnique ==
  ASSUME NEW x \in Visible
  PROVE  Unique({x})
BY FS_Singleton DEF Unique

\* An element that is its only match is what is found.
LEMMA OneMatch ==
  ASSUME NEW S, Unique(S), NEW x \in S
  PROVE  S = {x} /\ First(S) = x
BY UniqueIsOne

-------------------------------------------------------------------------------
(* What the locator says of the element it was described from              *)

\* The page and its kind.
OnPage == shape \in Shapes /\ page \in [Records -> RecordType]

LEMMA ShapeFacts ==
  ASSUME OnPage
  PROVE  /\ shape.cands \in Seq(Values) /\ shape.rows \in BOOLEAN
         /\ {shape.testid, shape.placeholder, shape.elem_id} \subseteq Values \cup {Absent}
         /\ shape.secret \in {Absent, "name", "title", "key"}
BY BindAssumption DEF OnPage, ShapeType

\* An attribute that does not go by place is the record's on every page.
LEMMA ValueLasts ==
  ASSUME NEW kind, kind # "place", NEW r
  PROVE  Value(kind, r)' = Value(kind, r)
BY DEF Value

LEMMA DescribeFacts ==
  ASSUME NEW r
  PROVE  /\ describe(r).testid = Value(shape.testid, r)
         /\ describe(r).placeholder = Value(shape.placeholder, r)
         /\ describe(r).elem_id = Value(shape.elem_id, r)
         /\ shape.secret = Absent => describe(r).id = rowIdOf(r)
         /\ shape.secret = Absent /\ shape.rows => describe(r).source = "row"
<1> DEFINE raw == specOf(r)
<1>1. /\ raw.testid = Value(shape.testid, r) /\ raw.placeholder = Value(shape.placeholder, r)
      /\ raw.elem_id = Value(shape.elem_id, r) /\ raw.id = rowIdOf(r)
      /\ shape.rows => raw.source = "row"
      /\ {"name", "anchor", "source", "id", "testid", "placeholder", "elem_id"} \subseteq DOMAIN raw
  BY DEF specOf
<1> HIDE DEF raw
<1>2. /\ describe(r) = redact_spec_fields(raw)
  BY DEF describe, raw
<1>3. /\ describe(r).testid = raw.testid /\ describe(r).placeholder = raw.placeholder
      /\ describe(r).elem_id = raw.elem_id
  BY <1>1, <1>2 DEF redact_spec_fields
<1>4. ASSUME shape.secret = Absent
      PROVE  describe(r).id = raw.id /\ describe(r).source = raw.source
  BY <1>1, <1>2, <1>4, AbsentAssumption DEF redact_spec_fields
<1> QED
  BY <1>1, <1>3, <1>4

\* The first candidate that is no other row's is the record's key, unless a place comes
\* before it.
LEMMA KeyIsFound ==
  ASSUME OnPage, NEW r \in InDom, InDom # {r}, shape.rows, Before("own", "place")
  PROVE  rowIdOf(r) = <<"own", r>>
<1> DEFINE at(x) == {j \in DOMAIN shape.cands : shape.cands[j] = x}
           free == {j \in DOMAIN shape.cands : Cands(r)[j] \notin Taken(r)}
           own == First(at("own"))
           k == First(free)
<1>1. /\ DOMAIN shape.cands \subseteq Nat
      /\ \A j \in DOMAIN shape.cands : shape.cands[j] \in Values
  BY ShapeFacts
<1>2. at("own") # {} /\ (at("place") # {} => own < First(at("place")))
  BY DEF Before
<1>3. own \in at("own") /\ \A j \in at("own") : own <= j
  BY <1>1, <1>2, FirstIsLeast
<1>4. ASSUME NEW j \in at("place") PROVE own < j
  <2>1. First(at("place")) <= j /\ First(at("place")) \in at("place")
    BY <1>1, <1>4, FirstIsLeast
  <2> QED
    BY <1>1, <1>2, <1>3, <1>4, <2>1
<1>5. ASSUME NEW s \in InDom, NEW j \in DOMAIN shape.cands
      PROVE  Cands(s)[j] = Value(shape.cands[j], s)
  BY <1>5 DEF Cands
<1>6. own \in free
  <2>1. Cands(r)[own] = <<"own", r>>
    BY <1>3, <1>5 DEF Value
  <2>2. ASSUME NEW s \in InDom \ {r}, NEW j \in DOMAIN shape.cands
        PROVE  Cands(s)[j] # <<"own", r>>
    <3>1. Cands(s)[j] = Value(shape.cands[j], s) /\ shape.cands[j] \in Values
      BY <1>1, <1>5
    <3> QED
      BY <3>1 DEF Value, Values
  <2>3. <<"own", r>> \notin Taken(r)
    BY <2>2 DEF Taken
  <2> QED
    BY <1>3, <2>1, <2>3
<1>7. k \in free /\ k <= own
  BY <1>1, <1>6, FirstIsLeast
<1>8. shape.cands[k] = "own"
  <2>1. PICK s \in InDom : s # r
    OBVIOUS
  <2>2. shape.cands[k] # "shared"
    <3>1. ASSUME shape.cands[k] = "shared" PROVE FALSE
      <4>1. Cands(r)[k] = Cands(s)[k]
        BY <1>5, <1>7, <3>1 DEF Value
      <4>2. Cands(r)[k] \in Taken(r)
        <5>1. Cands(s)[k] \in {Cands(s)[j] : j \in DOMAIN shape.cands} /\ s \in InDom \ {r}
          BY <1>7, <2>1
        <5> QED
          BY <4>1, <5>1 DEF Taken
      <4> QED
        BY <1>7, <4>2
    <3> QED
      BY <3>1
  <2>3. shape.cands[k] # "place"
    BY <1>1, <1>3, <1>4, <1>7
  <2> QED
    BY <1>1, <1>7, <2>2, <2>3 DEF Values
<1>9. rowIdOf(r) = Cands(r)[k]
  BY <1>7 DEF rowIdOf
<1> QED
  BY <1>5, <1>7, <1>8, <1>9 DEF Value

\* Only the record itself has its key.
LEMMA KeyNamesRecord ==
  ASSUME OnPage, NEW r \in InDom, NEW m \in Records, rowIdOf(r) = <<"own", m>>
  PROVE  r = m
<1> DEFINE free == {j \in DOMAIN shape.cands : Cands(r)[j] \notin Taken(r)}
<1>1. r \in Nat /\ m \in Nat /\ <<"own", m>> \in Values \X Nat
  BY PageFacts, RecordsFinite DEF Values
<1>2. rowIdOf(r) # Absent
  BY <1>1, AbsentAssumption
<1>3. free # {} /\ rowIdOf(r) = Cands(r)[First(free)]
  BY <1>2 DEF rowIdOf
<1>4. /\ DOMAIN shape.cands \subseteq Nat
      /\ \A j \in DOMAIN shape.cands : shape.cands[j] \in Values
  BY ShapeFacts
<1>5. First(free) \in DOMAIN shape.cands
  BY <1>3, <1>4, FirstIsLeast
<1>6. Cands(r)[First(free)] = Value(shape.cands[First(free)], r) /\ shape.cands[First(free)] \in Values
  BY <1>4, <1>5 DEF Cands
<1> QED
  BY <1>3, <1>6 DEF Value, Values

\* How a locator comes to an element.
LEMMA CandidateCases ==
  ASSUME NEW s, Candidate(s) # {}
  PROVE  \/ \E j \in 1..6 : Candidate(s) = Confident(s)[j] /\ Wins(s, j, Confident(s)[j])
         \/ Candidate(s) = ByGuess(s)
         \/ ByGuess(s) = {} /\ Candidate(s) = Anchored(s) /\ Unique(Anchored(s))
<1> DEFINE wins == {j \in DOMAIN Confident(s) : Wins(s, j, Confident(s)[j])}
<1>1. DOMAIN Confident(s) = 1..6
  BY DEF Confident
<1>2. CASE wins # {}
  <2>1. Candidate(s) = Confident(s)[First(wins)]
    BY <1>2 DEF Candidate
  <2>2. First(wins) \in wins
    BY <1>1, <1>2, FirstIsLeast
  <2> QED
    BY <1>1, <2>1, <2>2
<1>3. CASE wins = {} /\ ByGuess(s) # {}
  BY <1>3 DEF Candidate
<1>4. CASE wins = {} /\ ByGuess(s) = {}
  <2>1. Candidate(s) = IF Unique(Anchored(s)) THEN Anchored(s) ELSE {}
    BY <1>4 DEF Candidate
  <2> QED
    BY <1>4, <2>1
<1> QED
  BY <1>2, <1>3, <1>4

LEMMA FoundIsSeen ==
  ASSUME NEW s, Candidate(s) # {}
  PROVE  Unique(Candidate(s)) /\ First(Candidate(s)) \in Visible
<1>1. Unique(Candidate(s))
  BY CandidateCases DEF Wins, ByGuess
<1> QED
  BY <1>1, UniqueIsOne

LEMMA ResolvedFacts ==
  ASSUME NEW s
  PROVE  /\ Resolved(s) \in Visible \cup {0}
         /\ Resolved(s) # 0 => /\ Candidate(s) # {} /\ Resolved(s) = First(Candidate(s))
                               /\ InRecordedRow(Resolved(s), s)
BY FoundIsSeen DEF Resolved

\* What is known of the locator once a step is cached, and on every later page.
Described ==
  /\ shape.testid # "place" => spec.testid = Value(shape.testid, made)
  /\ shape.placeholder # "place" => spec.placeholder = Value(shape.placeholder, made)
  /\ shape.elem_id # "place" => spec.elem_id = Value(shape.elem_id, made)
  /\ shape.rows /\ Before("own", "place") /\ ~alone /\ shape.secret = Absent =>
       spec.source = "row" /\ spec.id = <<"own", made>>

\* A keyed row keeps its step.
LEMMA GuardHolds ==
  ASSUME OnPage, made \in Records, Described, Resolved(spec) \notin {0, made},
         shape.rows, Before("own", "place"), ~alone
  PROVE  shape.secret # Absent
<1>1. ASSUME shape.secret = Absent PROVE FALSE
  <2>1. spec.source = "row" /\ spec.id = <<"own", made>>
    BY <1>1 DEF Described
  <2>2. Resolved(spec) \in InDom /\ InRecordedRow(Resolved(spec), spec)
    BY ResolvedFacts, PageFacts
  <2>3. <<"own", made>> # Absent
    BY RecordsFinite, AbsentAssumption DEF Values
  <2>4. rowIdOf(Resolved(spec)) = <<"own", made>>
    BY <2>1, <2>2, <2>3 DEF InRecordedRow
  <2> QED
    BY <2>2, <2>4, KeyNamesRecord
<1> QED
  BY <1>1

\* An attribute that is not by place answers for the element it was taken from.
LEMMA AnswersItself ==
  ASSUME NEW kind \in Values \cup {Absent}, kind # "place", made \in Attached, NEW want, want = Value(kind, made),
         Unique(Answering(kind, want))
  PROVE  First(Answering(kind, want)) = made
<1>1. want # Absent
  <2>1. Answering(kind, want) # {}
    BY UniqueIsOne
  <2> QED
    BY <2>1 DEF Answering
<1>2. made \in Answering(kind, want)
  BY <1>1 DEF Answering
<1> QED
  BY <1>2, OneMatch

\* An element that can be seen at its path is passed over for one of its name only.
LEMMA PathHolds ==
  ASSUME OnPage, made \in Records, Described, Resolved(spec) \notin {0, made},
         made \in Visible, AtPath(spec) = {made},
         "place" \notin {shape.testid, shape.placeholder, shape.elem_id}
  PROVE  page[made].name # spec.name /\ page[Resolved(spec)].name = spec.name
<1> DEFINE found == Candidate(spec)
           r == Resolved(spec)
<1>1. found # {} /\ r = First(found) /\ r # made /\ Unique(found) /\ r \in found
  <2>1. found # {} /\ r = First(found) /\ r # made
    BY ResolvedFacts
  <2> QED
    BY <2>1, FoundIsSeen, UniqueIsOne
<1>2. made \in Attached /\ Unique({made})
  BY PageFacts, OneIsUnique
<1>3. /\ {shape.testid, shape.placeholder, shape.elem_id} \subseteq Values \cup {Absent}
      /\ spec.testid = Value(shape.testid, made) /\ spec.placeholder = Value(shape.placeholder, made)
      /\ spec.elem_id = Value(shape.elem_id, made)
  BY ShapeFacts DEF Described
<1>4. ASSUME NEW S, S \in {Named(Visible, spec.name), Named(Attached, spec.name)}, found = S
      PROVE  page[made].name # spec.name /\ page[r].name = spec.name
  <2>1. page[r].name = spec.name
    BY <1>1, <1>4 DEF Named
  <2>2. page[made].name = spec.name => made \in found
    BY <1>2, <1>4 DEF Named
  <2> QED
    BY <1>1, <2>1, <2>2, OneMatch
<1>5. ASSUME NEW j \in 1..6, found = Confident(spec)[j], Wins(spec, j, found)
      PROVE  page[made].name # spec.name /\ page[r].name = spec.name
  <2>1. CASE j = 1
    <3>1. found = Answering(shape.testid, spec.testid)
      BY <1>5, <2>1 DEF Confident
    <3> QED
      BY <1>1, <1>2, <1>3, <3>1, AnswersItself
  <2>2. CASE j = 2
    <3>1. found = IF shape.known THEN Named(Visible, spec.name) ELSE {}
      BY <1>5, <2>2 DEF Confident
    <3> QED
      BY <1>1, <1>4, <3>1
  <2>3. CASE j = 3
    <3>1. found = Answering(shape.placeholder, spec.placeholder)
      BY <1>5, <2>3 DEF Confident
    <3> QED
      BY <1>1, <1>2, <1>3, <3>1, AnswersItself
  <2>4. CASE j = 4
    <3>1. found = Named(Attached, spec.name)
      BY <1>5, <2>4 DEF Confident
    <3> QED
      BY <1>4, <3>1
  <2>5. CASE j = 5
    <3>1. found = Answering(shape.elem_id, spec.elem_id)
      BY <1>5, <2>5 DEF Confident
    <3> QED
      BY <1>1, <1>2, <1>3, <3>1, AnswersItself
  <2>6. CASE j = 6
    <3>1. Unique(AtPath(spec)) => AtPath(spec) = found
      BY <1>5, <2>6 DEF Wins, Fuzzy
    <3> QED
      BY <1>1, <1>2, <3>1
  <2> QED
    BY <2>1, <2>2, <2>3, <2>4, <2>5, <2>6
<1>6. ASSUME found = ByGuess(spec) PROVE FALSE
  BY <1>1, <1>6 DEF ByGuess
<1>7. ASSUME ByGuess(spec) = {}, found = Anchored(spec)
      PROVE  page[made].name # spec.name /\ page[r].name = spec.name
  <2>1. page[r].name = spec.name
    BY <1>1, <1>7 DEF Anchored, Named
  <2>2. ASSUME page[made].name = spec.name PROVE FALSE
    <3>1. made \in Substring(spec)
      BY <1>2, <2>2 DEF Substring, Like, Has
    <3>2. Unique(Substring(spec)) => Substring(spec) = AtPath(spec)
      BY <3>1, OneMatch
    <3>3. First(AtPath(spec)) = made
      BY <1>2, OneMatch
    <3>4. ~testid_contradicted(made, spec)
      BY <1>3 DEF testid_contradicted
    <3>5. Unique(AtPath(spec))
      BY <1>2
    <3>6. ByGuess(spec) = AtPath(spec)
      BY <3>2, <3>3, <3>4, <3>5 DEF ByGuess
    <3> QED
      BY <1>7, <3>6
  <2> QED
    BY <2>1, <2>2
<1> QED
  BY <1>1, <1>5, <1>6, <1>7, CandidateCases

-------------------------------------------------------------------------------
(* The invariant, step by step                                             *)

BindInv ==
  /\ BindTypeOK /\ shape \in Shapes
  /\ stage \in {"cached", "done"} => made \in Records /\ Described
  /\ KeyedRowHolds /\ NeverPassedOver /\ FocusIsPinned

LEMMA InvOnPage ==
  ASSUME BindInv
  PROVE  OnPage
BY DEF BindInv, BindTypeOK, OnPage

LEMMA ChangeKeeps ==
  ASSUME BindInv, Change
  PROVE  BindInv'
<1>1. PICK r \in Records, new \in RecordType :
        /\ page' = [page EXCEPT ![r] = new]
        /\ tags' = IF new.at \in {"gone", "bare"} THEN [tags EXCEPT ![r] = 0] ELSE tags
  BY DEF Change
<1>2. /\ UNCHANGED <<shape, seen, looks, stage, meant, pinned, made, alone, spec, element, answered>>
      /\ drift' = drift + 1 /\ drift < MaxDrift /\ stage # "done" /\ N \in Nat /\ MaxDrift \in Nat
  BY BindAssumption DEF Change
<1>3. BindTypeOK' /\ shape' \in Shapes
  BY <1>1, <1>2 DEF BindInv, BindTypeOK
<1>4. ASSUME stage = "cached" PROVE made' \in Records /\ Described'
  <2>1. /\ shape.testid # "place" => Value(shape.testid, made)' = Value(shape.testid, made)
        /\ shape.placeholder # "place" => Value(shape.placeholder, made)' = Value(shape.placeholder, made)
        /\ shape.elem_id # "place" => Value(shape.elem_id, made)' = Value(shape.elem_id, made)
    BY <1>2 DEF Value
  <2>2. Before("own", "place")' = Before("own", "place")
    BY <1>2 DEF Before
  <2>3. made \in Records /\ Described
    BY <1>4 DEF BindInv
  <2> QED
    BY <1>2, <2>1, <2>2, <2>3 DEF Described
<1>5. KeyedRowHolds' /\ NeverPassedOver'
  BY <1>2 DEF KeyedRowHolds, NeverPassedOver
<1>6. FocusIsPinned'
  BY <1>2 DEF FocusIsPinned, BindInv
<1> QED
  BY <1>2, <1>3, <1>4, <1>5, <1>6 DEF BindInv

LEMMA SnapshotKeeps ==
  ASSUME BindInv, Snapshot
  PROVE  BindInv'
<1>1. /\ seen' = [r \in Listed |-> Cardinality({s \in Listed : s <= r})]
      /\ tags' = [r \in Records |-> IF r \in Listed THEN seen'[r] ELSE tags[r]]
      /\ looks' = looks + 1 /\ looks < 2 /\ stage' = "seen"
      /\ UNCHANGED <<shape, page, drift, meant, pinned, made, alone, spec, element, answered>>
  BY DEF Snapshot
<1>2. Listed \subseteq Records
  BY PageFacts
<1>3. ASSUME NEW r \in Listed PROVE seen'[r] \in 0..N
  <2>1. {s \in Listed : s <= r} \in SUBSET Records
    BY <1>2
  <2> QED
    BY <1>1, <2>1, RecordsFinite
<1>4. tags' \in [Records -> 0..N]
  BY <1>1, <1>3 DEF BindInv, BindTypeOK
<1>5. BindTypeOK' /\ shape' \in Shapes
  BY <1>1, <1>2, <1>4 DEF BindInv, BindTypeOK
<1>6. KeyedRowHolds' /\ NeverPassedOver' /\ FocusIsPinned'
  BY <1>1 DEF KeyedRowHolds, NeverPassedOver, FocusIsPinned, BindInv
<1> QED
  BY <1>1, <1>5, <1>6 DEF BindInv

\* A step is cached with the locator of an element of the page.
LEMMA CaptureKeeps ==
  ASSUME BindInv, NEW r \in Records, NEW e \in Attached, NEW focus \in BOOLEAN,
         Capture(r, e, focus), focus => r = e
  PROVE  BindInv'
<1>1. /\ meant' = r /\ pinned' = focus /\ made' = e /\ alone' = (InDom = {e}) /\ spec' = describe(e)
      /\ stage' = "cached" /\ tags' = [s \in Records |-> 0] /\ seen' = <<>> /\ looks' = 0
      /\ UNCHANGED <<shape, page, drift, element, answered>>
  BY DEF Capture
<1>2. e \in Records /\ e \in InDom /\ N \in Nat /\ Records \subseteq 0..N
  BY PageFacts, RecordsFinite DEF Records
<1>3. BindTypeOK' /\ shape' \in Shapes
  BY <1>1, <1>2 DEF BindInv, BindTypeOK
<1>4. Described'
  <2>1. /\ Value(shape.testid, made)' = Value(shape.testid, e) \/ shape.testid = "place"
        /\ Value(shape.placeholder, made)' = Value(shape.placeholder, e) \/ shape.placeholder = "place"
        /\ Value(shape.elem_id, made)' = Value(shape.elem_id, e) \/ shape.elem_id = "place"
    BY <1>1 DEF Value
  <2>2. Before("own", "place")' = Before("own", "place")
    BY <1>1 DEF Before
  <2>3. ASSUME shape.rows, Before("own", "place"), InDom # {e}, shape.secret = Absent
        PROVE  spec'.source = "row" /\ spec'.id = <<"own", e>>
    BY <1>1, <1>2, <2>3, InvOnPage, KeyIsFound, DescribeFacts
  <2> QED
    BY <1>1, <2>1, <2>2, <2>3, DescribeFacts DEF Described
<1>5. KeyedRowHolds' /\ NeverPassedOver' /\ FocusIsPinned'
  BY <1>1 DEF KeyedRowHolds, NeverPassedOver, FocusIsPinned
<1> QED
  BY <1>1, <1>2, <1>3, <1>4, <1>5 DEF BindInv

LEMMA ActOnKeeps ==
  ASSUME BindInv, ActOn
  PROVE  BindInv'
<1>1. PICK r \in DOMAIN seen :
        /\ First(Tagged(seen[r])) \in Visible
        /\ Capture(r, First(Tagged(seen[r])), FALSE)
  BY DEF ActOn
<1>2. r \in Records /\ First(Tagged(seen[r])) \in Attached
  BY <1>1, PageFacts DEF BindInv, BindTypeOK
<1> QED
  BY <1>1, <1>2, CaptureKeeps

LEMMA PressKeeps ==
  ASSUME BindInv, Press
  PROVE  BindInv'
<1>1. PICK f \in Visible :
        focused_ref(f) # 0 /\ Capture(f, First(Tagged(focused_ref(f))), TRUE)
  BY DEF Press
<1>2. Tagged(focused_ref(f)) = {f}
  BY <1>1 DEF focused_ref
<1>3. f \in Records /\ f \in Attached /\ f \in Nat
  BY <1>1, PageFacts, RecordsFinite
<1>4. First(Tagged(focused_ref(f))) = f
  BY <1>2, <1>3, FirstOfOne
<1> QED
  BY <1>1, <1>3, <1>4, CaptureKeeps

LEMMA ResolveKeeps ==
  ASSUME BindInv, Resolve
  PROVE  BindInv'
<1>1. /\ stage = "cached" /\ stage' = "done" /\ element' \in {0, Resolved(spec)}
      /\ answered' \in BOOLEAN
      /\ UNCHANGED <<shape, page, drift, tags, seen, looks, meant, pinned, made, alone, spec>>
  BY DEF Resolve, learned
<1>2. made \in Records /\ Described /\ OnPage
  BY <1>1, InvOnPage DEF BindInv
<1>3. Resolved(spec) \in 0..N /\ 0 \in 0..N
  <2>1. Records \subseteq 0..N /\ 0 \in 0..N
    BY RecordsFinite DEF Records
  <2> QED
    BY <2>1, ResolvedFacts, PageFacts
<1>4. BindTypeOK' /\ shape' \in Shapes
  <2>1. element' \in 0..N
    BY <1>1, <1>3
  <2> QED
    BY <1>1, <2>1 DEF BindInv, BindTypeOK
<1>5. Described'
  <2>1. /\ Value(shape.testid, made)' = Value(shape.testid, made)
        /\ Value(shape.placeholder, made)' = Value(shape.placeholder, made)
        /\ Value(shape.elem_id, made)' = Value(shape.elem_id, made)
    BY <1>1 DEF Value, Place, InDom
  <2>2. Before("own", "place")' = Before("own", "place")
    BY <1>1 DEF Before
  <2> QED
    BY <1>1, <1>2, <2>1, <2>2 DEF Described
<1>6. KeyedRowHolds'
  <2>1. Before("own", "place")' = Before("own", "place")
    BY <1>1 DEF Before
  <2>2. ASSUME element' \notin {0, made}, shape.rows, Before("own", "place"), ~alone
        PROVE  shape.secret # Absent
    BY <1>1, <1>2, <2>2, GuardHolds
  <2> QED
    BY <1>1, <2>1, <2>2 DEF KeyedRowHolds
<1>7. NeverPassedOver'
  <2>1. Visible' = Visible /\ AtPath(spec)' = AtPath(spec)
    BY <1>1 DEF Visible, AtPath, Attached, InDom, Place, Value
  <2>2. ASSUME element' \notin {0, made}, made \in Visible, AtPath(spec) = {made},
               "place" \notin {shape.testid, shape.placeholder, shape.elem_id}
        PROVE  page[made].name # spec.name /\ page[element'].name = spec.name
    BY <1>1, <1>2, <2>2, PathHolds
  <2> QED
    BY <1>1, <2>1, <2>2 DEF NeverPassedOver
<1>8. FocusIsPinned'
  BY <1>1 DEF FocusIsPinned, BindInv
<1> QED
  BY <1>1, <1>2, <1>4, <1>5, <1>6, <1>7, <1>8 DEF BindInv

-------------------------------------------------------------------------------
(* The theorems                                                            *)

LEMMA BindBegins ==
  ASSUME BindInit
  PROVE  BindInv
<1>1. N \in Nat /\ MaxDrift \in Nat /\ shape \in ShapeType /\ page \in [Records -> RecordType]
  BY BindAssumption DEF BindInit, RecordType
<1>2. BindTypeOK
  <2>1. DOMAIN seen = {} /\ 0 \in 0..N /\ 0 \in 0..MaxDrift /\ 0 \in 0..2
    BY <1>1 DEF BindInit
  <2>2. tags \in [Records -> 0..N]
    BY <2>1 DEF BindInit
  <2> QED
    BY <1>1, <2>1, <2>2 DEF BindInit, BindTypeOK
<1> QED
  BY <1>2 DEF BindInit, BindInv, KeyedRowHolds, NeverPassedOver, FocusIsPinned

LEMMA BindFrame ==
  ASSUME BindInv, UNCHANGED bindVars
  PROVE  BindInv'
<1>1. UNCHANGED <<shape, page, drift, tags, seen, looks, meant, pinned, made, alone, spec, stage, element, answered>>
  BY DEF bindVars, learned
<1>2. BindTypeOK' /\ (shape \in Shapes)'
  BY <1>1 DEF BindInv, BindTypeOK
<1>3. Described' = Described
  BY <1>1 DEF Described, Before, Value, Place, InDom
<1>4. KeyedRowHolds' /\ NeverPassedOver' /\ FocusIsPinned'
  BY <1>1 DEF BindInv, KeyedRowHolds, NeverPassedOver, FocusIsPinned, Before, Visible, AtPath, Attached, InDom, Place, Value
<1> QED
  BY <1>1, <1>2, <1>3, <1>4 DEF BindInv

LEMMA BindInvariance == BindSpec => []BindInv
<1>1. BindInit => BindInv
  BY BindBegins
<1>2. BindInv /\ [BindNext]_bindVars => BindInv'
  BY ChangeKeeps, SnapshotKeeps, ActOnKeeps, PressKeeps, ResolveKeeps, BindFrame DEF BindNext
<1> QED
  BY <1>1, <1>2, PTL DEF BindSpec

\* The page, the refs and the locator have their types throughout (snapshot.py, locators.py).
THEOREM BindTypeCorrect == BindSpec => []BindTypeOK
<1>1. BindInv => BindTypeOK
  BY DEF BindInv
<1> QED
  BY <1>1, BindInvariance, PTL

\* The row guard holds for any table and any changes of it (locators.py:431).
THEOREM KeyedRowsKeepTheirStep == BindSpec => []KeyedRowHolds
<1>1. BindInv => KeyedRowHolds
  BY DEF BindInv
<1> QED
  BY <1>1, BindInvariance, PTL

\* The ladder of resolve never prefers a guess to the element at its path (locators.py:474).
THEOREM GuessesNeverWin == BindSpec => []NeverPassedOver
<1>1. BindInv => NeverPassedOver
  BY DEF BindInv
<1> QED
  BY <1>1, BindInvariance, PTL

\* A press is pinned to the field that has the focus (locators.py:337).
THEOREM FocusStaysPinned == BindSpec => []FocusIsPinned
<1>1. BindInv => FocusIsPinned
  BY DEF BindInv
<1> QED
  BY <1>1, BindInvariance, PTL
=================================================================================
