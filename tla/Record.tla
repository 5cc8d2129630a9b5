-------------------------------- MODULE Record --------------------------------
(***************************************************************************)
(* flows.record and recorder.record_demo: a human demonstrates a flow, a   *)
(* script in the page writes down what was acted on and which act each     *)
(* request left under, Python drains that queue while the page navigates,  *)
(* and record() decides whether what it got may be kept as a recipe.       *)
(*                                                                         *)
(* The page is an event loop: an input event is a dispatch, a dispatch may *)
(* nest another, and what the page puts off runs later in a task of its    *)
(* own.  The turn of a commit is closed by a timer that may be overdue.    *)
(***************************************************************************)
EXTENDS Naturals, Sequences, FiniteSets, SequencesExt

CONSTANTS
  Labels,    \* the names a field may have
  Controls,  \* what can be acted on
  Asks,      \* what record() may be asked for
  Urls,
  Sends,     \* how a request may leave, and whether it does
  Actuations,\* bound on the acts of a demonstration
  Writes,    \* bound on the requests of a demonstration
  Navs,      \* bound on the navigations of a demonstration
  Happenings,\* bound on its requests and navigations together
  Faults     \* what may go wrong

\* A slot that has no name, or that mining names, is not named after a field.
ASSUME LabelsAssumption == "no slot" \notin Labels /\ "mined" \notin Labels

\* mark: classify_mutation takes it for a write; scope: its surroundings can be
\* hashed; secret: a password field; shows: its name or text repeats the values
\* typed into these fields.
ASSUME ControlsAssumption ==
  Controls \subseteq [kind : {"commit", "field"}, mark : BOOLEAN, scope : BOOLEAN,
                      label : Labels, secret : BOOLEAN, shows : SUBSET Labels]

\* write: the flow is declared a write; barriers: its step_confirms; bind: its
\* writable_slots; secrets: the slots declared secret; mine: mine_slots.  What
\* binds without a write, or binds and mines, is refused before a browser opens.
ASSUME AsksAssumption ==
  /\ Asks \subseteq [write : BOOLEAN, barriers : Nat, bind : SUBSET Labels,
                     secrets : SUBSET Labels, mine : BOOLEAN]
  /\ \A a \in Asks : a.bind # {} => a.write /\ ~a.mine
\* "submit" is a submit event, "form" a form.submit(), which fires none; a "worker"
\* runs without the script, and a "socket" is not patched.  What is called for and
\* never leaves is out = "none"; a beacon is not sure to show on the wire.
Hows == {"fetch", "beacon", "form", "submit", "worker", "socket"}
ASSUME SendsAssumption ==
  /\ Sends \subseteq [how : Hows, out : {"wire", "hidden", "none"}]
  /\ \A x \in Sends : /\ x.out = "hidden" <=> x.how = "beacon"
                      /\ x.out = "none" => x.how \in {"fetch", "submit"}

ASSUME BoundsAssumption == Actuations \in Nat /\ Writes \in Nat /\ Navs \in Nat /\ Happenings \in Nat
ASSUME FaultsAssumption == Faults \subseteq {"drain", "meta", "verdict"}

VARIABLES
  ask,      \* what record() was asked for, which matters once the demonstration is over
  pc,
  \* the page
  acted,     \* the acts written down, in order; the seq of an act is its place
  sent,     \* history: the requests the page tried to send
  buf,      \* the queue in sessionStorage
  busy,     \* is a task running?
  stack,    \* its dispatches: the act dispatched, or 0 if it is not written down
  root,     \* history: the act on whose behalf it runs, 0 if nobody's
  later,    \* the task put off, by the act on whose behalf it will run
  turn,     \* __ucturn
  resets,   \* the timers that will set it to 0
  navs,
  away,     \* the page is on another origin, its queue out of reach
  \* Python
  drains,   \* drain tasks scheduled
  events,
  crossed,
  raced,    \* history: the last drain did not see the queue of the demonstration
  flow,
  disk,
  answer

page == <<acted, sent, buf, busy, stack, root, later, turn, resets, navs, away>>
python == <<drains, events, crossed, raced>>
result == <<flow, disk, answer>>
recordVars == <<ask, pc, page, python, result>>

NoSlot == "no slot"
NoAsk == [write |-> FALSE, barriers |-> 0, bind |-> {}, secrets |-> {}, mine |-> FALSE]

Act == [control : Controls, human : BOOLEAN]
Request == [how : Hows, url : Urls, cause : 0..Actuations, by : 0..Actuations,
            late : BOOLEAN, out : {"wire", "hidden", "none"}]

\* What the queue holds: acts in order, and markers, each naming its request.  Python
\* takes the two kinds apart again, so how they are mixed tells nothing.
Queue == [acts : Seq(1..Actuations), markers : SUBSET (1..Writes)]
NoEvents == [acts |-> <<>>, markers |-> {}]

RecordInit ==
  /\ ask = NoAsk
  /\ pc = "demo"
  /\ acted = <<>>
  /\ sent = <<>>
  /\ buf = NoEvents
  /\ busy = FALSE
  /\ stack = <<>>
  /\ root = 0
  /\ later = {}
  /\ turn = 0
  /\ resets = 0
  /\ navs = 0
  /\ away = FALSE
  /\ drains = 0
  /\ events = NoEvents
  /\ crossed = FALSE
  /\ raced = FALSE
  /\ flow = <<>>
  /\ disk = "old"
  /\ answer = "none"

-------------------------------------------------------------------------------
(* The page.                                                               *)

\* The page lives until the session is closed, and is watched while it is on
\* the origin of the demonstration; what leaves that origin is refused or lost.
Live == pc \in {"demo", "closing", "drained"} /\ ~away

\* Bound: a task is worth running as long as it can do something.
Few == Len(sent) + navs < Happenings
Room == Len(acted) < Actuations \/ (Len(sent) < Writes /\ Few)

Commits == {i \in DOMAIN acted : acted[i].control.kind = "commit"}

\* store(): write an act down, and open a turn if it is a commit.
Store(c, human) ==
  /\ Len(acted) < Actuations
  /\ acted' = Append(acted, [control |-> c, human |-> human])
  /\ buf' = [buf EXCEPT !.acts = Append(@, Len(acted) + 1)]
  /\ stack' = Append(stack, Len(acted) + 1)
  /\ IF c.kind = "commit"
       THEN turn' = turn + 1 /\ resets' = resets + 1
       ELSE UNCHANGED <<turn, resets>>

\* A click, an Enter or a selection, or a value left in a field.
HumanActs ==
  /\ pc = "demo"
  /\ Live
  /\ ~busy
  /\ \E c \in Controls : Store(c, TRUE)
  /\ busy' = TRUE
  /\ root' = Len(acted) + 1
  /\ UNCHANGED <<ask, pc, sent, later, navs, away, python, result>>

\* A keystroke, whose field is written down when it is left.
Keystroke ==
  /\ pc = "demo"
  /\ Live
  /\ ~busy
  /\ Room
  /\ busy' = TRUE
  /\ stack' = <<0>>
  /\ root' = 0
  /\ UNCHANGED <<ask, pc, acted, sent, buf, later, turn, resets, navs, away, python, result>>

\* The page clicks a control itself: the listener takes it for a commit.
PageClicks ==
  /\ Live
  /\ busy
  /\ \E c \in Controls : c.kind = "commit" /\ Store(c, FALSE)
  /\ UNCHANGED <<ask, pc, sent, busy, root, later, navs, away, python, result>>

Defer ==
  /\ Live
  /\ busy
  /\ Len(sent) < Writes
  /\ Few
  /\ later = {}
  /\ root # 0
  /\ later' = {root}
  /\ UNCHANGED <<ask, pc, acted, sent, buf, busy, stack, root, turn, resets, navs, away,
                 python, result>>

\* A timer, the continuation of an awaited round trip, or what the page does on
\* its own: a load or interval handler.
LaterRuns ==
  /\ Live
  /\ ~busy
  /\ Room
  /\ \E i \in later \cup {0} :
       /\ root' = i
       /\ later' = later \ {i}
  /\ busy' = TRUE
  /\ UNCHANGED <<ask, pc, acted, sent, buf, stack, turn, resets, navs, away, python, result>>

DispatchEnds ==
  /\ Live
  /\ busy
  /\ IF Len(stack) > 1
       THEN /\ stack' = Front(stack)
            /\ UNCHANGED <<busy, root>>
       ELSE /\ stack' = <<>>
            /\ busy' = FALSE
            /\ root' = 0
  /\ UNCHANGED <<ask, pc, acted, sent, buf, later, turn, resets, navs, away, python, result>>

ResetRuns ==
  /\ Live
  /\ ~busy
  /\ resets > 0
  /\ resets' = resets - 1
  /\ turn' = 0
  /\ UNCHANGED <<ask, pc, acted, sent, buf, busy, stack, root, later, navs, away, python, result>>

-------------------------------------------------------------------------------
(* Requests.                                                               *)

Unmarked == {"worker", "socket"}

\* Fault: any dispatch will do (before R4.36).
AttributedInAnyDispatch(how) ==
  IF turn = 1 /\ (stack # <<>> \/ how = "submit") THEN Max(Commits) ELSE 0

\* attributedSeq(): the one commit of the open turn, if the current dispatch is
\* its own or a submit, and nothing otherwise.
Attributed(how) ==
  LET last == Max(Commits)
      its_own == stack # <<>> /\ Last(stack) = last
  IN IF turn = 1 /\ (its_own \/ how = "submit") THEN last ELSE 0

\* recordWire() and markForm(): whatever the page sends through a patched entry
\* point leaves a marker first, even if the request then does not leave.
PageSends ==
  /\ Live
  /\ busy
  /\ Len(sent) < Writes
  /\ Few
  /\ \E x \in Sends, u \in Urls :
       LET by == Attributed(x.how)
       IN /\ x.how \notin Unmarked
          /\ sent' = Append(sent,
               [how |-> x.how, url |-> u, cause |-> root, by |-> by,
                late |-> x.how = "submit" /\ by \notin ToSet(stack), out |-> x.out])
  /\ buf' = [buf EXCEPT !.markers = @ \cup {Len(sent) + 1}]
  /\ UNCHANGED <<ask, pc, acted, busy, stack, root, later, turn, resets, navs, away,
                 python, result>>

\* No marker.  No task sees it leave, so it need not leave in the middle of one.
OthersSend ==
  /\ Live
  /\ ~busy
  /\ Len(sent) < Writes
  /\ Few
  /\ \E x \in Sends, u \in Urls :
       /\ x.how \in Unmarked
       /\ sent' = Append(sent, [how |-> x.how, url |-> u, cause |-> 0, by |-> 0,
                                late |-> FALSE, out |-> x.out])
  /\ UNCHANGED <<ask, pc, acted, buf, busy, stack, root, later, turn, resets, navs, away,
                 python, result>>

-------------------------------------------------------------------------------
(* Navigations and drains.                                                 *)

\* A new document: what the old one put off is gone, its queue is not.  After the
\* last drain it makes no difference.
NewDocument ==
  /\ pc # "drained"
  /\ ~busy
  /\ navs < Navs
  /\ Few
  /\ navs' = navs + 1
  /\ later' = {}
  /\ turn' = 0
  /\ resets' = 0
  /\ UNCHANGED <<ask, pc, acted, sent, buf, busy, stack, root>>

\* _on_nav, while it listens.
Navigate ==
  /\ Live
  /\ NewDocument
  /\ drains' = IF pc = "demo" THEN drains + 1 ELSE drains
  /\ UNCHANGED <<away, events, crossed, raced, result>>

\* sessionStorage belongs to the origin.  Nobody listens once the demonstration
\* is over.
CrossOrigin ==
  /\ Live
  /\ NewDocument
  /\ away' = TRUE
  /\ IF pc = "demo"
       THEN drains' = drains + 1 /\ crossed' = TRUE
       ELSE UNCHANGED <<drains, crossed>>
  /\ raced' = (raced \/ (pc = "closing" /\ buf # NoEvents))
  /\ UNCHANGED <<events, result>>

\* Fault: cleared before it is read.
NotDrainedCleared == UNCHANGED events /\ buf' = NoEvents

\* Read and clear in one script, or nothing if a navigation destroys it.
Drained ==
  /\ events' = [acts |-> events.acts \o buf.acts, markers |-> events.markers \cup buf.markers]
  /\ buf' = NoEvents
NotDrained == UNCHANGED <<events, buf>>

DrainTask ==
  /\ pc \in {"demo", "closing"}
  /\ drains > 0
  /\ ~busy
  /\ drains' = drains - 1
  /\ \/ ~away /\ Drained
     \/ (away \/ "drain" \in Faults) /\ NotDrained
  /\ UNCHANGED <<ask, pc, acted, sent, busy, stack, root, later, turn, resets, navs, away,
                 crossed, raced, result>>

DemoEnds ==
  /\ pc = "demo"
  /\ pc' = "closing"
  /\ UNCHANGED <<ask, page, python, result>>

LastDrain ==
  /\ pc = "closing"
  /\ drains = 0
  /\ ~busy
  /\ pc' = "drained"
  /\ \/ ~away /\ Drained /\ UNCHANGED raced
     \/ /\ away \/ "drain" \in Faults
        /\ NotDrained
        /\ raced' = (raced \/ (~away /\ buf # NoEvents))
  /\ UNCHANGED <<ask, acted, sent, busy, stack, root, later, turn, resets, navs, away,
                 drains, crossed, result>>

\* The session is closed, and the page with it.
Closed ==
  /\ buf' = NoEvents
  /\ busy' = FALSE
  /\ stack' = <<>>
  /\ root' = 0
  /\ later' = {}
  /\ turn' = 0
  /\ resets' = 0

\* A demonstration that raises is drained and closed, and nothing comes of it.
DemoRaises ==
  /\ pc = "drained"
  /\ pc' = "done"
  /\ answer' = "raised"
  /\ Closed
  /\ UNCHANGED <<ask, acted, sent, navs, away, python, flow, disk>>

-------------------------------------------------------------------------------
(* What Python makes of the events.                                        *)

Markers == events.markers
Steps == ToSet(events.acts)

Wired(hows, u) == {k \in DOMAIN sent : sent[k].how \in hows /\ sent[k].url = u /\ sent[k].out = "wire"}
Marked(hows, u) == {k \in Markers : sent[k].how \in hows /\ sent[k].url = u}

\* More requests on the wire than markers, by url: fetches with the worker's, and
\* documents.
Shortfall ==
  \E u \in Urls :
    \/ Cardinality(Wired({"fetch", "worker"}, u)) > Cardinality(Marked({"fetch"}, u))
    \/ Cardinality(Wired({"form", "submit"}, u)) > Cardinality(Marked({"form", "submit"}, u))

Scoped(i) == i \in Steps /\ acted[i].control.scope

Unattributed == Shortfall \/ \E k \in Markers : ~Scoped(sent[k].by)

\* Only a write flow takes the markers as evidence; captions may add to them.
Mutates(i, write, captions) ==
  \/ acted[i].control.mark
  \/ write /\ \E k \in Markers : sent[k].by = i /\ Scoped(i)
  \/ i \in captions

StepOf(i, write, captions) ==
  LET mutating == Mutates(i, write, captions)
  IN [act |-> i, mutating |-> mutating, gated |-> mutating /\ acted[i].control.scope,
      slot |-> NoSlot]

\* record_demo puts its recipe over whatever was there, before it is judged.
Put ==
  /\ pc = "drained"
  /\ pc' = "judge"
  /\ ask' \in Asks
  /\ \E captions \in SUBSET {i \in Commits : ask'.write /\ Scoped(i) /\ ~acted[i].control.mark} :
       flow' = [j \in DOMAIN events.acts |-> StepOf(events.acts[j], ask'.write, captions)]
  /\ disk' = "new"
  /\ Closed
  /\ UNCHANGED <<acted, sent, navs, away, python, answer>>

-------------------------------------------------------------------------------
(* Slots.                                                                  *)

ControlOf(j) == acted[flow[j].act].control
Fields == {j \in DOMAIN flow : ControlOf(j).kind = "field"}
FieldsNamed(l) == {j \in Fields : ControlOf(j).label = l}

\* The value demonstrated is repeated by a later step, which no other value
\* would find.  A blanked value is repeated nowhere.
Leaks(j) == ~ControlOf(j).secret /\ \E i \in j+1..Len(flow) : ControlOf(j).label \in ControlOf(i).shows

\* Fault: the first field of that name.
BindableToFirst ==
  \A l \in ask.bind :
    \E j \in FieldsNamed(l) :
      /\ ~Leaks(j)
      /\ ControlOf(j).secret => l \in ask.secrets

\* Every name binds one field, whose credential goes to no ordinary parameter.
Bindable ==
  \A l \in ask.bind :
    \E j \in Fields :
      /\ FieldsNamed(l) = {j}
      /\ ~Leaks(j)
      /\ ControlOf(j).secret => l \in ask.secrets

Bound ==
  [j \in DOMAIN flow |->
     IF j \in Fields /\ ControlOf(j).label \in ask.bind
       THEN [flow[j] EXCEPT !.slot = ControlOf(j).label] ELSE flow[j]]

\* A slot mined from the page is never secret.
Mined == [j \in DOMAIN flow |->
            IF j \in Fields THEN [flow[j] EXCEPT !.slot = "mined"] ELSE flow[j]]

UnboundSecrets(f) == \E j \in Fields : ControlOf(j).secret /\ f[j].slot \notin ask.secrets

-------------------------------------------------------------------------------
(* The verdict.                                                            *)

Mutating == {j \in DOMAIN flow : flow[j].mutating}
Gated == {j \in DOMAIN flow : flow[j].gated}

\* A request of the kind that writes, or a frame on a socket, reached Playwright.
Performed == \E k \in DOMAIN sent : sent[k].out = "wire"

Rejected ==
  \/ crossed
  \/ flow = <<>>
  \/ ~ask.write /\ (Performed \/ Mutating # {})
  \/ /\ ask.write
     /\ \/ Mutating # Gated
        \/ Unattributed
        \/ Performed /\ Gated = {}
        \/ ask.barriers > 0 /\ ask.barriers # Cardinality(Mutating)
        \/ ~Bindable
        \/ UnboundSecrets(Bound)

Refusal ==
  /\ pc' = "done"
  /\ disk' = "none"
  /\ answer' = "refused"
  /\ UNCHANGED <<ask, page, python, flow>>

\* The new recipe stands, and _reset_learn_baselines may raise over it.
Standing(f) ==
  /\ pc' = "done"
  /\ flow' = f
  /\ answer' \in {"cached"} \cup (IF "meta" \in Faults THEN {"raised"} ELSE {})
  /\ UNCHANGED <<ask, page, python, disk>>

Refuse == pc = "judge" /\ Rejected /\ Refusal

\* The recipe that record_demo put is still there when record() ends without a verdict.
\* Here it should have been refused, but the delete raises, or the process dies before it.
Unjudged ==
  /\ "verdict" \in Faults
  /\ pc = "judge" /\ Rejected
  /\ pc' = "done"
  /\ answer' = "unjudged"
  /\ UNCHANGED <<ask, page, python, flow, disk>>

\* Here the steps have passed, and the replay that verifies them raises, or the put of what
\* they were bound to, or the delete of what is refused for its slots or its confirm.  What
\* was mined may have been put by then.
Unsettled ==
  /\ "verdict" \in Faults
  /\ pc = "judge" /\ ~Rejected
  /\ pc' = "done"
  /\ answer' = "unsettled"
  /\ \/ UNCHANGED flow
     \/ /\ ~ask.write /\ ask.mine /\ ask.secrets = {}
        /\ \A j \in Fields : ~Leaks(j)
        /\ flow' = Mined
  /\ UNCHANGED <<ask, page, python, disk>>

\* The confirm is missing, or already held on the entry page.
RefuseConfirm == pc = "judge" /\ ask.write /\ Refusal

KeepWrite == pc = "judge" /\ ~Rejected /\ ask.write /\ Standing(Bound)

\* A read flow is replayed once before it is trusted.
NotReproduced == pc = "judge" /\ ~Rejected /\ ~ask.write /\ Refusal

Verified ==
  /\ pc = "judge"
  /\ ~Rejected
  /\ ~ask.write
  /\ IF ask.mine
       THEN IF \/ ask.secrets # {}
               \/ \E j \in Fields : Leaks(j)
               \/ UnboundSecrets(Mined)
              THEN Refusal
              ELSE Standing(Mined)
       ELSE IF UnboundSecrets(flow) THEN Refusal ELSE Standing(flow)

Page ==
  \/ HumanActs \/ Keystroke \/ PageClicks \/ Defer \/ LaterRuns \/ DispatchEnds \/ ResetRuns
  \/ PageSends \/ OthersSend \/ Navigate \/ CrossOrigin

Python ==
  \/ DrainTask \/ DemoEnds \/ LastDrain \/ DemoRaises \/ Put
  \/ Refuse \/ RefuseConfirm \/ KeepWrite \/ NotReproduced \/ Verified
  \/ Unjudged \/ Unsettled

RecordNext == Page \/ Python

RecordSpec == RecordInit /\ [][RecordNext]_recordVars

-------------------------------------------------------------------------------
(* Properties.                                                             *)

\* Types, and what every state knows of the page: a task that is not running has
\* no dispatch, and an open turn has a commit and a timer that will close it.
RecordTypeOK ==
  /\ ask \in Asks \cup {NoAsk}
  /\ pc \in {"demo", "closing", "drained", "judge", "done"}
  /\ acted \in Seq(Act) /\ Len(acted) <= Actuations
  /\ sent \in Seq(Request) /\ Len(sent) <= Writes
  /\ {buf, events} \subseteq Queue
  /\ busy \in BOOLEAN
  /\ stack \in Seq(0..Actuations)
  /\ ~busy => stack = <<>> /\ root = 0
  /\ root \in 0..Actuations
  /\ later \subseteq 0..Actuations
  /\ resets \in 0..Actuations
  /\ turn \in 0..resets
  /\ turn > 0 => Commits # {}
  /\ navs \in 0..Navs
  /\ drains \in 0..navs
  /\ {away, crossed, raced} \subseteq BOOLEAN
  /\ flow \in Seq([act : 1..Actuations, mutating : BOOLEAN, gated : BOOLEAN,
                   slot : Labels \cup {NoSlot, "mined"}])
  /\ disk \in {"old", "none", "new"}
  /\ answer \in {"none", "cached", "refused", "raised", "unjudged", "unsettled"}

\* record() is over, and the recipe that stands has passed its checks of the steps.
Kept == pc = "done" /\ disk = "new" /\ answer # "unjudged"

GatedAtItsCause(k) ==
  /\ sent[k].by = sent[k].cause
  /\ \E j \in Gated : flow[j].act = sent[k].by

\* What the recorder is known to miss: a socket, if some step is gated; a request
\* whose marker was not drained, or that left none, behind a marker of the same
\* url whose request never left; a beacon whose marker was not drained; a control
\* the page clicked itself; and a submit event outside the dispatch of the commit
\* it is credited to.
KnownResidual(k) ==
  \/ sent[k].how = "socket" /\ Gated # {}
  \/ /\ k \notin Markers
     /\ \E m \in Markers :
          /\ sent[m].url = sent[k].url
          /\ sent[m].out = "none"
          /\ (sent[m].how = "fetch") = (sent[k].how \in {"fetch", "worker"})
  \/ sent[k].how = "beacon" /\ k \notin Markers
  \/ sent[k].by # 0 /\ (~acted[sent[k].by].human \/ sent[k].late)

\* A declared write flow that is kept gates every request that left at the very
\* act that caused it, however the page's tasks, its timers, its navigations and
\* the drains interleaved: an overdue reset credits no keystroke's request to the
\* click before it, and a lost queue never passes for a flow without writes.
EveryWriteGated ==
  Kept /\ ask.write =>
    \A k \in DOMAIN sent : sent[k].out # "none" => GatedAtItsCause(k) \/ KnownResidual(k)

\* The steps are the acts written down so far, and no act of the human's is missing.
Whole ==
  /\ \A j \in DOMAIN flow : flow[j].act = j
  /\ \A i \in DOMAIN acted : acted[i].human => i \in DOMAIN flow

\* A recipe that is kept has every act written down, in order, unless the last
\* drain itself lost them.
NothingLost == Kept /\ ~raced => Whole

\* Every credential comes from a secret slot that only its field is bound to.
OwnSlots ==
  \A j \in Fields :
    ControlOf(j).secret =>
      /\ flow[j].slot \in ask.secrets
      /\ \A i \in Fields \ {j} : flow[i].slot # flow[j].slot

\* A recipe that record() settled, and did not merely leave behind when it raised before
\* its last word, takes every credential from a secret slot that only its field is bound
\* to, whether it was bound by hand or mined.
CredentialsFromSlots == Kept /\ answer # "unsettled" => OwnSlots

-------------------------------------------------------------------------------
(* What the code does not keep: known limits, stated for the record.        *)

\* "a recorded write must NEVER be cached UNGATED" (record): record_demo has cached it
\* already, so this fails if the delete raises or the process dies before it.
NeverCachedUngated ==
  pc = "done" /\ disk = "new" /\ ask.write =>
    \A k \in DOMAIN sent : sent[k].out # "none" => GatedAtItsCause(k) \/ KnownResidual(k)

\* No recipe is left on disk that types a blank for a credential: fails if the verifying
\* replay raises (its session, its goto), or the put of the bound steps.
NoBlankCredentialStays == pc = "done" /\ disk = "new" => OwnSlots

\* "Navigation-safe" exfiltration: fails if a navigation beats the last drain.
NothingEverLost == Kept => Whole

\* record_demo's promise, "never gating the wrong step": fails if a load or interval
\* handler clicks a control, since the listener takes that click for the human's.
NeverGatesTheWrongStep ==
  Kept /\ ask.write =>
    \A k \in Markers : sent[k].by # 0 => sent[k].by = sent[k].cause
===============================================================================
